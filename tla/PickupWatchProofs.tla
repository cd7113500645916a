------------------------- MODULE PickupWatchProofs -------------------------
(***************************************************************************)
(* What PickupWatch promises for every number of students, every window    *)
(* and all timers that leave time to ask the teacher.                      *)
(***************************************************************************)
EXTENDS PickupWatch, WellFoundedInduction, TLAPS

----------------------------------------------------------------------------
(* The inductive invariants *)

Running == watch.step \in {"session", "read", "act"}

\* Nothing is stamped in the future, and a run is under way since lastRun.
ClockOK ==
  /\ lastRun <= clock /\ clock <= lastRun + RunEvery
  /\ unhealthyAt <= clock
  /\ watch.step # "idle" => watch.now = lastRun /\ unhealthyAt <= lastRun
  /\ Running => InWindow(lastRun)
  /\ \A s \in Students :
       /\ at[s].arrived <= clock /\ stillAt[s] <= clock /\ taggedAt[s] <= clock
       /\ \A k \in Kinds : sig[s][k].at <= clock

PromptsOK ==
  \A s \in Students :
    /\ check[s].answer = "none" => check[s].expires = 0
    /\ check[s].answer = "open" => stillAt[s] <= check[s].made
    /\ check[s].made <= clock
    /\ check[s].expires <= check[s].made + PromptTTL
    /\ check[s].expires <= lastRun + PromptTTL

\* What a run has read, and what it has decided about whom.
RunOK ==
  /\ watch.pending \cap watch.picked = {}
  /\ \A s \in Students :
       /\ rec[s].status \in Statuses
       /\ rec[s].status = "present" => rec[s].arrived
       /\ rec[s].auto => rec[s].picked
       /\ watch.todo[s] \in {"prompt", "pick_up"} => s \in watch.pending
       /\ watch.todo[s] = "put_back" => s \in watch.picked
       /\ watch.todo[s] # "nothing" => watch.step = "act"

Base == TypeOK /\ ClockOK /\ PromptsOK /\ RunOK

\* A pickup is told of once per stay: `told` counts the one of this stay, or not.
Told ==
  \A s \in Students :
    told[s] <= returns[s] + (IF rec[s].status = "present" /\ rec[s].picked THEN 1 ELSE 0)

\* The automatic pickup that a run has read is the one of the record, as long as
\* that is automatic.
SamePickup ==
  /\ Running => \A s \in watch.picked : rec[s].auto => at[s].picked = watch.at[s].picked
  /\ \A s \in Students :
       watch.todo[s] = "put_back" => \A k \in Kinds : sig[s][k].at > watch.at[s].picked

\* t is no later than the newest sign of s that a run counts from.
Counted(s, t) ==
  \/ \E k \in Kinds : t <= sig[s][k].at
  \/ t <= stillAt[s]

HeardOK ==
  \A s \in Students :
    /\ at[s].arrived <= heard[s] /\ heard[s] <= clock
    /\ rec[s].status = "present" => Counted(s, heard[s]) \/ heard[s] <= at[s].arrived
    /\ /\ watch.step \in {"session", "read"} /\ s \in watch.pending /\ "mark" \notin late[s]
       => Counted(s, heard[s]) \/ heard[s] <= watch.at[s].arrived
    /\ Running => watch.at[s].arrived <= heard[s]
    /\ Running /\ rec[s].status = "present" => watch.at[s].arrived <= at[s].arrived
    /\ watch.todo[s] = "pick_up" =>
         /\ late[s] # {} \/ (heard[s] + AbsentFor <= watch.now /\ Since(s) + AbsentFor <= watch.now)
         /\ From + AbsentFor <= watch.now
         /\ unhealthyAt + AbsentFor <= watch.now

----------------------------------------------------------------------------
(* Nobody is forgotten *)

\* The last run under way, or ended, was soon after the newest sign of s.
Soon(s, time) == lastRun < SilentFrom(s) + time

\* A run in the window at this instant leaves s waiting.
Settled(s, more) ==
  /\ Soon(s, AbsentFor + PromptTTL - 1 + more)
  /\ Soon(s, PromptEvery + PromptTTL + more) \/ lastRun < check[s].expires + PromptEvery + more

Here(s) == StillHere(rec[s]) /\ tagged[s] /\ ~failed

\* Every run settles who is here: it marks, asks, or need not yet.
SettledOK ==
  lastRun < To =>
    \A s \in Students : Here(s) =>
      /\ Settled(s, IF watch.step = "idle" THEN 0 ELSE RunEvery)
      /\ watch.step \in {"session", "read"} => Settled(s, 0) \/ s \in watch.pending
      /\ watch.step = "act" =>
           \/ Settled(s, 0)
           \/ watch.todo[s] = "pick_up"
           \/ watch.todo[s] = "prompt" /\ Soon(s, AbsentFor + PromptTTL - 1)

\* Prompts end soon enough.
PromptsEnd ==
  \A s \in Students : rec[s].status = "present" =>
    /\ check[s].expires < SilentFrom(s) + AbsentFor + PromptTTL
    /\ watch.todo[s] = "prompt" => Soon(s, AbsentFor)

\* Picked up by the watch, and seen again by the time of the last run.
Back(s) ==
  /\ rec[s].status = "present" /\ rec[s].arrived /\ rec[s].picked /\ rec[s].auto
  /\ tagged[s] /\ ~failed
  /\ \A k \in Kinds : sig[s][k].at > at[s].picked
  /\ Verified(sig[s]["face"], sig[s]["ble"], lastRun)

\* A student who came back is put back by the next run.
BackOK ==
  lastRun < To =>
    \A s \in Students :
      /\ Back(s) =>
           /\ lastRun <= SilentFrom(s) + (IF watch.step = "idle" THEN 0 ELSE RunEvery)
           /\ watch.step \in {"session", "read"} => lastRun <= SilentFrom(s) \/ s \in watch.picked
           /\ watch.step = "act" => lastRun <= SilentFrom(s) \/ watch.todo[s] = "put_back"
      /\ watch.todo[s] = "put_back" /\ rec[s].status = "present" /\ rec[s].auto /\ ~failed
           => lastRun <= SilentFrom(s) + RunEvery
      /\ watch.step # "idle" /\ s \in watch.pending \cup watch.picked /\ ~tagged[s]
           => lastRun <= taggedAt[s]

----------------------------------------------------------------------------
(* Lemmas about the operators *)

\* A bounded set of numbers has a largest member, which Max chooses.
LEMMA MaxOfBounded ==
  ASSUME NEW S \in SUBSET Nat, S # {}, NEW b \in Nat, \A x \in S : x <= b
  PROVE  Max(S) \in S /\ \A x \in S : x <= Max(S)
<1> DEFINE T == {n \in Nat : \A x \in S : x <= n}
<1>1. T \in SUBSET Nat /\ T # {}
  OBVIOUS
<1>2. PICK m \in T : \A n \in T : <<n, m>> \notin OpToRel(<, Nat)
  BY <1>1, NatLessThanWellFounded, WFMin
<1>3. \A n \in T : ~(n < m)
  BY <1>2 DEF OpToRel
<1>4. m \in S
  <2> SUFFICES ASSUME m \notin S  PROVE FALSE
    OBVIOUS
  <2>1. PICK x \in S : TRUE
    OBVIOUS
  <2>2. m - 1 \in Nat /\ \A y \in S : y <= m - 1
    BY <2>1
  <2>3. m - 1 \in T
    BY <2>2
  <2> QED
    BY <1>3, <2>2, <2>3
<1>5. \E x \in S : \A y \in S : x >= y
  BY <1>4
<1>6. Max(S) \in S /\ \A y \in S : Max(S) >= y
  BY <1>5 DEF Max
<1> QED
  BY <1>6

LEMMA MaxOfTwo ==
  ASSUME NEW a \in Nat, NEW b \in Nat
  PROVE  Max({a, b}) = IF a <= b THEN b ELSE a
<1>1. {a, b} \in SUBSET Nat /\ {a, b} # {} /\ a + b \in Nat /\ \A x \in {a, b} : x <= a + b
  OBVIOUS
<1>2. Max({a, b}) \in {a, b} /\ \A x \in {a, b} : x <= Max({a, b})
  BY <1>1, MaxOfBounded
<1> QED
  BY <1>2

\* m is the largest of the numbers.
Largest(m, S) == m \in Nat /\ m \in S /\ \A x \in S : x <= m

LEMMA MaxOfSix ==
  ASSUME NEW a \in Nat, NEW b \in Nat, NEW c \in Nat, NEW d \in Nat, NEW e \in Nat, NEW f \in Nat
  PROVE  Largest(Max({a, b, c, d, e, f}), {a, b, c, d, e, f})
<1> DEFINE S == {a, b, c, d, e, f}
<1>1. S \in SUBSET Nat /\ S # {} /\ a + b + c + d + e + f \in Nat
      /\ \A x \in S : x <= a + b + c + d + e + f
  OBVIOUS
<1> HIDE DEF S
<1>2. Max(S) \in S /\ \A x \in S : x <= Max(S)
  BY <1>1, MaxOfBounded
<1> QED
  BY <1>1, <1>2 DEF Largest, S

LEMMA MaxOfSeven ==
  ASSUME NEW a \in Nat, NEW b \in Nat, NEW c \in Nat, NEW d \in Nat, NEW e \in Nat, NEW f \in Nat,
         NEW g \in Nat
  PROVE  Largest(Max({a, b, c, d, e, f, g}), {a, b, c, d, e, f, g})
<1> DEFINE S == {a, b, c, d, e, f, g}
<1>1. S \in SUBSET Nat /\ S # {} /\ a + b + c + d + e + f + g \in Nat
      /\ \A x \in S : x <= a + b + c + d + e + f + g
  OBVIOUS
<1> HIDE DEF S
<1>2. Max(S) \in S /\ \A x \in S : x <= Max(S)
  BY <1>1, MaxOfBounded
<1> QED
  BY <1>1, <1>2 DEF Largest, S

\* A merged row is stamped with the reading's instant (mergeSignal).
LEMMA MergeSignalResult ==
  ASSUME NEW prev \in SignalRow, NEW good \in BOOLEAN, NEW now \in Nat,
         NEW row \in MergeSignal(prev, good, now)
  PROVE  row \in SignalRow /\ row.at = now
BY SignalsAssumption DEF MergeSignal, OneMore, SignalRow, Fresh

\* What is verified at an instant was so at every earlier one.
LEMMA VerifiedEarlier ==
  ASSUME NEW face \in SignalRow, NEW ble \in SignalRow, NEW now \in Nat, NEW before \in Nat,
         before <= now, Verified(face, ble, now)
  PROVE  Verified(face, ble, before)
BY SignalsAssumption DEF Verified, IsSignalPresent, Fresh, SignalRow

LEMMA RecordsOfWriters ==
  /\ \A status \in Statuses : HandMarked(status) \in Records
  /\ SystemMarked \in Records
  /\ \A record \in Records, auto \in BOOLEAN : PickedUp(record, auto) \in Records
  /\ \A record \in Records : PutBack(record) \in Records
BY DEF Records, Statuses, HandMarked, SystemMarked, PickedUp, PutBack

\* What a pickup, and its undo, leave of a record.
LEMMA PickupFields ==
  ASSUME NEW record \in Records, NEW auto \in BOOLEAN
  PROVE  /\ PickedUp(record, auto).status = record.status
         /\ PickedUp(record, auto).arrived = record.arrived
         /\ PickedUp(record, auto).picked = TRUE /\ PickedUp(record, auto).auto = auto
         /\ PutBack(record).status = record.status
         /\ PutBack(record).arrived = record.arrived
         /\ PutBack(record).picked = FALSE /\ PutBack(record).auto = FALSE
<1> DEFINE p == [record EXCEPT !.picked = TRUE]
           q == [record EXCEPT !.picked = FALSE]
<1>1. p \in Records /\ q \in Records /\ p.status = record.status /\ q.status = record.status
      /\ p.arrived = record.arrived /\ q.arrived = record.arrived /\ p.picked = TRUE /\ q.picked = FALSE
  BY DEF Records
<1>2. PickedUp(record, auto) = [p EXCEPT !.auto = auto] /\ PutBack(record) = [q EXCEPT !.auto = FALSE]
  BY DEF PickedUp, PutBack, Records
<1> HIDE DEF p, q
<1> QED
  BY <1>1, <1>2 DEF Records

LEMMA WrittenFields ==
  /\ \A status \in Statuses : /\ HandMarked(status).status = status
                              /\ HandMarked(status).arrived = (status = "present")
                              /\ HandMarked(status).picked = FALSE
                              /\ HandMarked(status).auto = FALSE
  /\ SystemMarked.status = "present" /\ SystemMarked.arrived = TRUE
  /\ SystemMarked.picked = FALSE /\ SystemMarked.auto = FALSE
BY DEF HandMarked, SystemMarked

----------------------------------------------------------------------------
(* Types *)

Times == [arrived : Nat, picked : Nat]

Asking == [step : {"idle", "mark", "update"}, now : Nat]

LEMMA FirstValues ==
  /\ NoRun \in Watch /\ NoRequest \in Asking /\ NoPrompt \in Prompt /\ NoSignal \in SignalRow
  /\ NothingToDo \in [Students -> Todo] /\ NoTimes \in [Students -> Times]
BY SignalsAssumption
   DEF NoRun, Watch, NoRequest, Asking, NoPrompt, Prompt, NoSignal, SignalRow, NothingToDo, Todo,
       NoTimes, Times

LEMMA NoRunFields ==
  /\ NoRun.step = "idle" /\ NoRun.now = 0 /\ NoRun.session = "none"
  /\ NoRun.pending = {} /\ NoRun.picked = {} /\ NoRun.at = NoTimes /\ NoRun.todo = NothingToDo
BY DEF NoRun

LEMMA WatchFields ==
  ASSUME TypeOK
  PROVE  /\ watch.step \in {"idle", "records", "session", "read", "act"}
         /\ watch.now \in Nat /\ watch.session \in {"none", "manual", "auto"}
         /\ watch.pending \subseteq Students /\ watch.picked \subseteq Students
         /\ watch.at \in [Students -> Times] /\ watch.todo \in [Students -> Todo]
BY DEF TypeOK, Watch, Times

----------------------------------------------------------------------------
(* What the steps of a run do to it *)

SameRun ==
  /\ watch'.now = watch.now /\ watch'.at = watch.at
  /\ watch'.pending = watch.pending /\ watch'.picked = watch.picked

LEMMA BeginEffect ==
  ASSUME TypeOK, WatchBegin
  PROVE  /\ watch' \in Watch /\ watch.step = "idle" /\ watch'.step = "records"
         /\ watch'.now = clock /\ lastRun' = clock
         /\ watch'.pending = {} /\ watch'.picked = {} /\ watch'.todo = NothingToDo
<1> DEFINE w1 == [NoRun EXCEPT !.step = "records"]
           w2 == [w1 EXCEPT !.now = clock]
<1>1. w1 \in Watch /\ w1.step = "records" /\ w1.pending = {} /\ w1.picked = {}
      /\ w1.todo = NothingToDo
  BY FirstValues, NoRunFields DEF Watch
<1>2. w2 = [w1 EXCEPT !.now = clock]
  OBVIOUS
<1>3. [NoRun EXCEPT !.step = "records", !.now = clock, !.session = session]
        = [w2 EXCEPT !.session = session]
  BY DEF NoRun
<1> HIDE DEF w1
<1>4. w2 \in Watch /\ w2.step = "records" /\ w2.now = clock /\ w2.pending = {} /\ w2.picked = {}
      /\ w2.todo = NothingToDo
  BY <1>1 DEF TypeOK, Watch
<1> HIDE DEF w2
<1>5. watch' = [w2 EXCEPT !.session = session]
  BY <1>3 DEF WatchBegin
<1> QED
  BY <1>4, <1>5 DEF TypeOK, Watch, WatchBegin

Watched(s) == rec[s].status = "present" /\ rec[s].arrived /\ tagged[s]

LEMMA RecordsEffect ==
  ASSUME TypeOK, WatchRecords
  PROVE  /\ watch' \in Watch /\ watch.step = "records"
         /\ \/ watch' = NoRun /\ ~InWindow(watch.now)
            \/ /\ InWindow(watch.now) /\ watch'.step = "session" /\ watch'.now = watch.now
               /\ watch'.todo = watch.todo /\ watch'.at = at
               /\ watch'.pending = {s \in Students : Watched(s) /\ ~rec[s].picked}
               /\ watch'.picked = {s \in Students : Watched(s) /\ rec[s].picked /\ rec[s].auto}
<1> DEFINE watched == {s \in Students : rec[s].status = "present" /\ rec[s].arrived /\ tagged[s]}
           pending == {s \in watched : ~rec[s].picked}
           picked == {s \in watched : rec[s].picked /\ rec[s].auto}
           w1 == [watch EXCEPT !.step = "session"]
           w2 == [w1 EXCEPT !.at = at]
           w3 == [w2 EXCEPT !.pending = pending]
           w4 == [w3 EXCEPT !.picked = picked]
<1>1. pending = {s \in Students : Watched(s) /\ ~rec[s].picked}
      /\ picked = {s \in Students : Watched(s) /\ rec[s].picked /\ rec[s].auto}
  BY DEF Watched
<1>2. watch.step = "records" /\ watch' = IF ~InWindow(watch.now) THEN NoRun ELSE w4
  BY DEF WatchRecords, TypeOK, Watch
<1>3. w1 \in Watch /\ w1.step = "session" /\ w1.now = watch.now /\ w1.todo = watch.todo
  BY DEF TypeOK, Watch
<1>4. pending \subseteq Students /\ picked \subseteq Students /\ at \in [Students -> Times]
  BY DEF TypeOK, Times
<1> HIDE DEF pending, picked, w1
<1>5. w2 \in Watch /\ w2.step = "session" /\ w2.now = watch.now /\ w2.todo = watch.todo /\ w2.at = at
  BY <1>3, <1>4 DEF Watch, Times
<1> HIDE DEF w2
<1>6. w3 \in Watch /\ w3.step = "session" /\ w3.now = watch.now /\ w3.todo = watch.todo /\ w3.at = at
      /\ w3.pending = pending
  BY <1>5, <1>4 DEF Watch
<1> HIDE DEF w3
<1>7. w4 \in Watch /\ w4.step = "session" /\ w4.now = watch.now /\ w4.todo = watch.todo /\ w4.at = at
      /\ w4.pending = pending /\ w4.picked = picked
  BY <1>6, <1>4 DEF Watch
<1> HIDE DEF w4
<1> QED
  BY <1>1, <1>2, <1>7, FirstValues

SessionStep == WatchOpens \/ WatchCloses \/ WatchKeepsSession

LEMMA AfterSessionEffect ==
  ASSUME TypeOK, NEW own \in {"none", "manual", "auto"}, AfterSession(own)
  PROVE  /\ watch' \in Watch
         /\ \/ watch' = NoRun /\ watch.pending \cup watch.picked = {}
            \/ watch'.step = "read" /\ watch'.todo = watch.todo /\ SameRun
<1> DEFINE w1 == [watch EXCEPT !.step = "read"]
<1>1. watch' = IF watch.pending \cup watch.picked = {} THEN NoRun ELSE [w1 EXCEPT !.session = own]
  BY DEF AfterSession, TypeOK, Watch
<1>2. w1 \in Watch /\ w1.step = "read" /\ w1.now = watch.now /\ w1.todo = watch.todo
      /\ w1.at = watch.at /\ w1.pending = watch.pending /\ w1.picked = watch.picked
  BY DEF TypeOK, Watch
<1> HIDE DEF w1
<1> QED
  BY <1>1, <1>2, FirstValues DEF SameRun, Watch

LEMMA SessionEffect ==
  ASSUME TypeOK, SessionStep
  PROVE  /\ watch' \in Watch /\ watch.step = "session"
         /\ \/ watch' = NoRun /\ watch.pending \cup watch.picked = {}
            \/ watch'.step = "read" /\ watch'.todo = watch.todo /\ SameRun
         /\ session' \in {"none", "manual", "auto"} /\ stopped' \in BOOLEAN
         /\ current' \in [Students -> [Kinds -> BOOLEAN]]
         /\ UNCHANGED <<clock, alive, tagged, taggedAt, day, sig, heard, late, prompts, lastRun,
                        unhealthyAt, failed, teacher, used>>
<1>1. watch.session \in {"none", "manual", "auto"} /\ session \in {"none", "manual", "auto"}
  BY DEF TypeOK, Watch
<1>2. CASE WatchOpens
  <2>1. PICK own \in {"none", "manual", "auto"} : AfterSession(own)
    BY <1>1, <1>2 DEF WatchOpens
  <2>2. /\ watch' \in Watch
        /\ \/ watch' = NoRun /\ watch.pending \cup watch.picked = {}
           \/ watch'.step = "read" /\ watch'.todo = watch.todo /\ SameRun
    BY <2>1, AfterSessionEffect
  <2>3. session' \in {"none", "manual", "auto"} /\ current' \in [Students -> [Kinds -> BOOLEAN]]
    <3>1. [s \in Students |-> [k \in Kinds |-> FALSE]] \in [Students -> [Kinds -> BOOLEAN]]
      OBVIOUS
    <3>2. current \in [Students -> [Kinds -> BOOLEAN]] /\ session \in {"none", "manual", "auto"}
      BY DEF TypeOK
    <3> QED
      BY <1>2, <3>1, <3>2 DEF WatchOpens, OpenSession
  <2> QED
    BY <1>2, <2>2, <2>3 DEF WatchOpens, TypeOK
<1>3. CASE WatchCloses
  BY <1>1, <1>3, AfterSessionEffect DEF WatchCloses, TypeOK, sight
<1>4. CASE WatchKeepsSession
  BY <1>1, <1>4, AfterSessionEffect DEF WatchKeepsSession, TypeOK, sight, env
<1> QED
  BY <1>2, <1>3, <1>4 DEF SessionStep

\* What WatchReads decides about s.
Decided(s) ==
  IF s \in watch.pending THEN DecidePickupAction(s)
  ELSE IF s \in watch.picked /\ SeenAgain(s) THEN "put_back"
  ELSE "nothing"

LEMMA ReadsEffect ==
  ASSUME TypeOK, WatchReads
  PROVE  /\ watch' \in Watch /\ watch.step = "read"
         /\ \/ watch' = NoRun /\ unhealthyAt' = watch.now
            \/ /\ watch'.step = "act" /\ SameRun /\ unhealthyAt' = unhealthyAt
               /\ \A s \in Students : watch'.todo[s] = Decided(s)
<1> DEFINE todo == [s \in Students |-> Decided(s)]
           w1 == [watch EXCEPT !.step = "act"]
<1>1. \A s \in Students : Decided(s) \in Todo
  BY DEF Decided, DecidePickupAction, Todo
<1>2. todo \in [Students -> Todo]
  BY <1>1
<1>3. w1 \in Watch /\ w1.step = "act" /\ w1.now = watch.now
      /\ w1.at = watch.at /\ w1.pending = watch.pending /\ w1.picked = watch.picked
  BY DEF TypeOK, Watch
<1>4. /\ watch.step = "read"
      /\ \/ watch' = NoRun /\ unhealthyAt' = watch.now
         \/ watch' = [w1 EXCEPT !.todo = todo] /\ unhealthyAt' = unhealthyAt
  BY DEF WatchReads, Decided, TypeOK, Watch
<1> HIDE DEF w1
<1>5. [w1 EXCEPT !.todo = todo] \in Watch
  BY <1>2, <1>3 DEF Watch
<1>6. [w1 EXCEPT !.todo = todo].todo = todo
  BY <1>3 DEF Watch
<1>7. \A s \in Students : todo[s] = Decided(s)
  OBVIOUS
<1> HIDE DEF todo
<1> QED
  BY <1>3, <1>4, <1>5, <1>6, <1>7, FirstValues DEF SameRun, Watch

LEMMA DidEffect ==
  ASSUME TypeOK, NEW s \in Students, Did(s)
  PROVE  /\ watch' \in Watch /\ watch'.step = watch.step /\ SameRun
         /\ \A t \in Students : watch'.todo[t] = IF t = s THEN "nothing" ELSE watch.todo[t]
<1> DEFINE todo == [watch.todo EXCEPT ![s] = "nothing"]
<1>1. watch' = [watch EXCEPT !.todo = todo]
  BY DEF Did, TypeOK, Watch
<1>2. watch \in Watch /\ watch.todo \in [Students -> Todo]
  BY DEF TypeOK, Watch
<1>3. todo \in [Students -> Todo] /\ \A t \in Students : todo[t] = IF t = s THEN "nothing" ELSE watch.todo[t]
  BY <1>2 DEF Todo
<1> HIDE DEF todo
<1> QED
  BY <1>1, <1>2, <1>3 DEF SameRun, Watch

----------------------------------------------------------------------------
(* What the writers do to the records *)

\* The record of s, and its times, are the only ones to change.
Only(s) ==
  /\ rec' \in [Students -> Records] /\ at' \in [Students -> Times]
  /\ \A t \in Students : t # s => rec'[t] = rec[t] /\ at'[t] = at[t]

SameDay(s) == rec'[s] = rec[s] /\ at'[s] = at[s]

\* s is marked picked up.
Takes(s, now, auto) ==
  /\ rec'[s].status = rec[s].status /\ rec'[s].arrived = rec[s].arrived
  /\ rec'[s].picked = TRUE /\ rec'[s].auto = auto
  /\ at'[s].arrived = at[s].arrived /\ at'[s].picked = now

LEMMA TimesFields ==
  ASSUME NEW t \in Times, NEW now \in Nat
  PROVE  [t EXCEPT !.picked = now] \in Times /\ [t EXCEPT !.picked = now].arrived = t.arrived
         /\ [t EXCEPT !.picked = now].picked = now
BY DEF Times

LEMMA TakesEffect ==
  ASSUME TypeOK, NEW s \in Students, NEW now \in Nat, NEW auto \in BOOLEAN,
         rec' = [rec EXCEPT ![s] = PickedUp(@, auto)], at' = [at EXCEPT ![s].picked = now]
  PROVE  Only(s) /\ Takes(s, now, auto)
<1>1. rec \in [Students -> Records] /\ at \in [Students -> Times]
  BY DEF TypeOK, Times
<1>2. rec'[s] = PickedUp(rec[s], auto) /\ at'[s] = [at[s] EXCEPT !.picked = now]
  BY <1>1
<1>3. rec' \in [Students -> Records] /\ at' \in [Students -> Times]
  <2>1. PickedUp(rec[s], auto) \in Records /\ [at[s] EXCEPT !.picked = now] \in Times
    BY <1>1, RecordsOfWriters, TimesFields
  <2> QED
    BY <1>1, <2>1
<1>4. Only(s)
  BY <1>1, <1>3 DEF Only
<1> QED
  BY <1>1, <1>2, <1>4, PickupFields, TimesFields DEF Takes

\* The guarded write: it wins, or leaves everything as it was.
Wins(s, now, auto) ==
  IF StillHere(rec[s])
  THEN Takes(s, now, auto) /\ told' = [told EXCEPT ![s] = @ + 1]
  ELSE SameDay(s) /\ told' = told

LEMMA MarkEffect ==
  ASSUME TypeOK, NEW s \in Students, NEW now \in Nat, NEW auto \in BOOLEAN,
         MarkPickedUp(s, now, auto)
  PROVE  Only(s) /\ Wins(s, now, auto)
<1>1. CASE StillHere(rec[s])
  BY <1>1, TakesEffect DEF MarkPickedUp, Wins
<1>2. CASE ~StillHere(rec[s])
  BY <1>2 DEF MarkPickedUp, Wins, Only, SameDay, TypeOK, Times
<1> QED
  BY <1>1, <1>2

\* s is put back, or had been picked up by somebody else since.
Returned(s) ==
  IF rec[s].picked /\ rec[s].auto
  THEN /\ rec'[s].status = rec[s].status /\ rec'[s].arrived = rec[s].arrived
       /\ rec'[s].picked = FALSE /\ rec'[s].auto = FALSE
       /\ at'[s].arrived = at[s].arrived
       /\ returns' = [returns EXCEPT ![s] = @ + 1]
  ELSE SameDay(s) /\ returns' = returns

LEMMA PutBackEffect ==
  ASSUME TypeOK, NEW s \in Students, WatchPutsBack(s)
  PROVE  Only(s) /\ Returned(s)
<1>1. rec \in [Students -> Records] /\ at \in [Students -> Times]
  BY DEF TypeOK, Times
<1>2. CASE rec[s].picked /\ rec[s].auto
  <2>1. rec' = [rec EXCEPT ![s] = PutBack(@)] /\ at' = [at EXCEPT ![s].picked = 0]
        /\ returns' = [returns EXCEPT ![s] = @ + 1]
    BY <1>2 DEF WatchPutsBack
  <2>2. rec'[s] = PutBack(rec[s]) /\ at'[s] = [at[s] EXCEPT !.picked = 0]
    BY <1>1, <2>1
  <2>3. PutBack(rec[s]) \in Records /\ [at[s] EXCEPT !.picked = 0] \in Times
    BY <1>1, RecordsOfWriters, TimesFields
  <2>4. rec' \in [Students -> Records] /\ at' \in [Students -> Times]
    BY <1>1, <2>1, <2>3
  <2>5. Only(s)
    BY <1>1, <2>1, <2>4 DEF Only
  <2> QED
    BY <1>1, <1>2, <2>1, <2>2, <2>5, PickupFields, TimesFields DEF Returned
<1>3. CASE ~(rec[s].picked /\ rec[s].auto)
  BY <1>3 DEF WatchPutsBack, Returned, Only, SameDay, TypeOK, Times
<1> QED
  BY <1>2, <1>3

\* A status is written anew at this instant.
Anew(s) ==
  /\ rec'[s].picked = FALSE /\ rec'[s].auto = FALSE /\ rec'[s].status \in Statuses
  /\ rec'[s].status = "present" => rec'[s].arrived /\ at'[s].arrived = clock
  /\ at'[s].arrived \in {0, clock}

LEMMA HandMarksEffect ==
  ASSUME TypeOK, NEW s \in Students, NEW status \in Statuses, HandMarks(s, status)
  PROVE  /\ Only(s) /\ Anew(s) /\ rec'[s].status = status
         /\ returns' = [returns EXCEPT ![s] = @ + 1]
<1>1. rec \in [Students -> Records] /\ at \in [Students -> Times] /\ clock \in Nat
  BY DEF TypeOK, Times
<1> DEFINE times == [arrived |-> IF status = "present" THEN clock ELSE 0, picked |-> 0]
<1>2. rec' = [rec EXCEPT ![s] = HandMarked(status)] /\ at' = [at EXCEPT ![s] = times]
      /\ returns' = [returns EXCEPT ![s] = @ + 1]
  BY DEF HandMarks
<1>3. times \in Times /\ times.arrived = IF status = "present" THEN clock ELSE 0
  BY <1>1 DEF Times
<1> HIDE DEF times
<1>4. rec' \in [Students -> Records] /\ at' \in [Students -> Times]
  BY <1>1, <1>2, <1>3, RecordsOfWriters
<1>5. Only(s)
  BY <1>1, <1>2, <1>4 DEF Only
<1>6. rec'[s] = HandMarked(status) /\ at'[s] = times
  BY <1>1, <1>2
<1> QED
  BY <1>2, <1>3, <1>5, <1>6, WrittenFields DEF Anew

ReadingEffectOn(s, kind) ==
  /\ sig' \in [Students -> [Kinds -> SignalRow]]
  /\ sig'[s][kind].at = clock
  /\ \A t \in Students, k \in Kinds : t # s \/ k # kind => sig'[t][k] = sig[t][k]

LEMMA ReadingEffect ==
  ASSUME TypeOK, NEW s \in Students, NEW kind \in Kinds, NEW good \in BOOLEAN,
         Reading(s, kind, good)
  PROVE  /\ ReadingEffectOn(s, kind)
         /\ Only(s)
         /\ \/ SameDay(s)
            \/ Verifiable(rec[s]) /\ Anew(s) /\ rec'[s] = SystemMarked
<1>1. rec \in [Students -> Records] /\ at \in [Students -> Times] /\ clock \in Nat
      /\ sig \in [Students -> [Kinds -> SignalRow]]
  BY DEF TypeOK, Times
<1>2. PICK row \in MergeSignal(IF current[s][kind] THEN sig[s][kind] ELSE NoSignal, good, clock) :
        /\ sig' = [sig EXCEPT ![s][kind] = row]
        /\ \/ Verifiable(rec[s]) /\ rec' = [rec EXCEPT ![s] = SystemMarked]
              /\ at' = [at EXCEPT ![s] = [arrived |-> clock, picked |-> 0]]
           \/ UNCHANGED <<rec, at>>
  BY DEF Reading
<1>3. (IF current[s][kind] THEN sig[s][kind] ELSE NoSignal) \in SignalRow
  BY <1>1, FirstValues
<1>4. row \in SignalRow /\ row.at = clock
  BY <1>1, <1>2, <1>3, MergeSignalResult
<1>5. ReadingEffectOn(s, kind)
  BY <1>1, <1>2, <1>4 DEF ReadingEffectOn
<1>6. CASE UNCHANGED <<rec, at>>
  BY <1>1, <1>5, <1>6 DEF Only, SameDay
<1>7. CASE /\ Verifiable(rec[s]) /\ rec' = [rec EXCEPT ![s] = SystemMarked]
           /\ at' = [at EXCEPT ![s] = [arrived |-> clock, picked |-> 0]]
  <2> DEFINE times == [arrived |-> clock, picked |-> 0]
  <2>1. times \in Times /\ times.arrived = clock
    BY <1>1 DEF Times
  <2>2. at' = [at EXCEPT ![s] = times]
    BY <1>7
  <2> HIDE DEF times
  <2>3. rec' \in [Students -> Records] /\ at' \in [Students -> Times]
    BY <1>1, <1>7, <2>1, <2>2, RecordsOfWriters
  <2>4. Only(s)
    BY <1>1, <1>7, <2>2, <2>3 DEF Only
  <2>5. rec'[s] = SystemMarked /\ at'[s] = times
    BY <1>1, <1>7, <2>2
  <2> QED
    BY <1>5, <1>7, <2>1, <2>4, <2>5, WrittenFields DEF Anew, Statuses
<1> QED
  BY <1>2, <1>6, <1>7

LEMMA InitTypeOK == Init => TypeOK
<1> SUFFICES ASSUME Init  PROVE TypeOK
  OBVIOUS
<1>1. rec \in [Students -> Records]
  BY RecordsOfWriters DEF Init, Statuses
<1>2. at \in [Students -> Times]
  BY DEF Init, Times
<1>3. sig \in [Students -> [Kinds -> SignalRow]] /\ current \in [Students -> [Kinds -> BOOLEAN]]
  BY FirstValues DEF Init
<1>4. check \in [Students -> Prompt] /\ watch \in Watch /\ teacher \in [Students -> Asking]
  BY FirstValues DEF Init
<1> QED
  BY <1>1, <1>2, <1>3, <1>4 DEF Init, TypeOK, Times, Asking

\* What Hear leaves typed, and how far heard goes.
LEMMA HearEffect ==
  ASSUME TypeOK, NEW s \in Students, NEW t \in Nat, NEW how \in {"mark", "sight"}, Hear(s, t, how)
  PROVE  /\ heard' \in [Students -> Nat] /\ late' \in [Students -> SUBSET {"mark", "sight"}]
         /\ heard'[s] = IF heard[s] <= t THEN t ELSE heard[s]
         /\ late'[s] = late[s] \cup {how}
         /\ \A x \in Students : x # s => heard'[x] = heard[x] /\ late'[x] = late[x]
<1>1. heard \in [Students -> Nat] /\ late \in [Students -> SUBSET {"mark", "sight"}]
  BY DEF TypeOK
<1>2. Max({heard[s], t}) = IF heard[s] <= t THEN t ELSE heard[s]
  BY <1>1, MaxOfTwo
<1>3. Max({heard[s], t}) \in Nat
  BY <1>1, <1>2
<1>4. heard' = [heard EXCEPT ![s] = Max({heard[s], t})] /\ late' = [late EXCEPT ![s] = @ \cup {how}]
  BY DEF Hear
<1> QED
  BY <1>1, <1>2, <1>3, <1>4

LEMMA RunTypeOK ==
  ASSUME TypeOK, NEW s \in Students,
         \/ WatchBegin \/ WatchRecords \/ SessionStep \/ WatchReads \/ WatchEnds \/ WatchFails
         \/ WatchPicksUp(s) \/ WatchPrompts(s) \/ WatchPutsBack(s)
  PROVE  TypeOK'
<1>1. CASE WatchBegin
  BY <1>1, BeginEffect DEF WatchBegin, TypeOK, env, day, sight, prompts
<1>2. CASE WatchRecords
  BY <1>2, RecordsEffect DEF WatchRecords, TypeOK, env, day, prompts
<1>3. CASE SessionStep
  BY <1>3, SessionEffect DEF TypeOK, day, prompts
<1>4. CASE WatchReads
  <2>1. late' \in [Students -> SUBSET {"mark", "sight"}]
    BY <1>4 DEF WatchReads, TypeOK
  <2>2. watch' \in Watch /\ unhealthyAt' \in Nat
    BY <1>4, ReadsEffect, WatchFields DEF TypeOK
  <2> QED
    BY <1>4, <2>1, <2>2 DEF WatchReads, TypeOK, env, day, prompts
<1>5. CASE WatchEnds
  BY <1>5, FirstValues DEF WatchEnds, TypeOK, env, day, sight, prompts
<1>6. CASE WatchFails
  <2>1. watch' \in Watch
    BY <1>6, FirstValues, DidEffect DEF WatchFails
  <2> QED
    BY <1>6, <2>1 DEF WatchFails, Count, Spend, TypeOK, env, day, sight, prompts
<1>7. CASE WatchPicksUp(s)
  <2>1. watch.now \in Nat
    BY WatchFields
  <2>2. Only(s) /\ Wins(s, watch.now, TRUE) /\ watch' \in Watch
    BY <1>7, <2>1, MarkEffect, DidEffect DEF WatchPicksUp
  <2>3. told' \in [Students -> Nat]
    <3>1. told \in [Students -> Nat]
      BY DEF TypeOK
    <3>2. told' = told \/ told' = [told EXCEPT ![s] = told[s] + 1]
      BY <2>2 DEF Wins
    <3> QED
      BY <3>1, <3>2
  <2> QED
    BY <1>7, <2>2, <2>3 DEF WatchPicksUp, Only, TypeOK, Times, env, sight, prompts
<1>8. CASE WatchPrompts(s)
  <2>1. check' \in [Students -> Prompt]
    <3> DEFINE prompt == [made |-> clock, expires |-> watch.now + PromptTTL, answer |-> "open"]
    <3>1. prompt \in Prompt
      BY WatchFields, PickupAssumption DEF Prompt, TypeOK
    <3> QED
      BY <1>8, <3>1 DEF WatchPrompts, TypeOK
  <2>2. watch' \in Watch
    BY <1>8, DidEffect DEF WatchPrompts
  <2> QED
    BY <1>8, <2>1, <2>2 DEF WatchPrompts, TypeOK, env, day, sight
<1>9. CASE WatchPutsBack(s)
  <2>1. Only(s) /\ Returned(s) /\ watch' \in Watch
    BY <1>9, PutBackEffect, DidEffect DEF WatchPutsBack
  <2>2. returns' \in [Students -> Nat]
    <3>1. returns \in [Students -> Nat]
      BY DEF TypeOK
    <3>2. returns' = returns \/ returns' = [returns EXCEPT ![s] = returns[s] + 1]
      BY <2>1 DEF Returned
    <3> QED
      BY <3>1, <3>2
  <2>3. said' \in [Students -> BOOLEAN]
    BY <1>9 DEF WatchPutsBack, TypeOK
  <2> QED
    BY <1>9, <2>1, <2>2, <2>3 DEF WatchPutsBack, Only, TypeOK, Times, env, sight, prompts
<1> QED
  BY <1>1, <1>2, <1>3, <1>4, <1>5, <1>6, <1>7, <1>8, <1>9

TeacherStep(s) ==
  \/ \E answer \in {"still_here", "picked_up"} :
       \E now \in {t \in 1..clock : t + Delay >= clock} : Answer(s, answer, now)
  \/ AnswerMarks(s) \/ Pickup(s) \/ PickupWrite(s)
  \/ \E status \in Statuses : HandMarks(s, status)

LEMMA AnswerEffect ==
  ASSUME TypeOK, NEW s \in Students, NEW answer \in {"still_here", "picked_up"},
         NEW now \in 1..clock, Answer(s, answer, now)
  PROVE  /\ check' \in [Students -> Prompt]
         /\ \A t \in Students : check'[t].made = check[t].made /\ check'[t].expires = check[t].expires
         /\ check'[s].answer = answer /\ check[s].answer = "open"
         /\ check[s].made <= now
         /\ \A t \in Students : t # s => check'[t] = check[t] /\ stillAt'[t] = stillAt[t]
         /\ stillAt' \in [Students -> Nat] /\ stillAt'[s] \in {stillAt[s], now}
<1> DEFINE prompt == [check[s] EXCEPT !.answer = answer]
<1>1. check \in [Students -> Prompt] /\ stillAt \in [Students -> Nat] /\ clock \in Nat
  BY DEF TypeOK
<1>2. check' = [check EXCEPT ![s] = prompt] /\ check[s].answer = "open" /\ check[s].made <= now
  BY <1>1 DEF Answer
<1>3. prompt \in Prompt /\ prompt.made = check[s].made /\ prompt.expires = check[s].expires
      /\ prompt.answer = answer
  BY <1>1 DEF Prompt
<1> HIDE DEF prompt
<1>4. /\ stillAt' \in [Students -> Nat] /\ stillAt'[s] \in {stillAt[s], now}
      /\ \A t \in Students : t # s => stillAt'[t] = stillAt[t]
  BY <1>1 DEF Answer
<1> QED
  BY <1>1, <1>2, <1>3, <1>4

LEMMA TeacherTypeOK ==
  ASSUME TypeOK, NEW s \in Students, TeacherStep(s)
  PROVE  TypeOK'
<1>1. ASSUME NEW answer \in {"still_here", "picked_up"}, NEW now \in 1..clock, Answer(s, answer, now)
      PROVE  TypeOK'
  <2>1. check' \in [Students -> Prompt] /\ stillAt' \in [Students -> Nat]
    BY <1>1, AnswerEffect
  <2>2. now \in Nat
    BY <1>1 DEF TypeOK
  <2>3. heard' \in [Students -> Nat] /\ late' \in [Students -> SUBSET {"mark", "sight"}]
    BY <1>1, <2>2, HearEffect DEF Answer, TypeOK
  <2>4. teacher' \in [Students -> Asking]
    <3>1. [step |-> "mark", now |-> now] \in Asking
      BY <2>2 DEF Asking
    <3>2. teacher \in [Students -> Asking]
      BY DEF TypeOK, Asking
    <3> QED
      BY <1>1, <3>1, <3>2 DEF Answer
  <2> QED
    BY <1>1, <2>1, <2>3, <2>4 DEF Answer, Count, Spend, TypeOK, Asking, env, day, run
<1>2. CASE AnswerMarks(s)
  <2>1. teacher[s].now \in Nat
    BY DEF TypeOK
  <2>2. Only(s) /\ Wins(s, teacher[s].now, FALSE)
    BY <1>2, <2>1, MarkEffect DEF AnswerMarks
  <2>3. told' \in [Students -> Nat]
    <3>1. told \in [Students -> Nat]
      BY DEF TypeOK
    <3>2. told' = told \/ told' = [told EXCEPT ![s] = told[s] + 1]
      BY <2>2 DEF Wins
    <3> QED
      BY <3>1, <3>2
  <2>4. rec'[s].picked \in BOOLEAN
    BY <2>2 DEF Only, Records
  <2>5. said' \in [Students -> BOOLEAN]
    BY <1>2, <2>4 DEF AnswerMarks, TypeOK
  <2>6. teacher' \in [Students -> Asking]
    BY <1>2, FirstValues DEF AnswerMarks, TypeOK, Asking
  <2> QED
    BY <1>2, <2>2, <2>3, <2>5, <2>6 DEF AnswerMarks, Only, TypeOK, Times, Asking, env, sight, prompts, run
<1>3. CASE Pickup(s)
  <2>1. teacher' \in [Students -> Asking]
    BY <1>3 DEF Pickup, TypeOK, Asking
  <2> QED
    BY <1>3, <2>1 DEF Pickup, Count, Spend, TypeOK, Asking, env, day, sight, prompts, run
<1>4. CASE PickupWrite(s)
  <2>1. teacher[s].now \in Nat
    BY DEF TypeOK
  <2>2. Only(s)
    BY <1>4, <2>1, TakesEffect DEF PickupWrite
  <2>3. teacher' \in [Students -> Asking]
    BY <1>4, FirstValues DEF PickupWrite, TypeOK, Asking
  <2> QED
    BY <1>4, <2>2, <2>3 DEF PickupWrite, Only, TypeOK, Times, Asking, env, sight, prompts, run
<1>5. ASSUME NEW status \in Statuses, HandMarks(s, status)
      PROVE  TypeOK'
  <2>1. Only(s) /\ returns' = [returns EXCEPT ![s] = @ + 1]
    BY <1>5, HandMarksEffect
  <2>2. heard' \in [Students -> Nat] /\ late' \in [Students -> SUBSET {"mark", "sight"}]
    BY <1>5, HearEffect DEF HandMarks, TypeOK
  <2> QED
    BY <1>5, <2>1, <2>2 DEF HandMarks, Count, Spend, Only, TypeOK, Times, env, prompts, run
<1> QED
  BY <1>1, <1>2, <1>3, <1>4, <1>5 DEF TeacherStep

WorldStep ==
  TeacherStarts \/ TeacherStops \/ HardwareChanges \/ Restart \/ Tick \/ \E s \in Students : TagChanges(s)

LEMMA WorldTypeOK ==
  ASSUME TypeOK, WorldStep
  PROVE  TypeOK'
<1>1. CASE TeacherStarts
  <2>1. [s \in Students |-> [k \in Kinds |-> FALSE]] \in [Students -> [Kinds -> BOOLEAN]]
    OBVIOUS
  <2> QED
    BY <1>1, <2>1 DEF TeacherStarts, OpenSession, Count, Spend, TypeOK, day, prompts, run
<1>2. CASE TeacherStops
  BY <1>2 DEF TeacherStops, Count, Spend, TypeOK, day, sight, prompts
<1>3. CASE HardwareChanges
  BY <1>3 DEF HardwareChanges, Count, Spend, TypeOK, day, sight, prompts, run
<1>4. CASE Restart
  <2>1. teacher' \in [Students -> Asking]
    BY <1>4, FirstValues DEF Restart
  <2>2. watch' \in Watch /\ unhealthyAt' \in Nat /\ alive' \in BOOLEAN /\ used' \in Nat
    <3>1. watch' \in Watch
      BY <1>4, FirstValues DEF Restart
    <3>2. unhealthyAt' \in Nat
      BY <1>4 DEF Restart, TypeOK
    <3>3. alive' \in BOOLEAN
      BY <1>4 DEF Restart
    <3>4. used' \in Nat
      BY <1>4 DEF Restart, Count, Spend, TypeOK
    <3> QED
      BY <3>1, <3>2, <3>3, <3>4
  <2> QED
    BY <1>4, <2>1, <2>2 DEF Restart, TypeOK, Asking, day, sight, prompts
<1>5. CASE Tick
  BY <1>5 DEF Tick, TypeOK, env, day, sight, prompts, run
<1>6. ASSUME NEW s \in Students, TagChanges(s)
      PROVE  TypeOK'
  BY <1>6 DEF TagChanges, Count, Spend, TypeOK, day, sight, prompts, run
<1> QED
  BY <1>1, <1>2, <1>3, <1>4, <1>5, <1>6 DEF WorldStep

ReadingStep(s) == \E kind \in Kinds, good \in BOOLEAN : Reading(s, kind, good)

LEMMA ReadingTypeOK ==
  ASSUME TypeOK, NEW s \in Students, ReadingStep(s)
  PROVE  TypeOK'
<1>1. PICK kind \in Kinds, good \in BOOLEAN : Reading(s, kind, good)
  BY DEF ReadingStep
<1>2. sig' \in [Students -> [Kinds -> SignalRow]] /\ Only(s)
  BY <1>1, ReadingEffect DEF ReadingEffectOn
<1>3. heard' \in [Students -> Nat] /\ late' \in [Students -> SUBSET {"mark", "sight"}]
  BY <1>1, HearEffect DEF Reading, TypeOK
<1>4. current' \in [Students -> [Kinds -> BOOLEAN]]
  BY <1>1 DEF Reading, TypeOK
<1> QED
  BY <1>1, <1>2, <1>3, <1>4 DEF Reading, Spend, Only, TypeOK, Times, env, prompts, run

RunStep(s) ==
  \/ WatchBegin \/ WatchRecords \/ SessionStep \/ WatchReads \/ WatchEnds \/ WatchFails
  \/ WatchPicksUp(s) \/ WatchPrompts(s) \/ WatchPutsBack(s)

\* The steps, by who takes them.
LEMMA NextKinds ==
  ASSUME [Next]_vars
  PROVE  \/ UNCHANGED vars
         \/ WorldStep
         \/ \E s \in Students : RunStep(s) \/ TeacherStep(s) \/ ReadingStep(s)
BY StudentsAssumption
   DEF Next, RunStep, TeacherStep, ReadingStep, WorldStep, SessionStep

LEMMA TypeStep == TypeOK /\ [Next]_vars => TypeOK'
<1> SUFFICES ASSUME TypeOK, [Next]_vars  PROVE TypeOK'
  OBVIOUS
<1>1. CASE UNCHANGED vars
  BY <1>1 DEF vars, env, day, sight, prompts, run, TypeOK
<1> QED
  BY <1>1, NextKinds, RunTypeOK, TeacherTypeOK, WorldTypeOK, ReadingTypeOK DEF RunStep

----------------------------------------------------------------------------
(* Clocks, prompts and runs *)

LEMMA RunClockOK ==
  ASSUME Base, TypeOK', NEW x \in Students, RunStep(x)
  PROVE  ClockOK'
<1> USE DEF Base
<1>1. CASE WatchBegin
  <2>1. clock \in Nat /\ RunEvery \in Nat /\ unhealthyAt <= clock
    BY PickupAssumption DEF TypeOK, ClockOK
  <2>2. UNCHANGED <<clock, at, stillAt, taggedAt, sig, unhealthyAt>>
    BY <1>1 DEF WatchBegin, env, day, sight, prompts
  <2>3. lastRun' = clock /\ watch'.now = clock /\ watch'.step = "records"
    BY <1>1, BeginEffect
  <2>4. \A s \in Students :
          /\ at[s].arrived <= clock /\ stillAt[s] <= clock /\ taggedAt[s] <= clock
          /\ \A k \in Kinds : sig[s][k].at <= clock
    BY DEF ClockOK
  <2>5. clock <= clock + RunEvery /\ clock <= clock
    BY <2>1
  <2> QED
    BY <2>1, <2>2, <2>3, <2>4, <2>5 DEF ClockOK, Running
<1>2. CASE WatchRecords
  BY <1>2, RecordsEffect, NoRunFields DEF WatchRecords, ClockOK, Running, env, day, prompts
<1>3. CASE SessionStep
  BY <1>3, SessionEffect, NoRunFields DEF SameRun, ClockOK, Running, day, prompts
<1>4. CASE WatchReads
  BY <1>4, ReadsEffect, NoRunFields DEF WatchReads, SameRun, ClockOK, Running, env, day, prompts
<1>5. CASE WatchEnds
  BY <1>5, NoRunFields DEF WatchEnds, ClockOK, Running, env, day, sight, prompts
<1>6. CASE WatchFails
  <2>1. watch' = NoRun \/ (watch'.step = watch.step /\ SameRun)
    BY <1>6, DidEffect DEF WatchFails
  <2> QED
    BY <1>6, <2>1, NoRunFields DEF WatchFails, SameRun, ClockOK, Running, env, day, sight, prompts
<1>7. CASE WatchPicksUp(x)
  <2>1. Only(x) /\ (SameDay(x) \/ Takes(x, watch.now, TRUE))
    BY <1>7, MarkEffect, WatchFields DEF WatchPicksUp, Wins
  <2>2. \A s \in Students : at'[s].arrived = at[s].arrived
    BY <2>1 DEF Only, SameDay, Takes
  <2>3. watch'.step = watch.step /\ SameRun
    BY <1>7, DidEffect DEF WatchPicksUp
  <2> QED
    BY <1>7, <2>2, <2>3 DEF WatchPicksUp, SameRun, ClockOK, Running, env, sight, prompts
<1>8. CASE WatchPrompts(x)
  <2>1. watch'.step = watch.step /\ SameRun
    BY <1>8, DidEffect DEF WatchPrompts
  <2> QED
    BY <1>8, <2>1 DEF WatchPrompts, SameRun, ClockOK, Running, env, day, sight
<1>9. CASE WatchPutsBack(x)
  <2>1. \A s \in Students : at'[s].arrived = at[s].arrived
    BY <1>9, PutBackEffect DEF Only, Returned, SameDay
  <2>2. watch'.step = watch.step /\ SameRun
    BY <1>9, DidEffect DEF WatchPutsBack
  <2> QED
    BY <1>9, <2>1, <2>2 DEF WatchPutsBack, SameRun, ClockOK, Running, env, sight, prompts
<1> QED
  BY <1>1, <1>2, <1>3, <1>4, <1>5, <1>6, <1>7, <1>8, <1>9 DEF RunStep

\* What the teachers and the readings leave alone.
LEMMA OthersKeep ==
  ASSUME NEW x \in Students, TeacherStep(x) \/ ReadingStep(x)
  PROVE  UNCHANGED <<clock, session, alive, tagged, taggedAt, watch, lastRun, unhealthyAt, failed>>
BY DEF TeacherStep, ReadingStep, Answer, AnswerMarks, Pickup, PickupWrite, HandMarks, Reading, env, run

\* What the teachers do to the times and the records.
LEMMA TeacherDay ==
  ASSUME TypeOK, NEW x \in Students, TeacherStep(x)
  PROVE  /\ Only(x) /\ UNCHANGED <<sig, current>>
         /\ \/ SameDay(x) /\ UNCHANGED <<told, returns>>
            \/ /\ StillHere(rec[x]) /\ told' = [told EXCEPT ![x] = @ + 1] /\ returns' = returns
               /\ \E now \in Nat : Takes(x, now, FALSE)
            \/ UNCHANGED <<told, returns>> /\ \E now \in Nat : Takes(x, now, FALSE)
            \/ /\ told' = told /\ returns' = [returns EXCEPT ![x] = @ + 1]
               /\ \E status \in Statuses : HandMarks(x, status)
               /\ Anew(x)
<1>1. rec \in [Students -> Records] /\ at \in [Students -> Times] /\ teacher[x].now \in Nat
  BY DEF TypeOK, Times
<1>2. ASSUME UNCHANGED <<rec, at>>  PROVE Only(x) /\ SameDay(x)
  BY <1>1, <1>2 DEF Only, SameDay
<1>3. ASSUME NEW answer \in {"still_here", "picked_up"}, NEW now \in 1..clock, Answer(x, answer, now)
      PROVE  Only(x) /\ SameDay(x) /\ UNCHANGED <<told, returns, sig, current>>
  BY <1>2, <1>3 DEF Answer, day
<1>4. CASE AnswerMarks(x)
  BY <1>1, <1>4, MarkEffect DEF AnswerMarks, Wins, sight
<1>5. CASE Pickup(x)
  BY <1>2, <1>5 DEF Pickup, day, sight
<1>6. CASE PickupWrite(x)
  BY <1>1, <1>6, TakesEffect DEF PickupWrite, sight
<1>7. ASSUME NEW status \in Statuses, HandMarks(x, status)
      PROVE  /\ Only(x) /\ UNCHANGED <<sig, current, told>>
             /\ returns' = [returns EXCEPT ![x] = @ + 1] /\ Anew(x)
  BY <1>7, HandMarksEffect DEF HandMarks
<1> QED
  BY <1>3, <1>4, <1>5, <1>6, <1>7 DEF TeacherStep

LEMMA OthersClockOK ==
  ASSUME Base, TypeOK', NEW x \in Students, TeacherStep(x) \/ ReadingStep(x)
  PROVE  ClockOK'
<1> USE DEF Base
<1>1. UNCHANGED <<clock, taggedAt, watch, lastRun, unhealthyAt>>
  BY OthersKeep
<1>2. \A s \in Students : at'[s].arrived <= clock
  <2>0. clock \in Nat /\ \A s \in Students : at[s].arrived <= clock
    BY DEF TypeOK, ClockOK
  <2>1. \A s \in Students : at'[s].arrived \in {at[s].arrived, 0, clock}
    <3>1. CASE TeacherStep(x)
      BY <3>1, TeacherDay DEF Only, SameDay, Takes, Anew
    <3>2. CASE ReadingStep(x)
      BY <3>2, ReadingEffect DEF ReadingStep, Only, SameDay, Anew
    <3> QED
      BY <3>1, <3>2
  <2> QED
    BY <2>0, <2>1
<1>3. \A s \in Students : stillAt'[s] <= clock
  <2>1. CASE \E answer \in {"still_here", "picked_up"}, now \in 1..clock : Answer(x, answer, now)
    <3>1. PICK answer \in {"still_here", "picked_up"}, now \in 1..clock : Answer(x, answer, now)
      BY <2>1
    <3>2. now <= clock /\ \A s \in Students : stillAt'[s] \in {stillAt[s], now}
      BY <3>1, AnswerEffect DEF TypeOK
    <3> QED
      BY <3>2 DEF ClockOK
  <2>2. CASE UNCHANGED stillAt
    BY <2>2 DEF ClockOK
  <2>3. UNCHANGED stillAt \/ \E answer \in {"still_here", "picked_up"}, now \in 1..clock : Answer(x, answer, now)
    BY DEF TeacherStep, ReadingStep, AnswerMarks, Pickup, PickupWrite, HandMarks, Reading, prompts
  <2> QED
    BY <2>1, <2>2, <2>3
<1>4. \A s \in Students, k \in Kinds : sig'[s][k].at <= clock
  <2>1. CASE TeacherStep(x)
    BY <2>1, TeacherDay DEF ClockOK
  <2>2. CASE ReadingStep(x)
    <3>1. PICK kind \in Kinds, good \in BOOLEAN : Reading(x, kind, good)
      BY <2>2 DEF ReadingStep
    <3>2. ReadingEffectOn(x, kind)
      BY <3>1, ReadingEffect
    <3>3. clock \in Nat /\ \A s \in Students, k \in Kinds : sig[s][k].at <= clock
      BY DEF TypeOK, ClockOK
    <3> QED
      BY <3>2, <3>3 DEF ReadingEffectOn
  <2> QED
    BY <2>1, <2>2
<1> QED
  BY <1>1, <1>2, <1>3, <1>4 DEF ClockOK, Running

LEMMA WorldClockOK ==
  ASSUME Base, TypeOK', WorldStep
  PROVE  ClockOK'
<1> USE DEF Base
<1>1. CASE TeacherStarts
  BY <1>1 DEF TeacherStarts, OpenSession, ClockOK, Running, day, prompts, run
<1>2. CASE TeacherStops
  BY <1>2 DEF TeacherStops, ClockOK, Running, day, sight, prompts
<1>3. CASE HardwareChanges
  BY <1>3 DEF HardwareChanges, ClockOK, Running, day, sight, prompts, run
<1>4. CASE Restart
  BY <1>4, NoRunFields DEF Restart, ClockOK, Running, TypeOK, day, sight, prompts
<1>5. CASE Tick
  <2>1. clock \in Nat /\ lastRun \in Nat /\ RunEvery \in Nat /\ clock' = clock + 1 /\ clock < lastRun + RunEvery
    BY <1>5, PickupAssumption DEF Tick, TypeOK
  <2>2. \A s \in Students : /\ at[s].arrived \in Nat /\ stillAt[s] \in Nat /\ taggedAt[s] \in Nat
                            /\ \A k \in Kinds : sig[s][k].at \in Nat
    BY DEF TypeOK, Times, SignalRow
  <2>3. unhealthyAt \in Nat
    BY DEF TypeOK
  <2>4. UNCHANGED <<env, day, sight, prompts, run>>
    BY <1>5 DEF Tick
  <2> QED
    BY <2>1, <2>2, <2>3, <2>4 DEF ClockOK, Running, env, day, sight, prompts, run
<1>6. ASSUME NEW s \in Students, TagChanges(s)
      PROVE  ClockOK'
  <2>1. \A t \in Students : taggedAt'[t] \in {taggedAt[t], clock}
    BY <1>6 DEF TagChanges, TypeOK
  <2> QED
    BY <1>6, <2>1 DEF TagChanges, ClockOK, Running, TypeOK, day, sight, prompts, run
<1> QED
  BY <1>1, <1>2, <1>3, <1>4, <1>5, <1>6 DEF WorldStep

LEMMA ClockStep == Base /\ [Next]_vars => ClockOK'
<1> SUFFICES ASSUME Base, [Next]_vars  PROVE ClockOK'
  OBVIOUS
<1>1. TypeOK'
  BY TypeStep DEF Base
<1>2. CASE UNCHANGED vars
  BY <1>2 DEF vars, env, day, sight, prompts, run, Base, ClockOK, Running
<1> QED
  BY <1>1, <1>2, NextKinds, RunClockOK, OthersClockOK, WorldClockOK

\* The prompts change by a new one, or by an answer.
LEMMA PromptKinds ==
  ASSUME Base, TypeOK', [Next]_vars
  PROVE  /\ clock <= clock' /\ lastRun <= lastRun'
         /\ \/ UNCHANGED <<check, stillAt>>
            \/ \E x \in Students : WatchPrompts(x)
            \/ \E x \in Students, answer \in {"still_here", "picked_up"}, now \in 1..clock :
                 Answer(x, answer, now)
<1> USE DEF Base
<1>1. clock \in Nat /\ lastRun \in Nat /\ lastRun <= clock
  BY DEF TypeOK, ClockOK
<1>2. CASE UNCHANGED vars
  BY <1>1, <1>2 DEF vars, run, prompts
<1>3. CASE WorldStep
  <2>1. UNCHANGED <<check, stillAt, lastRun>>
    BY <1>3 DEF WorldStep, TeacherStarts, TeacherStops, HardwareChanges, Restart, Tick, TagChanges,
                prompts, run
  <2>2. clock' = clock \/ clock' = clock + 1
    BY <1>3 DEF WorldStep, TeacherStarts, TeacherStops, HardwareChanges, Restart, Tick, TagChanges
  <2> QED
    BY <1>1, <2>1, <2>2
<1>4. ASSUME NEW x \in Students, RunStep(x)
      PROVE  /\ clock' = clock /\ lastRun <= lastRun'
             /\ UNCHANGED <<check, stillAt>> \/ WatchPrompts(x)
  <2>1. clock' = clock /\ (lastRun' = lastRun \/ lastRun' = clock)
    BY <1>4 DEF RunStep, WatchBegin, WatchRecords, SessionStep, WatchOpens, WatchCloses,
                WatchKeepsSession, WatchReads, WatchEnds, WatchFails, WatchPicksUp, WatchPrompts,
                WatchPutsBack
  <2>2. UNCHANGED <<check, stillAt>> \/ WatchPrompts(x)
    BY <1>4 DEF RunStep, WatchBegin, WatchRecords, SessionStep, WatchOpens, WatchCloses,
                WatchKeepsSession, WatchReads, WatchEnds, WatchFails, WatchPicksUp,
                WatchPutsBack, prompts
  <2> QED
    BY <1>1, <2>1, <2>2
<1>5. ASSUME NEW x \in Students, TeacherStep(x)
      PROVE  \/ UNCHANGED <<check, stillAt>>
             \/ \E answer \in {"still_here", "picked_up"}, now \in 1..clock : Answer(x, answer, now)
  BY <1>5 DEF TeacherStep, AnswerMarks, Pickup, PickupWrite, HandMarks, prompts
<1>6. ASSUME NEW x \in Students, ReadingStep(x)  PROVE UNCHANGED <<check, stillAt>>
  BY <1>6 DEF ReadingStep, Reading, prompts
<1>7. ASSUME NEW x \in Students, TeacherStep(x) \/ ReadingStep(x)
      PROVE  clock <= clock' /\ lastRun <= lastRun'
  BY <1>1, <1>7, OthersKeep
<1> QED
  BY <1>1, <1>2, <1>3, <1>4, <1>5, <1>6, <1>7, NextKinds

LEMMA PromptsStep == Base /\ [Next]_vars => PromptsOK'
<1> SUFFICES ASSUME Base, [Next]_vars  PROVE PromptsOK'
  OBVIOUS
<1> USE DEF Base
<1>1. TypeOK'
  BY TypeStep
<1>2. clock <= clock' /\ lastRun <= lastRun'
  BY <1>1, PromptKinds
<1>3. /\ clock \in Nat /\ lastRun \in Nat /\ clock' \in Nat /\ lastRun' \in Nat /\ PromptTTL \in Nat
      /\ check \in [Students -> Prompt] /\ stillAt \in [Students -> Nat]
  BY <1>1, PickupAssumption DEF TypeOK
<1>4. \A s \in Students : check[s].made \in Nat /\ check[s].expires \in Nat /\ stillAt[s] \in Nat
  BY <1>3 DEF Prompt
<1>5. CASE UNCHANGED <<check, stillAt>>
  BY <1>2, <1>3, <1>4, <1>5 DEF PromptsOK
<1>6. ASSUME NEW x \in Students, WatchPrompts(x)  PROVE PromptsOK'
  <2> DEFINE prompt == [made |-> clock, expires |-> watch.now + PromptTTL, answer |-> "open"]
  <2>1. /\ check' = [check EXCEPT ![x] = prompt]
        /\ UNCHANGED <<clock, lastRun, stillAt>> /\ watch.now = lastRun
    BY <1>6 DEF WatchPrompts, ClockOK
  <2>2. prompt.made = clock /\ prompt.expires = lastRun + PromptTTL /\ prompt.answer = "open"
    BY <2>1
  <2> HIDE DEF prompt
  <2>3. check'[x] = prompt /\ \A s \in Students : s # x => check'[s] = check[s]
    BY <1>3, <2>1
  <2>4. lastRun <= clock /\ \A s \in Students : stillAt[s] <= clock
    BY DEF ClockOK
  <2>5. ASSUME NEW s \in Students
        PROVE  /\ check'[s].answer = "none" => check'[s].expires = 0
               /\ check'[s].answer = "open" => stillAt[s] <= check'[s].made
               /\ check'[s].made <= clock
               /\ check'[s].expires <= check'[s].made + PromptTTL
               /\ check'[s].expires <= lastRun + PromptTTL
    <3>1. CASE s = x
      BY <1>3, <2>2, <2>3, <2>4, <3>1
    <3>2. CASE s # x
      BY <1>3, <2>3, <3>2 DEF PromptsOK
    <3> QED
      BY <3>1, <3>2
  <2> QED
    BY <2>1, <2>5 DEF PromptsOK
<1>7. ASSUME NEW x \in Students, NEW answer \in {"still_here", "picked_up"}, NEW now \in 1..clock,
             Answer(x, answer, now)
      PROVE  PromptsOK'
  <2>1. UNCHANGED <<clock, lastRun>>
    BY <1>7 DEF Answer, run
  <2>2. /\ \A t \in Students : check'[t].made = check[t].made /\ check'[t].expires = check[t].expires
        /\ check'[x].answer = answer /\ check[x].answer = "open"
        /\ \A t \in Students : t # x => check'[t] = check[t] /\ stillAt'[t] = stillAt[t]
    BY <1>7, AnswerEffect
  <2> QED
    BY <1>3, <1>4, <2>1, <2>2 DEF PromptsOK
<1> QED
  BY <1>1, <1>5, <1>6, <1>7, PromptKinds

\* A student's turn in the run is over.
TurnOver(x) ==
  /\ watch'.step = watch.step /\ SameRun
  /\ \A t \in Students : watch'.todo[t] = IF t = x THEN "nothing" ELSE watch.todo[t]

\* How a run may change.
LEMMA WatchKinds ==
  ASSUME TypeOK, [Next]_vars
  PROVE  \/ watch' = watch
         \/ watch' = NoRun
         \/ WatchBegin
         \/ WatchRecords
         \/ SessionStep
         \/ WatchReads
         \/ watch.step = "act" /\ \E x \in Students : TurnOver(x)
<1>1. CASE UNCHANGED vars
  BY <1>1 DEF vars, run
<1>2. CASE WorldStep
  BY <1>2 DEF WorldStep, TeacherStarts, TeacherStops, HardwareChanges, Restart, Tick, TagChanges, run
<1>3. ASSUME NEW x \in Students, WatchPicksUp(x) \/ WatchPrompts(x) \/ WatchPutsBack(x)
      PROVE  watch.step = "act" /\ TurnOver(x)
  BY <1>3, DidEffect DEF WatchPicksUp, WatchPrompts, WatchPutsBack, TurnOver
<1>4. CASE WatchFails
  BY <1>4, DidEffect DEF WatchFails, TurnOver
<1>5. CASE WatchEnds
  BY <1>5 DEF WatchEnds
<1>6. ASSUME NEW x \in Students, TeacherStep(x) \/ ReadingStep(x)  PROVE watch' = watch
  BY <1>6, OthersKeep
<1> QED
  BY <1>1, <1>2, <1>3, <1>4, <1>5, <1>6, NextKinds DEF RunStep

LEMMA RunStepOK ==
  ASSUME Base, [Next]_vars, NEW s \in Students
  PROVE  /\ (watch.pending \cap watch.picked = {})'
         /\ watch'.todo[s] \in {"prompt", "pick_up"} => s \in watch'.pending
         /\ watch'.todo[s] = "put_back" => s \in watch'.picked
         /\ watch'.todo[s] # "nothing" => watch'.step = "act"
<1> USE DEF Base
<1>1. NoRun.todo[s] = "nothing"
  BY NoRunFields DEF NothingToDo
<1>2. CASE watch' = watch
  BY <1>2 DEF RunOK
<1>3. CASE watch' = NoRun
  BY <1>1, <1>3, NoRunFields
<1>4. CASE WatchBegin
  BY <1>1, <1>4, BeginEffect, NoRunFields
<1>5. CASE WatchRecords
  BY <1>1, <1>3, <1>5, RecordsEffect DEF RunOK
<1>6. CASE SessionStep
  BY <1>1, <1>3, <1>6, SessionEffect DEF RunOK, SameRun
<1>7. CASE WatchReads
  <2>1. /\ Decided(s) \in {"prompt", "pick_up"} => s \in watch.pending
        /\ Decided(s) = "put_back" => s \in watch.picked
    BY DEF Decided, DecidePickupAction
  <2> QED
    BY <1>3, <1>7, <2>1, ReadsEffect DEF RunOK, SameRun
<1>8. ASSUME NEW x \in Students, watch.step = "act", TurnOver(x)
      PROVE  /\ (watch.pending \cap watch.picked = {})'
             /\ watch'.todo[s] \in {"prompt", "pick_up"} => s \in watch'.pending
             /\ watch'.todo[s] = "put_back" => s \in watch'.picked
             /\ watch'.todo[s] # "nothing" => watch'.step = "act"
  BY <1>8 DEF TurnOver, RunOK, SameRun
<1> QED
  BY <1>2, <1>3, <1>4, <1>5, <1>6, <1>7, <1>8, WatchKinds

\* Whose record may change in a step, and how.
LEMMA DayKinds ==
  ASSUME Base, [Next]_vars
  PROVE  \/ UNCHANGED <<rec, at, told, returns>>
         \/ \E x \in Students :
              /\ Only(x)
              /\ \/ WatchPicksUp(x) /\ Wins(x, lastRun, TRUE)
                 \/ WatchPutsBack(x) /\ Returned(x) /\ told' = told
                 \/ TeacherStep(x)
                 \/ /\ ReadingStep(x) /\ UNCHANGED <<told, returns>>
                    /\ SameDay(x) \/ (Verifiable(rec[x]) /\ Anew(x) /\ rec'[x] = SystemMarked)
<1> USE DEF Base
<1>1. CASE UNCHANGED vars
  BY <1>1 DEF vars, day
<1>2. CASE WorldStep
  BY <1>2 DEF WorldStep, TeacherStarts, TeacherStops, HardwareChanges, Restart, Tick, TagChanges, day
<1>3. ASSUME NEW x \in Students, RunStep(x)
      PROVE  \/ UNCHANGED <<rec, at, told, returns>>
             \/ Only(x) /\ WatchPicksUp(x) /\ Wins(x, lastRun, TRUE)
             \/ Only(x) /\ WatchPutsBack(x) /\ Returned(x) /\ told' = told
  <2>1. CASE WatchPicksUp(x)
    <3>1. watch.now = lastRun /\ watch.now \in Nat
      BY <2>1, WatchFields DEF WatchPicksUp, ClockOK
    <3>2. MarkPickedUp(x, watch.now, TRUE)
      BY <2>1 DEF WatchPicksUp
    <3> QED
      BY <2>1, <3>1, <3>2, MarkEffect
  <2>2. CASE WatchPutsBack(x)
    BY <2>2, PutBackEffect DEF WatchPutsBack
  <2>3. CASE ~WatchPicksUp(x) /\ ~WatchPutsBack(x)
    BY <1>3, <2>3 DEF RunStep, WatchBegin, WatchRecords, SessionStep, WatchOpens, WatchCloses,
                 WatchKeepsSession, WatchReads, WatchEnds, WatchFails, WatchPrompts, day
  <2> QED
    BY <2>1, <2>2, <2>3
<1>4. ASSUME NEW x \in Students, TeacherStep(x)  PROVE Only(x)
  BY <1>4, TeacherDay
<1>5. ASSUME NEW x \in Students, ReadingStep(x)
      PROVE  /\ Only(x) /\ UNCHANGED <<told, returns>>
             /\ SameDay(x) \/ (Verifiable(rec[x]) /\ Anew(x) /\ rec'[x] = SystemMarked)
  BY <1>5, ReadingEffect DEF ReadingStep, Reading
<1> QED
  BY <1>1, <1>2, <1>3, <1>4, <1>5, NextKinds

LEMMA StatusStep ==
  ASSUME Base, [Next]_vars, NEW s \in Students
  PROVE  /\ rec'[s].status \in Statuses
         /\ rec'[s].status = "present" => rec'[s].arrived
         /\ rec'[s].auto => rec'[s].picked
<1>1. \A t \in Students : /\ rec[t].status \in Statuses
                          /\ rec[t].status = "present" => rec[t].arrived
                          /\ rec[t].auto => rec[t].picked
  BY DEF Base, RunOK
<1>2. ASSUME NEW x \in Students, Only(x),
             Wins(x, lastRun, TRUE) \/ Returned(x) \/ SameDay(x) \/ Anew(x) \/ \E now \in Nat : Takes(x, now, FALSE)
      PROVE  /\ rec'[s].status \in Statuses
             /\ rec'[s].status = "present" => rec'[s].arrived
             /\ rec'[s].auto => rec'[s].picked
  <2>1. CASE x # s
    BY <1>1, <1>2, <2>1 DEF Only
  <2>2. CASE x = s
    BY <1>1, <1>2, <2>2 DEF Wins, Returned, SameDay, Anew, Takes
  <2> QED
    BY <2>1, <2>2
<1>3. ASSUME NEW x \in Students, TeacherStep(x)
      PROVE  SameDay(x) \/ Anew(x) \/ \E now \in Nat : Takes(x, now, FALSE)
  BY <1>3, TeacherDay DEF Base
<1>4. CASE UNCHANGED <<rec, at, told, returns>>
  BY <1>1, <1>4
<1> QED
  BY <1>2, <1>3, <1>4, DayKinds

LEMMA BaseInit == Init => Base
<1> SUFFICES ASSUME Init  PROVE Base
  OBVIOUS
<1>1. TypeOK
  BY InitTypeOK
<1>2. ClockOK
  BY PickupAssumption, NoRunFields DEF Init, ClockOK, Running, NoSignal
<1>3. PromptsOK
  BY PickupAssumption DEF Init, PromptsOK, NoPrompt
<1>4. \A s \in Students : /\ rec[s].status \in Statuses /\ watch.todo[s] = "nothing"
                          /\ rec[s].arrived /\ ~rec[s].auto
  BY WrittenFields, NoRunFields DEF Init, NothingToDo, Statuses
<1>5. RunOK
  BY <1>4, NoRunFields DEF Init, RunOK
<1> QED
  BY <1>1, <1>2, <1>3, <1>5 DEF Base

LEMMA BaseStep == Base /\ [Next]_vars => Base'
<1> SUFFICES ASSUME Base, [Next]_vars  PROVE Base'
  OBVIOUS
<1>1. TypeOK' /\ ClockOK' /\ PromptsOK'
  BY TypeStep, ClockStep, PromptsStep DEF Base
<1>2. RunOK'
  BY RunStepOK, StatusStep, StudentsAssumption DEF RunOK
<1> QED
  BY <1>1, <1>2 DEF Base

LEMMA BaseAlways == Spec => []Base
BY BaseInit, BaseStep, PTL DEF Spec

\* The variables, the run and the requests keep their types.
THEOREM TypeCorrect == Spec => []TypeOK
<1>1. Base => TypeOK
  BY DEF Base
<1> QED
  BY <1>1, BaseAlways, PTL

----------------------------------------------------------------------------
(* Pickups are told of once, and kept to the contract of the records *)

LEMMA ToldStep == Base /\ Told /\ [Next]_vars => Told'
<1> SUFFICES ASSUME Base, Told, [Next]_vars, NEW s \in Students
             PROVE  told'[s] <= returns'[s]
                                  + (IF rec'[s].status = "present" /\ rec'[s].picked THEN 1 ELSE 0)
  BY DEF Told
<1>1. /\ told \in [Students -> Nat] /\ returns \in [Students -> Nat] /\ rec \in [Students -> Records]
      /\ told[s] <= returns[s] + (IF rec[s].status = "present" /\ rec[s].picked THEN 1 ELSE 0)
  BY DEF Base, TypeOK, Told
<1>2. CASE UNCHANGED <<rec, at, told, returns>>
  BY <1>1, <1>2
<1>3. ASSUME NEW x \in Students, Only(x), WatchPicksUp(x), Wins(x, lastRun, TRUE)
      PROVE  told'[s] <= returns'[s]
                           + (IF rec'[s].status = "present" /\ rec'[s].picked THEN 1 ELSE 0)
  <2>1. returns' = returns
    BY <1>3 DEF WatchPicksUp
  <2> QED
    BY <1>1, <1>3, <2>1 DEF Only, Wins, Takes, SameDay, StillHere
<1>4. ASSUME NEW x \in Students, Only(x), Returned(x), told' = told
      PROVE  told'[s] <= returns'[s]
                           + (IF rec'[s].status = "present" /\ rec'[s].picked THEN 1 ELSE 0)
  BY <1>1, <1>4 DEF Only, Returned, SameDay
<1>5. ASSUME NEW x \in Students, TeacherStep(x)
      PROVE  told'[s] <= returns'[s]
                           + (IF rec'[s].status = "present" /\ rec'[s].picked THEN 1 ELSE 0)
  <2>1. TypeOK
    BY DEF Base
  <2>2. Only(x)
    BY <1>5, <2>1, TeacherDay
  <2>3. CASE SameDay(x) /\ UNCHANGED <<told, returns>>
    BY <1>1, <2>2, <2>3 DEF Only, SameDay
  <2>4. CASE /\ StillHere(rec[x]) /\ told' = [told EXCEPT ![x] = @ + 1] /\ returns' = returns
             /\ \E now \in Nat : Takes(x, now, FALSE)
    BY <1>1, <2>2, <2>4 DEF Only, Takes, StillHere
  <2>5. CASE UNCHANGED <<told, returns>> /\ \E now \in Nat : Takes(x, now, FALSE)
    BY <1>1, <2>2, <2>5 DEF Only, Takes
  <2>6. CASE told' = told /\ returns' = [returns EXCEPT ![x] = @ + 1] /\ Anew(x)
    BY <1>1, <2>2, <2>6 DEF Only, Anew
  <2> QED
    BY <1>5, <2>1, <2>3, <2>4, <2>5, <2>6, TeacherDay
<1>6. ASSUME NEW x \in Students, Only(x), UNCHANGED <<told, returns>>,
             SameDay(x) \/ (Verifiable(rec[x]) /\ Anew(x))
      PROVE  told'[s] <= returns'[s]
                           + (IF rec'[s].status = "present" /\ rec'[s].picked THEN 1 ELSE 0)
  BY <1>1, <1>6 DEF Only, SameDay, Anew, Verifiable
<1> QED
  BY <1>2, <1>3, <1>4, <1>5, <1>6, DayKinds

\* However often a run, an answer and another run race for a student, the parents
\* are told of a pickup once for each stay: the guarded statement lets one caller
\* win, and only a return opens it again.
THEOREM PickupsAreAnnouncedOnce == Spec => []PickupAnnouncedOnce
<1>1. Init => Told
  BY WrittenFields DEF Init, Told, Statuses
<1>2. Base /\ Told => PickupAnnouncedOnce
  <2> SUFFICES ASSUME Base, Told, NEW s \in Students  PROVE told[s] <= 1 + returns[s]
    BY DEF PickupAnnouncedOnce
  <2>1. told[s] \in Nat /\ returns[s] \in Nat
    BY DEF Base, TypeOK
  <2> QED
    BY <2>1 DEF Told
<1> QED
  BY <1>1, <1>2, ToldStep, BaseAlways, PTL DEF Spec

\* What a step writes into the records.
LEMMA Writers ==
  ASSUME [Next]_vars
  PROVE  \/ rec' = rec
         \/ \E x \in Students :
              \/ \E kind \in Kinds, good \in BOOLEAN : Reading(x, kind, good)
              \/ WatchPicksUp(x) \/ WatchPutsBack(x) \/ AnswerMarks(x) \/ PickupWrite(x)
              \/ \E status \in Statuses : HandMarks(x, status)
<1>1. CASE UNCHANGED vars
  BY <1>1 DEF vars, day
<1>2. CASE WorldStep
  BY <1>2 DEF WorldStep, TeacherStarts, TeacherStops, HardwareChanges, Restart, Tick, TagChanges, day
<1>3. ASSUME NEW x \in Students, RunStep(x)
      PROVE  rec' = rec \/ WatchPicksUp(x) \/ WatchPutsBack(x)
  BY <1>3 DEF RunStep, WatchBegin, WatchRecords, SessionStep, WatchOpens, WatchCloses,
              WatchKeepsSession, WatchReads, WatchEnds, WatchFails, WatchPrompts, day
<1>4. ASSUME NEW x \in Students, TeacherStep(x)
      PROVE  \/ rec' = rec \/ AnswerMarks(x) \/ PickupWrite(x)
             \/ \E status \in Statuses : HandMarks(x, status)
  BY <1>4 DEF TeacherStep, Answer, Pickup, day
<1> QED
  BY <1>1, <1>2, <1>3, <1>4, NextKinds DEF ReadingStep

LEMMA ContractStep == Base /\ [Next]_vars => [Contract!Next]_rec
<1> SUFFICES ASSUME Base, [Next]_vars, rec' # rec  PROVE Contract!Next
  OBVIOUS
<1>1. rec \in [Students -> Records]
  BY DEF Base, TypeOK
<1>2. ASSUME NEW x \in Students, NEW kind \in Kinds, NEW good \in BOOLEAN, Reading(x, kind, good)
      PROVE  Contract!Next
  <2>1. Verifiable(rec[x]) /\ rec' = [rec EXCEPT ![x] = SystemMarked]
    BY <1>2 DEF Reading
  <2>2. Contract!SystemArrives(x)
    BY <2>1 DEF Contract!SystemArrives, Contract!Verifiable, Verifiable, Contract!SystemMarked,
                SystemMarked
  <2> QED
    BY <2>2 DEF Contract!Next
<1>3. ASSUME NEW x \in Students, WatchPicksUp(x)  PROVE Contract!Next
  <2>1. StillHere(rec[x]) /\ rec' = [rec EXCEPT ![x] = PickedUp(@, TRUE)]
    BY <1>3 DEF WatchPicksUp, MarkPickedUp
  <2>2. Contract!WatchPicksUp(x)
    BY <2>1 DEF Contract!WatchPicksUp, Contract!StillHere, StillHere, Contract!PickedUp, PickedUp
  <2> QED
    BY <2>2 DEF Contract!Next
<1>4. ASSUME NEW x \in Students, WatchPutsBack(x)  PROVE Contract!Next
  <2>1. Contract!WatchPutsBack(x)
    BY <1>4 DEF WatchPutsBack, Contract!WatchPutsBack, Contract!PutBack, PutBack
  <2> QED
    BY <2>1 DEF Contract!Next
<1>5. ASSUME NEW x \in Students, AnswerMarks(x) \/ PickupWrite(x)  PROVE Contract!Next
  <2>1. rec' = [rec EXCEPT ![x] = PickedUp(@, FALSE)]
    BY <1>5 DEF AnswerMarks, MarkPickedUp, PickupWrite
  <2>2. rec[x].status # "none"
    BY DEF Base, RunOK, Statuses
  <2>3. Contract!HandPicksUp(x)
    BY <2>1, <2>2 DEF Contract!HandPicksUp, Contract!PickedUp, PickedUp
  <2> QED
    BY <2>3 DEF Contract!Next
<1>6. ASSUME NEW x \in Students, NEW status \in Statuses, HandMarks(x, status)  PROVE Contract!Next
  <2> DEFINE marks == [t \in {x} |-> status]
  <2>1. marks \in [{x} -> Contract!Statuses] /\ {x} \in SUBSET Students
    BY DEF Statuses, Contract!Statuses
  <2>2. rec' = [t \in Students |-> IF t \in DOMAIN marks THEN HandMarked(marks[t]) ELSE rec[t]]
    BY <1>1, <1>6 DEF HandMarks
  <2>3. Contract!HandMarks(marks)
    BY <2>2 DEF Contract!HandMarks, Contract!HandMarked, HandMarked
  <2> HIDE DEF marks
  <2> QED
    BY <2>1, <2>3 DEF Contract!Next
<1> QED
  BY <1>2, <1>3, <1>4, <1>5, <1>6, Writers

\* Whoever writes a record of the day in this window, the watch included, makes a
\* change that the contract of the day's records allows.
THEOREM WatchKeepsContract == Spec => KeepsContract
BY ContractStep, BaseAlways, PTL DEF Spec, KeepsContract

----------------------------------------------------------------------------
(* Only who was seen is put back *)

LEMMA SightGrows ==
  ASSUME Base, [Next]_vars, NEW s \in Students, NEW k \in Kinds
  PROVE  sig[s][k].at <= sig'[s][k].at
<1>1. clock \in Nat /\ sig[s][k].at \in Nat /\ sig[s][k].at <= clock /\ TypeOK
  BY DEF Base, TypeOK, ClockOK, SignalRow
<1>2. CASE sig' = sig
  BY <1>1, <1>2
<1>3. ASSUME NEW x \in Students, ReadingStep(x)  PROVE sig[s][k].at <= sig'[s][k].at
  <2>1. PICK kind \in Kinds, good \in BOOLEAN : Reading(x, kind, good)
    BY <1>3 DEF ReadingStep
  <2>2. ReadingEffectOn(x, kind)
    BY <1>1, <2>1, ReadingEffect
  <2> QED
    BY <1>1, <2>2 DEF ReadingEffectOn
<1>4. ASSUME NEW x \in Students, RunStep(x) \/ TeacherStep(x)  PROVE sig' = sig
  BY <1>4 DEF RunStep, WatchBegin, WatchRecords, SessionStep, WatchOpens, WatchCloses,
              WatchKeepsSession, WatchReads, WatchEnds, WatchFails, WatchPrompts, WatchPicksUp,
              WatchPutsBack, TeacherStep, Answer, AnswerMarks, Pickup, PickupWrite, HandMarks, sight
<1>5. CASE UNCHANGED vars
  BY <1>2, <1>5 DEF vars, sight
<1>6. ASSUME WorldStep  PROVE sig' = sig
  BY <1>6 DEF WorldStep, TeacherStarts, TeacherStops, HardwareChanges, Restart, Tick,
              TagChanges, sight
<1> QED
  BY <1>2, <1>3, <1>4, <1>5, <1>6, NextKinds

\* How the automatic pickup of s may change.
LEMMA AutoKept ==
  ASSUME Base, [Next]_vars, NEW s \in Students, rec'[s].auto
  PROVE  \/ rec'[s] = rec[s] /\ at'[s].picked = at[s].picked
         \/ WatchPicksUp(s) /\ StillHere(rec[s]) /\ Takes(s, lastRun, TRUE)
<1>0. TypeOK
  BY DEF Base
<1>1. CASE UNCHANGED <<rec, at, told, returns>>
  BY <1>1
<1>2. ASSUME NEW x \in Students, Only(x), x # s
      PROVE  rec'[s] = rec[s] /\ at'[s].picked = at[s].picked
  BY <1>2 DEF Only
<1>3. ASSUME WatchPicksUp(s), Wins(s, lastRun, TRUE)
      PROVE  \/ rec'[s] = rec[s] /\ at'[s].picked = at[s].picked
             \/ WatchPicksUp(s) /\ StillHere(rec[s]) /\ Takes(s, lastRun, TRUE)
  BY <1>3 DEF Wins, SameDay
<1>4. ASSUME Returned(s) \/ SameDay(s) \/ Anew(s)
      PROVE  rec'[s] = rec[s] /\ at'[s].picked = at[s].picked
  BY <1>4 DEF Returned, SameDay, Anew
<1>5. ASSUME TeacherStep(s)
      PROVE  rec'[s] = rec[s] /\ at'[s].picked = at[s].picked
  BY <1>0, <1>5, TeacherDay DEF SameDay, Takes, Anew
<1> QED
  BY <1>1, <1>2, <1>3, <1>4, <1>5, DayKinds

LEMMA SamePickupStep == Base /\ SamePickup /\ [Next]_vars => SamePickup'
<1> SUFFICES ASSUME Base, SamePickup, [Next]_vars  PROVE SamePickup'
  OBVIOUS
<1>0. TypeOK /\ Base'
  BY BaseStep DEF Base
<1>1. ASSUME NEW s \in Students, rec'[s].auto, SameRun \/ watch' = watch, Running, s \in watch.picked
      PROVE  at'[s].picked = watch'.at[s].picked
  <2>1. watch.todo[s] # "pick_up"
    BY <1>1 DEF Base, RunOK
  <2>2. rec'[s] = rec[s] /\ at'[s].picked = at[s].picked
    BY <1>1, <2>1, AutoKept DEF WatchPicksUp
  <2> QED
    BY <1>1, <2>2 DEF SamePickup, SameRun
<1>2. ASSUME NEW s \in Students, watch.todo[s] = "put_back", SameRun \/ watch' = watch, NEW k \in Kinds
      PROVE  sig'[s][k].at > watch'.at[s].picked
  <2>1. sig[s][k].at > watch.at[s].picked
    BY <1>2 DEF SamePickup
  <2>2. sig[s][k].at <= sig'[s][k].at
    BY SightGrows
  <2>3. sig[s][k].at \in Nat /\ sig'[s][k].at \in Nat /\ watch.at[s].picked \in Nat
    BY <1>0 DEF Base, TypeOK, SignalRow, Watch
  <2> QED
    BY <1>2, <2>1, <2>2, <2>3 DEF SameRun
<1>3. CASE watch' = watch
  BY <1>1, <1>2, <1>3, <1>0 DEF SamePickup, Running, TypeOK, Watch
<1>4. CASE watch' = NoRun
  BY <1>4, NoRunFields DEF SamePickup, Running, NothingToDo
<1>5. CASE WatchBegin
  BY <1>5, <1>0, BeginEffect DEF SamePickup, Running, NothingToDo
<1>6. CASE WatchRecords
  <2>1. UNCHANGED <<rec, at, sig>>
    BY <1>6 DEF WatchRecords, day
  <2>2. CASE watch'.step = "session" /\ watch'.at = at /\ watch'.todo = watch.todo
    <3>1. \A s \in Students : watch'.todo[s] = "nothing"
      BY <2>2, <1>6, <1>0 DEF Base, RunOK
    <3> QED
      BY <2>1, <2>2, <3>1 DEF SamePickup
  <2> QED
    BY <1>0, <1>4, <1>6, <2>2, RecordsEffect
<1>7. CASE SessionStep
  <2>1. CASE watch'.step = "read" /\ watch'.todo = watch.todo /\ SameRun /\ watch.step = "session"
    <3>1. \A s \in Students : watch'.todo[s] = "nothing"
      BY <2>1 DEF Base, RunOK
    <3>2. watch'.picked \subseteq Students /\ Running /\ watch'.picked = watch.picked
      BY <2>1, <1>0 DEF SameRun, TypeOK, Watch, Running
    <3> QED
      BY <1>1, <2>1, <3>1, <3>2 DEF SamePickup
  <2> QED
    BY <1>0, <1>4, <1>7, <2>1, SessionEffect
<1>8. CASE WatchReads
  <2>1. CASE watch'.step = "act" /\ SameRun /\ \A s \in Students : watch'.todo[s] = Decided(s)
    <3>1. watch.step = "read" /\ UNCHANGED sig
      BY <1>8 DEF WatchReads
    <3>2. \A s \in Students : watch'.todo[s] = "put_back" => \A k \in Kinds : sig[s][k].at > watch.at[s].picked
      BY <2>1 DEF Decided, DecidePickupAction, SeenAgain
    <3>3. watch'.picked \subseteq Students /\ Running /\ watch'.picked = watch.picked
      BY <2>1, <3>1, <1>0 DEF SameRun, TypeOK, Watch, Running
    <3> QED
      BY <1>1, <2>1, <3>1, <3>2, <3>3 DEF SamePickup, SameRun
  <2> QED
    BY <1>0, <1>4, <1>8, <2>1, ReadsEffect
<1>9. ASSUME NEW x \in Students, watch.step = "act", TurnOver(x)  PROVE SamePickup'
  <2>1. watch'.picked \subseteq Students /\ Running /\ watch'.picked = watch.picked
        /\ SameRun /\ watch'.step = "act"
    BY <1>9, <1>0 DEF TurnOver, SameRun, TypeOK, Watch, Running
  <2>2. \A s \in Students : watch'.todo[s] = "put_back" => watch.todo[s] = "put_back"
    BY <1>9 DEF TurnOver
  <2> QED
    BY <1>1, <1>2, <2>1, <2>2 DEF SamePickup
<1> QED
  BY <1>0, <1>3, <1>4, <1>5, <1>6, <1>7, <1>8, <1>9, WatchKinds

\* A step that undoes a pickup is the run's, and undoes the pickup it has read: both
\* signals are newer than that.
LEMMA UndoneStep ==
  Base /\ SamePickup /\ [Next]_vars =>
    \A s \in Students : UndoStep(s) => \A k \in Kinds : sig[s][k].at > at[s].picked
<1> SUFFICES ASSUME Base, SamePickup, [Next]_vars, NEW s \in Students, UndoStep(s)
             PROVE  \A k \in Kinds : sig[s][k].at > at[s].picked
  OBVIOUS
<1>1. rec'[s] # rec[s] /\ watch' # watch /\ watch.todo[s] = "put_back"
  BY DEF UndoStep
<1>2. PICK x \in Students : WatchPicksUp(x) \/ WatchPutsBack(x)
  <2>1. \A x \in Students : TeacherStep(x) \/ ReadingStep(x) => watch' = watch
    BY OthersKeep
  <2>2. rec' # rec
    BY <1>1
  <2> QED
    BY <1>1, <2>1, <2>2, Writers DEF TeacherStep, ReadingStep
<1>3. TypeOK /\ TypeOK'
  BY BaseStep DEF Base
<1>4. x = s
  <2>1. Only(x)
    <3>1. CASE WatchPicksUp(x)
      BY <1>3, <3>1, WatchFields, MarkEffect DEF WatchPicksUp
    <3>2. CASE WatchPutsBack(x)
      BY <1>3, <3>2, PutBackEffect
    <3> QED
      BY <1>2, <3>1, <3>2
  <2> QED
    BY <1>1, <2>1 DEF Only
<1>5. WatchPutsBack(s)
  BY <1>1, <1>2, <1>4 DEF WatchPicksUp
<1>6. rec[s].auto
  BY <1>1, <1>5 DEF WatchPutsBack
<1>7. Running /\ s \in watch.picked
  BY <1>1, <1>5 DEF WatchPutsBack, Running, Base, RunOK
<1> QED
  BY <1>1, <1>6, <1>7 DEF SamePickup

\* Whatever changes between a run's reading of a pickup and its undoing it: a
\* student is put back only when both signals are newer than the pickup undone.
THEOREM UndoOnlyWhenSeen == Spec => UndoneOnlyWhenSeen
<1>1. Init => SamePickup
  BY NoRunFields DEF Init, SamePickup, Running, NothingToDo
<1>2. Spec => [](Base /\ SamePickup)
  BY <1>1, SamePickupStep, BaseAlways, PTL DEF Spec
<1>3. Base /\ SamePickup /\ [Next]_vars =>
        [\A s \in Students : UndoStep(s) => \A k \in Kinds : sig[s][k].at > at[s].picked]_vars
  BY UndoneStep
<1> QED
  BY <1>2, <1>3, PTL DEF Spec, UndoneOnlyWhenSeen

----------------------------------------------------------------------------
(* Nobody is picked up who was heard of *)

SightKept(s) == sig'[s] = sig[s] /\ stillAt'[s] = stillAt[s]

\* Nobody heard of s in this step.
Quiet(s) ==
  /\ heard'[s] = heard[s] /\ SightKept(s)
  /\ late'[s] = late[s] \/ WatchRecords \/ WatchReads

\* s was sighted, by a reading or an answer.
Sighted(s) ==
  /\ late'[s] = late[s] \cup {"sight"}
  /\ stillAt[s] <= stillAt'[s]
  /\ \/ heard'[s] = heard[s]
     \/ \E k \in Kinds : heard'[s] <= sig'[s][k].at
     \/ heard'[s] <= stillAt'[s]

\* s was marked present by a teacher.
Marked(s) ==
  /\ late'[s] = late[s] \cup {"mark"} /\ SightKept(s)
  /\ heard'[s] = clock /\ rec'[s].status = "present" /\ at'[s].arrived = clock

LEMMA SightKinds ==
  ASSUME Base, HeardOK, [Next]_vars, NEW s \in Students
  PROVE  Quiet(s) \/ Sighted(s) \/ Marked(s)
<1>0. TypeOK /\ clock \in Nat /\ heard[s] \in Nat /\ heard[s] <= clock /\ stillAt[s] \in Nat
      /\ stillAt \in [Students -> Nat] /\ sig \in [Students -> [Kinds -> SignalRow]]
      /\ late \in [Students -> SUBSET {"mark", "sight"}] /\ heard \in [Students -> Nat]
  BY DEF Base, TypeOK, HeardOK
<1>1. CASE UNCHANGED vars
  BY <1>1 DEF vars, sight, prompts, Quiet, SightKept
<1>2. ASSUME WorldStep  PROVE Quiet(s)
  <2>1. UNCHANGED <<heard, late, sig, stillAt>>
    BY <1>2 DEF WorldStep, TeacherStarts, TeacherStops, HardwareChanges, Restart, Tick, TagChanges,
                sight, prompts
  <2> QED
    BY <2>1 DEF Quiet, SightKept
<1>3. ASSUME NEW x \in Students, RunStep(x)  PROVE Quiet(s)
  <2>1. UNCHANGED <<heard, sig, stillAt>>
    BY <1>3 DEF RunStep, WatchBegin, WatchRecords, SessionStep, WatchOpens, WatchCloses,
                WatchKeepsSession, WatchReads, WatchEnds, WatchFails, WatchPicksUp, WatchPrompts,
                WatchPutsBack, sight, prompts
  <2>2. late' = late \/ WatchRecords \/ WatchReads
    BY <1>3 DEF RunStep, WatchBegin, SessionStep, WatchOpens, WatchCloses,
                WatchKeepsSession, WatchEnds, WatchFails, WatchPicksUp, WatchPrompts,
                WatchPutsBack, sight
  <2> QED
    BY <2>1, <2>2 DEF Quiet, SightKept
<1>4. ASSUME NEW x \in Students, ReadingStep(x)  PROVE Quiet(s) \/ Sighted(s)
  <2>1. PICK kind \in Kinds, good \in BOOLEAN : Reading(x, kind, good)
    BY <1>4 DEF ReadingStep
  <2>2. ReadingEffectOn(x, kind)
    BY <1>0, <2>1, ReadingEffect
  <2>3. stillAt' = stillAt /\ Hear(x, clock, "sight")
    BY <2>1 DEF Reading, prompts
  <2>4. /\ heard'[x] = IF heard[x] <= clock THEN clock ELSE heard[x]
        /\ late'[x] = late[x] \cup {"sight"}
        /\ \A t \in Students : t # x => heard'[t] = heard[t] /\ late'[t] = late[t]
    BY <1>0, <2>3, HearEffect
  <2>5. CASE x = s
    BY <1>0, <2>2, <2>3, <2>4, <2>5 DEF Sighted, ReadingEffectOn
  <2>6. CASE x # s
    <3>1. sig' \in [Students -> [Kinds -> SignalRow]] /\ \A k \in Kinds : sig'[s][k] = sig[s][k]
      BY <2>2, <2>6 DEF ReadingEffectOn
    <3>2. sig'[s] = sig[s]
      BY <1>0, <3>1
    <3> QED
      BY <2>3, <2>4, <2>6, <3>2 DEF Quiet, SightKept
  <2> QED
    BY <2>5, <2>6
<1>5. ASSUME NEW x \in Students, NEW answer \in {"still_here", "picked_up"}, NEW now \in 1..clock,
             Answer(x, answer, now)
      PROVE  Quiet(s) \/ Sighted(s)
  <2>1. sig' = sig /\ now \in Nat
    BY <1>0, <1>5 DEF Answer
  <2>2. CASE UNCHANGED <<stillAt, heard, late>>
    BY <2>1, <2>2 DEF Quiet, SightKept
  <2>3. CASE stillAt' = [stillAt EXCEPT ![x] = now] /\ Hear(x, now, "sight")
    <3>1. /\ heard'[x] = IF heard[x] <= now THEN now ELSE heard[x]
          /\ late'[x] = late[x] \cup {"sight"}
          /\ \A t \in Students : t # x => heard'[t] = heard[t] /\ late'[t] = late[t]
      BY <1>0, <2>1, <2>3, HearEffect
    <3>2. check[x].answer = "open" /\ check[x].made <= now /\ check[x].made \in Nat
      BY <1>5 DEF Answer, Base, TypeOK, Prompt
    <3>3. stillAt[x] <= check[x].made /\ stillAt[x] \in Nat
      BY <3>2 DEF Base, PromptsOK, TypeOK
    <3>4. stillAt[x] <= now
      BY <2>1, <3>2, <3>3
    <3> QED
      BY <1>0, <2>1, <2>3, <3>1, <3>4 DEF Quiet, Sighted, SightKept
  <2> QED
    BY <1>5, <2>2, <2>3 DEF Answer
<1>6. ASSUME NEW x \in Students, NEW status \in Statuses, HandMarks(x, status)
      PROVE  Quiet(s) \/ Marked(s)
  <2>1. Only(x) /\ Anew(x) /\ rec'[x].status = status /\ UNCHANGED <<sig, stillAt>>
    BY <1>0, <1>6, HandMarksEffect DEF HandMarks, prompts
  <2>2. CASE status # "present"
    BY <1>6, <2>1, <2>2 DEF HandMarks, Quiet, SightKept
  <2>3. CASE status = "present"
    <3>1. Hear(x, clock, "mark")
      BY <1>6, <2>3 DEF HandMarks
    <3>2. /\ heard'[x] = IF heard[x] <= clock THEN clock ELSE heard[x]
          /\ late'[x] = late[x] \cup {"mark"}
          /\ \A t \in Students : t # x => heard'[t] = heard[t] /\ late'[t] = late[t]
      BY <1>0, <3>1, HearEffect
    <3>3. rec'[x].status = "present" => at'[x].arrived = clock
      BY <2>1 DEF Anew
    <3> QED
      BY <1>0, <2>1, <2>3, <3>2, <3>3 DEF Quiet, Marked, SightKept
  <2> QED
    BY <2>2, <2>3
<1>7. ASSUME NEW x \in Students, AnswerMarks(x) \/ Pickup(x) \/ PickupWrite(x)  PROVE Quiet(s)
  BY <1>7 DEF AnswerMarks, Pickup, PickupWrite, Quiet, SightKept, sight, prompts
<1>8. ASSUME NEW x \in Students, TeacherStep(x)  PROVE Quiet(s) \/ Sighted(s) \/ Marked(s)
  BY <1>5, <1>6, <1>7, <1>8 DEF TeacherStep
<1> QED
  BY <1>1, <1>2, <1>3, <1>4, <1>8, NextKinds

\* The time a present student arrived stays, or is this instant; nobody arrives later
\* than he is heard of.
LEMMA ArrivedKinds ==
  ASSUME Base, [Next]_vars, NEW s \in Students
  PROVE  /\ at'[s].arrived \in {at[s].arrived, 0, clock}
         /\ rec'[s].status = "present" =>
              \/ rec[s].status = "present" /\ at'[s].arrived = at[s].arrived
              \/ at'[s].arrived = clock
<1>0. TypeOK
  BY DEF Base
<1>1. CASE UNCHANGED <<rec, at, told, returns>>
  BY <1>1
<1>2. ASSUME NEW x \in Students, Only(x),
             Wins(x, lastRun, TRUE) \/ Returned(x) \/ SameDay(x) \/ Anew(x) \/ \E now \in Nat : Takes(x, now, FALSE)
      PROVE  /\ at'[s].arrived \in {at[s].arrived, 0, clock}
             /\ rec'[s].status = "present" =>
                  \/ rec[s].status = "present" /\ at'[s].arrived = at[s].arrived
                  \/ at'[s].arrived = clock
  BY <1>2 DEF Only, Wins, Returned, SameDay, Anew, Takes
<1>3. ASSUME NEW x \in Students, TeacherStep(x)
      PROVE  SameDay(x) \/ Anew(x) \/ \E now \in Nat : Takes(x, now, FALSE)
  BY <1>0, <1>3, TeacherDay
<1> QED
  BY <1>1, <1>2, <1>3, DayKinds

LEMMA HeardGrows ==
  ASSUME Base, HeardOK, [Next]_vars, NEW s \in Students
  PROVE  /\ heard[s] <= heard'[s] /\ heard'[s] <= clock'
         /\ at'[s].arrived <= heard'[s]
<1>0. /\ TypeOK /\ clock \in Nat /\ heard \in [Students -> Nat] /\ heard[s] \in Nat
      /\ heard[s] <= clock /\ at[s].arrived <= heard[s] /\ at[s].arrived \in Nat
  BY DEF Base, TypeOK, HeardOK
<1>1. clock <= clock' /\ clock' \in Nat
  BY BaseStep, PromptKinds DEF Base, TypeOK
<1>2. ASSUME NEW x \in Students, ReadingStep(x)
      PROVE  heard[s] <= heard'[s] /\ heard'[s] <= clock /\ at'[s].arrived <= heard'[s]
  <2>1. PICK kind \in Kinds, good \in BOOLEAN : Reading(x, kind, good)
    BY <1>2 DEF ReadingStep
  <2>2. /\ heard'[x] = IF heard[x] <= clock THEN clock ELSE heard[x]
        /\ \A t \in Students : t # x => heard'[t] = heard[t]
    BY <1>0, <2>1, HearEffect DEF Reading
  <2>3. Only(x)
    BY <1>0, <2>1, ReadingEffect
  <2>4. at'[s].arrived \in {at[s].arrived, 0, clock}
    BY ArrivedKinds
  <2> QED
    BY <1>0, <2>2, <2>3, <2>4 DEF Only
<1>3. ASSUME NEW x \in Students, NEW status \in Statuses, HandMarks(x, status)
      PROVE  heard[s] <= heard'[s] /\ heard'[s] <= clock /\ at'[s].arrived <= heard'[s]
  <2>1. Only(x)
    BY <1>0, <1>3, HandMarksEffect
  <2>2. at'[x].arrived = IF status = "present" THEN clock ELSE 0
    BY <1>0, <1>3 DEF HandMarks, TypeOK
  <2>3. CASE status = "present"
    <3>1. /\ heard'[x] = IF heard[x] <= clock THEN clock ELSE heard[x]
          /\ \A t \in Students : t # x => heard'[t] = heard[t]
      BY <1>0, <1>3, <2>3, HearEffect DEF HandMarks
    <3> QED
      BY <1>0, <2>1, <2>2, <2>3, <3>1 DEF Only
  <2>4. CASE status # "present"
    <3>1. heard' = heard
      BY <1>3, <2>4 DEF HandMarks
    <3> QED
      BY <1>0, <2>1, <2>2, <2>4, <3>1 DEF Only
  <2> QED
    BY <2>3, <2>4
<1>4. ASSUME NEW x \in Students, NEW answer \in {"still_here", "picked_up"}, NEW now \in 1..clock,
             Answer(x, answer, now)
      PROVE  heard[s] <= heard'[s] /\ heard'[s] <= clock /\ at'[s].arrived <= heard'[s]
  <2>1. now \in Nat /\ now <= clock /\ at' = at
    BY <1>0, <1>4 DEF Answer, day
  <2>2. CASE heard' = heard
    BY <1>0, <2>1, <2>2
  <2>3. CASE Hear(x, now, "sight")
    <3>1. /\ heard'[x] = IF heard[x] <= now THEN now ELSE heard[x]
          /\ \A t \in Students : t # x => heard'[t] = heard[t]
      BY <1>0, <2>1, <2>3, HearEffect
    <3> QED
      BY <1>0, <2>1, <3>1
  <2> QED
    BY <1>4, <2>2, <2>3 DEF Answer
<1>5. ASSUME heard' = heard, at'[s].arrived = at[s].arrived
      PROVE  heard[s] <= heard'[s] /\ heard'[s] <= clock /\ at'[s].arrived <= heard'[s]
  BY <1>0, <1>5
<1>6. ASSUME NEW x \in Students, RunStep(x) \/ AnswerMarks(x) \/ Pickup(x) \/ PickupWrite(x)
      PROVE  heard' = heard /\ at'[s].arrived = at[s].arrived
  <2>1. heard' = heard
    BY <1>6 DEF RunStep, WatchBegin, WatchRecords, SessionStep, WatchOpens, WatchCloses,
                WatchKeepsSession, WatchReads, WatchEnds, WatchFails, WatchPicksUp, WatchPrompts,
                WatchPutsBack, AnswerMarks, Pickup, PickupWrite, sight
  <2>2. CASE at' = at
    BY <2>1, <2>2
  <2>3. CASE WatchPicksUp(x)
    <3>1. Only(x) /\ Wins(x, watch.now, TRUE)
      BY <1>0, <2>3, MarkEffect, WatchFields DEF WatchPicksUp
    <3> QED
      BY <2>1, <3>1 DEF Only, Wins, Takes, SameDay
  <2>4. CASE WatchPutsBack(x)
    <3>1. Only(x) /\ Returned(x)
      BY <1>0, <2>4, PutBackEffect
    <3> QED
      BY <2>1, <3>1 DEF Only, Returned, SameDay
  <2>5. CASE AnswerMarks(x) \/ PickupWrite(x)
    <3>1. teacher[x].now \in Nat
      BY <1>0 DEF TypeOK
    <3>2. Only(x) /\ (SameDay(x) \/ Takes(x, teacher[x].now, FALSE))
      BY <1>0, <2>5, <3>1, MarkEffect, TakesEffect DEF AnswerMarks, PickupWrite, Wins
    <3> QED
      BY <2>1, <3>2 DEF Only, Takes, SameDay
  <2> QED
    BY <1>6, <2>2, <2>3, <2>4, <2>5
       DEF RunStep, WatchBegin, WatchRecords, SessionStep, WatchOpens, WatchCloses,
           WatchKeepsSession, WatchReads, WatchEnds, WatchFails, WatchPrompts, Pickup, day
<1>7. ASSUME UNCHANGED vars \/ WorldStep  PROVE heard' = heard /\ at'[s].arrived = at[s].arrived
  <2>1. CASE UNCHANGED vars
    BY <2>1 DEF vars, sight, day
  <2>2. CASE WorldStep
    BY <2>2 DEF WorldStep, TeacherStarts, TeacherStops, HardwareChanges, Restart, Tick, TagChanges,
                sight, day
  <2> QED
    BY <1>7, <2>1, <2>2
<1>8. ASSUME NEW x \in Students, TeacherStep(x)
      PROVE  heard[s] <= heard'[s] /\ heard'[s] <= clock /\ at'[s].arrived <= heard'[s]
  BY <1>3, <1>4, <1>5, <1>6, <1>8 DEF TeacherStep
<1>9. heard[s] <= heard'[s] /\ heard'[s] <= clock /\ at'[s].arrived <= heard'[s]
  BY <1>2, <1>5, <1>6, <1>7, <1>8, NextKinds
<1>10. heard'[s] \in Nat
  BY TypeStep DEF Base, TypeOK
<1> QED
  BY <1>0, <1>1, <1>9, <1>10

\* An outage ends the run, and counts from that run at least.
LEMMA Outages ==
  ASSUME Base, [Next]_vars
  PROVE  \/ unhealthyAt' = unhealthyAt
         \/ watch' = NoRun /\ unhealthyAt <= unhealthyAt' /\ lastRun <= unhealthyAt' /\ lastRun' = lastRun
<1>0. TypeOK /\ clock \in Nat /\ lastRun \in Nat /\ unhealthyAt \in Nat /\ lastRun <= clock
      /\ unhealthyAt <= clock
  BY DEF Base, TypeOK, ClockOK
<1>1. CASE UNCHANGED vars
  BY <1>1 DEF vars, run
<1>2. CASE Restart
  BY <1>0, <1>2 DEF Restart
<1>3. CASE WatchReads
  <2>1. watch.now = lastRun /\ unhealthyAt <= lastRun /\ lastRun' = lastRun
    BY <1>3 DEF WatchReads, Base, ClockOK
  <2> QED
    BY <1>0, <1>3, <2>1, ReadsEffect
<1>4. ASSUME WorldStep, ~Restart  PROVE unhealthyAt' = unhealthyAt
  BY <1>4 DEF WorldStep, TeacherStarts, TeacherStops, HardwareChanges, Tick, TagChanges, run
<1>5. ASSUME NEW x \in Students, RunStep(x), ~WatchReads  PROVE unhealthyAt' = unhealthyAt
  BY <1>5 DEF RunStep, WatchBegin, WatchRecords, SessionStep, WatchOpens, WatchCloses,
              WatchKeepsSession, WatchEnds, WatchFails, WatchPicksUp, WatchPrompts,
              WatchPutsBack
<1>6. ASSUME NEW x \in Students, TeacherStep(x) \/ ReadingStep(x)  PROVE unhealthyAt' = unhealthyAt
  BY <1>6, OthersKeep
<1> QED
  BY <1>1, <1>2, <1>3, <1>4, <1>5, <1>6, NextKinds

LEMMA SinceIs ==
  ASSUME TypeOK, NEW s \in Students
  PROVE  Largest(Since(s), {sig[s]["face"].at, sig[s]["ble"].at, stillAt[s], watch.at[s].arrived,
                            From, unhealthyAt})
<1>1. /\ sig[s]["face"].at \in Nat /\ sig[s]["ble"].at \in Nat /\ stillAt[s] \in Nat
      /\ watch.at[s].arrived \in Nat /\ From \in Nat /\ unhealthyAt \in Nat
  BY PickupAssumption DEF TypeOK, SignalRow, Kinds, Watch
<1> QED
  BY <1>1, MaxOfSix DEF Since

\* Overdue for a pickup, and nobody marked since the records were read.
LEMMA OverdueIsSilent ==
  ASSUME Base, HeardOK, NEW s \in Students, watch.step = "read", s \in watch.pending, Overdue(s)
  PROVE  /\ Since(s) + AbsentFor <= watch.now
         /\ From + AbsentFor <= watch.now /\ unhealthyAt + AbsentFor <= watch.now
         /\ "mark" \notin late[s] => heard[s] + AbsentFor <= watch.now
<1>1. /\ TypeOK /\ AbsentFor \in Nat /\ watch.now \in Nat /\ From \in Nat /\ unhealthyAt \in Nat
      /\ heard[s] \in Nat /\ watch.at[s].arrived \in Nat /\ stillAt[s] \in Nat
      /\ \A k \in Kinds : sig[s][k].at \in Nat
  BY PickupAssumption DEF Base, TypeOK, SignalRow, Watch
<1>2. /\ Since(s) \in Nat /\ From <= Since(s) /\ unhealthyAt <= Since(s) /\ stillAt[s] <= Since(s)
      /\ watch.at[s].arrived <= Since(s) /\ \A k \in Kinds : sig[s][k].at <= Since(s)
  BY <1>1, SinceIs DEF Largest, Kinds
<1>3. Since(s) + AbsentFor <= watch.now
  BY <1>1, <1>2 DEF Overdue
<1>4. "mark" \notin late[s] => Counted(s, heard[s]) \/ heard[s] <= watch.at[s].arrived
  BY DEF HeardOK
<1>5. "mark" \notin late[s] => heard[s] <= Since(s)
  BY <1>1, <1>2, <1>4 DEF Counted
<1> QED
  BY <1>1, <1>2, <1>3, <1>5

\* What HeardOK says of one student.
HeardInTime(s) ==
  at[s].arrived <= heard[s] /\ heard[s] <= clock

HeardCounts(s) ==
  rec[s].status = "present" => Counted(s, heard[s]) \/ heard[s] <= at[s].arrived

HeardRead(s) ==
  watch.step \in {"session", "read"} /\ s \in watch.pending /\ "mark" \notin late[s]
    => Counted(s, heard[s]) \/ heard[s] <= watch.at[s].arrived

ArrivedRead(s) ==
  Running => /\ watch.at[s].arrived <= heard[s]
             /\ rec[s].status = "present" => watch.at[s].arrived <= at[s].arrived

SilenceRead(s) ==
  watch.todo[s] = "pick_up" =>
    /\ late[s] # {} \/ (heard[s] + AbsentFor <= watch.now /\ Since(s) + AbsentFor <= watch.now)
    /\ From + AbsentFor <= watch.now
    /\ unhealthyAt + AbsentFor <= watch.now

LEMMA HeardOKParts ==
  HeardOK <=> \A s \in Students :
                /\ HeardInTime(s) /\ HeardCounts(s) /\ HeardRead(s) /\ ArrivedRead(s)
                /\ SilenceRead(s)
BY DEF HeardOK, HeardInTime, HeardCounts, HeardRead, ArrivedRead, SilenceRead

LEMMA HeardTypes ==
  ASSUME TypeOK, NEW s \in Students
  PROVE  /\ heard[s] \in Nat /\ at[s].arrived \in Nat /\ stillAt[s] \in Nat
         /\ watch.at[s].arrived \in Nat /\ clock \in Nat /\ unhealthyAt \in Nat /\ lastRun \in Nat
         /\ watch.now \in Nat /\ late[s] \subseteq {"mark", "sight"} /\ taggedAt[s] \in Nat
         /\ \A k \in Kinds : sig[s][k].at \in Nat
BY DEF TypeOK, SignalRow, Watch

\* What s was heard of by counts on.
LEMMA CountedStays ==
  ASSUME Base, HeardOK, [Next]_vars, NEW s \in Students, Counted(s, heard[s])
  PROVE  (\E k \in Kinds : heard'[s] <= sig'[s][k].at) \/ heard'[s] <= stillAt'[s]
         \/ Marked(s)
<1>1. TypeOK /\ TypeOK'
  BY BaseStep DEF Base
<1>2. \A k \in Kinds : sig[s][k].at <= sig'[s][k].at
  BY SightGrows
<1>3. /\ heard[s] \in Nat /\ heard'[s] \in Nat /\ stillAt[s] \in Nat /\ stillAt'[s] \in Nat
      /\ \A k \in Kinds : sig[s][k].at \in Nat /\ sig'[s][k].at \in Nat
  BY <1>1 DEF TypeOK, SignalRow
<1>4. CASE Quiet(s)
  BY <1>4 DEF Quiet, SightKept, Counted
<1>5. CASE Sighted(s)
  BY <1>2, <1>3, <1>5 DEF Sighted, Counted
<1> QED
  BY <1>4, <1>5, SightKinds

LEMMA HeardCountsStep ==
  ASSUME Base, HeardOK, [Next]_vars, NEW s \in Students
  PROVE  HeardCounts(s)'
<1>1. TypeOK /\ TypeOK'
  BY BaseStep DEF Base
<1>2. /\ heard[s] \in Nat /\ heard'[s] \in Nat /\ at[s].arrived \in Nat /\ at'[s].arrived \in Nat
      /\ clock \in Nat /\ heard[s] <= clock
  BY <1>1, HeardTypes DEF TypeOK, HeardOK
<1>3. SUFFICES ASSUME rec'[s].status = "present",
                      ~(\E k \in Kinds : heard'[s] <= sig'[s][k].at), ~(heard'[s] <= stillAt'[s])
               PROVE  heard'[s] <= at'[s].arrived
  BY DEF HeardCounts, Counted
<1>4. CASE Marked(s)
  BY <1>2, <1>4 DEF Marked
<1>5. CASE ~Marked(s)
  <2>1. heard'[s] = heard[s]
    BY <1>3, <1>5, SightKinds DEF Quiet, Sighted
  <2>2. ~Counted(s, heard[s])
    BY <1>3, <1>5, CountedStays
  <2>3. CASE rec[s].status = "present" /\ at'[s].arrived = at[s].arrived
    BY <2>1, <2>2, <2>3 DEF HeardOK
  <2>4. CASE at'[s].arrived = clock
    BY <1>2, <2>1, <2>4
  <2> QED
    BY <1>3, <2>3, <2>4, ArrivedKinds
<1> QED
  BY <1>4, <1>5

LEMMA HeardReadStep ==
  ASSUME Base, HeardOK, [Next]_vars, NEW s \in Students
  PROVE  HeardRead(s)'
<1>1. TypeOK /\ TypeOK'
  BY BaseStep DEF Base
<1>2. SUFFICES ASSUME watch'.step \in {"session", "read"}, s \in watch'.pending, "mark" \notin late'[s],
                      ~(\E k \in Kinds : heard'[s] <= sig'[s][k].at), ~(heard'[s] <= stillAt'[s])
               PROVE  heard'[s] <= watch'.at[s].arrived
  BY DEF HeardRead, Counted
<1>3. ~Marked(s)
  BY <1>2 DEF Marked
<1>4. heard'[s] = heard[s] /\ ~Counted(s, heard[s])
  BY <1>2, <1>3, SightKinds, CountedStays DEF Quiet, Sighted
<1>5. CASE watch' = watch \/ SessionStep
  <2>1. watch.step \in {"session", "read"} /\ watch'.at = watch.at /\ watch'.pending = watch.pending
    BY <1>1, <1>2, <1>5, SessionEffect, NoRunFields DEF SameRun
  <2>2. ~WatchRecords /\ ~WatchReads
    BY <1>1, <1>2, <2>1, RecordsEffect, ReadsEffect, NoRunFields
  <2>3. "mark" \notin late[s]
    BY <1>2, <1>3, <2>2, SightKinds DEF Quiet, Sighted
  <2> QED
    BY <1>2, <1>4, <2>1, <2>3 DEF HeardOK
<1>6. CASE WatchRecords
  <2>1. watch'.at = at /\ rec[s].status = "present"
    BY <1>1, <1>2, <1>6, RecordsEffect, NoRunFields DEF Watched
  <2> QED
    BY <1>4, <2>1 DEF HeardOK
<1>7. CASE watch' = NoRun \/ WatchBegin \/ WatchReads \/ \E x \in Students : watch.step = "act" /\ TurnOver(x)
  BY <1>1, <1>2, <1>7, NoRunFields, BeginEffect, ReadsEffect DEF TurnOver
<1> QED
  BY <1>1, <1>5, <1>6, <1>7, WatchKinds

\* A run that is past its reading of the records keeps what it has read.
LEMMA RunningStays ==
  ASSUME TypeOK, [Next]_vars, Running'
  PROVE  \/ WatchRecords /\ watch'.at = at
         \/ ~WatchRecords /\ Running /\ SameRun
<1>1. watch'.step \in {"session", "read", "act"}
  BY DEF Running
<1>2. CASE WatchRecords
  BY <1>1, <1>2, RecordsEffect, NoRunFields
<1>3. CASE ~WatchRecords
  BY <1>1, <1>3, WatchKinds, SessionEffect, ReadsEffect, BeginEffect, NoRunFields
     DEF Running, TurnOver, SameRun
<1> QED
  BY <1>2, <1>3

LEMMA ArrivedReadStep ==
  ASSUME Base, HeardOK, [Next]_vars, NEW s \in Students
  PROVE  ArrivedRead(s)'
<1>1. TypeOK /\ TypeOK'
  BY BaseStep DEF Base
<1>2. SUFFICES ASSUME Running'
               PROVE  /\ watch'.at[s].arrived <= heard'[s]
                      /\ rec'[s].status = "present" => watch'.at[s].arrived <= at'[s].arrived
  BY DEF ArrivedRead
<1>3. /\ heard[s] \in Nat /\ heard'[s] \in Nat /\ at[s].arrived \in Nat /\ at'[s].arrived \in Nat
      /\ clock \in Nat /\ heard[s] <= clock /\ watch.at[s].arrived \in Nat
      /\ heard[s] <= heard'[s] /\ at'[s].arrived <= heard'[s]
  BY <1>1, HeardTypes, HeardGrows DEF TypeOK, HeardOK
<1>4. CASE WatchRecords /\ watch'.at = at
  <2>1. at' = at
    BY <1>4 DEF WatchRecords, day
  <2> QED
    BY <1>3, <1>4, <2>1
<1>5. CASE Running /\ SameRun
  <2>1. /\ watch'.at = watch.at /\ watch.at[s].arrived <= heard[s]
        /\ rec[s].status = "present" => watch.at[s].arrived <= at[s].arrived
    BY <1>5 DEF SameRun, HeardOK
  <2> QED
    BY <1>3, <2>1, ArrivedKinds
<1> QED
  BY <1>1, <1>2, <1>4, <1>5, RunningStays

LEMMA SilenceReadStep ==
  ASSUME Base, HeardOK, [Next]_vars, NEW s \in Students
  PROVE  SilenceRead(s)'
<1>1. TypeOK /\ TypeOK'
  BY BaseStep DEF Base
<1>2. SUFFICES ASSUME watch'.todo[s] = "pick_up"
               PROVE  /\ \/ late'[s] # {}
                         \/ heard'[s] + AbsentFor <= watch'.now /\ Since(s)' + AbsentFor <= watch'.now
                      /\ From + AbsentFor <= watch'.now
                      /\ unhealthyAt' + AbsentFor <= watch'.now
  BY DEF SilenceRead
<1>3. watch' # NoRun /\ unhealthyAt' = unhealthyAt
  BY <1>2, NoRunFields, Outages DEF NothingToDo
<1>4. watch'.step = "act" /\ Running'
  BY <1>2, BaseStep DEF Base, RunOK, Running
<1>5. ~WatchRecords /\ SameRun
  BY <1>1, <1>3, <1>4, RunningStays, RecordsEffect
<1>6. CASE WatchReads
  <2>1. watch.step = "read" /\ Decided(s) = "pick_up"
    BY <1>1, <1>2, <1>3, <1>6, ReadsEffect
  <2>2. s \in watch.pending /\ Overdue(s)
    BY <2>1 DEF Decided, DecidePickupAction
  <2>3. /\ UNCHANGED <<sig, stillAt, heard>> /\ late' = [t \in Students |-> late[t] \ {"sight"}]
    BY <1>6 DEF WatchReads, prompts
  <2>4. Since(s)' = Since(s)
    BY <1>3, <1>5, <2>3 DEF Since, SameRun
  <2>5. "mark" \in late[s] => late'[s] # {}
    BY <2>3
  <2> QED
    BY <1>3, <1>5, <2>2, <2>1, <2>3, <2>4, <2>5, OverdueIsSilent DEF SameRun
<1>7. CASE ~WatchReads
  <2>1. watch.todo[s] = "pick_up"
    <3>1. CASE watch' = watch
      BY <1>2, <3>1
    <3>2. CASE \E x \in Students : TurnOver(x)
      BY <1>2, <3>2 DEF TurnOver
    <3>3. ~WatchBegin /\ ~SessionStep
      BY <1>1, <1>3, <1>4, BeginEffect, SessionEffect
    <3> QED
      BY <1>1, <1>3, <1>5, <1>7, <3>1, <3>2, <3>3, WatchKinds
  <2>2. CASE Quiet(s)
    <3>1. late'[s] = late[s] /\ heard'[s] = heard[s] /\ SightKept(s)
      BY <1>5, <1>7, <2>2 DEF Quiet
    <3>2. Since(s)' = Since(s)
      BY <1>3, <1>5, <3>1 DEF Since, SightKept, SameRun
    <3> QED
      BY <1>3, <1>5, <2>1, <3>1, <3>2 DEF HeardOK, SameRun
  <2>3. CASE late'[s] # {}
    BY <1>3, <1>5, <2>1, <2>3 DEF HeardOK, SameRun
  <2> QED
    BY <2>2, <2>3, SightKinds DEF Sighted, Marked
<1> QED
  BY <1>6, <1>7

LEMMA HeardStep == Base /\ HeardOK /\ [Next]_vars => HeardOK'
<1> SUFFICES ASSUME Base, HeardOK, [Next]_vars  PROVE HeardOK'
  OBVIOUS
<1>1. ASSUME NEW s \in Students  PROVE HeardInTime(s)'
  BY HeardGrows DEF HeardInTime
<1>2. \A s \in Students : /\ HeardInTime(s)' /\ HeardCounts(s)' /\ HeardRead(s)' /\ ArrivedRead(s)'
                          /\ SilenceRead(s)'
  BY <1>1, HeardCountsStep, HeardReadStep, ArrivedReadStep, SilenceReadStep
<1>3. (\A s \in Students : /\ HeardInTime(s) /\ HeardCounts(s) /\ HeardRead(s) /\ ArrivedRead(s)
                           /\ SilenceRead(s))' => HeardOK'
  BY HeardOKParts, PTL
<1> QED
  BY <1>2, <1>3

LEMMA HeardInit == Init => HeardOK
BY NoRunFields DEF Init, HeardOK, Running, NothingToDo

LEMMA HeardAlways == Spec => [](Base /\ HeardOK)
BY HeardInit, HeardStep, BaseAlways, PTL DEF Spec

\* A new automatic pickup is one a run has decided on.
LEMMA NewAuto ==
  ASSUME Base, [Next]_vars, NEW s \in Students, ~rec[s].auto, rec'[s].auto
  PROVE  WatchPicksUp(s) /\ StillHere(rec[s]) /\ watch.todo[s] = "pick_up"
BY AutoKept DEF WatchPicksUp

\* The watch marks nobody who was heard of within the silence it waits for, in the
\* window and with the hardware up, the news apart that came after the run had read.
THEOREM SilenceIsNeeded == Spec => PickupNeedsSilence
<1>1. Base /\ HeardOK /\ [Next]_vars =>
        [\A s \in Students :
           ~rec[s].auto /\ rec'[s].auto =>
             /\ \/ late[s] # {}
                \/ heard[s] + AbsentFor <= watch.now
             /\ From + AbsentFor <= watch.now
             /\ unhealthyAt + AbsentFor <= watch.now]_vars
  BY NewAuto DEF HeardOK
<1> QED
  BY <1>1, HeardAlways, PTL DEF Spec, PickupNeedsSilence

----------------------------------------------------------------------------
(* How long a silence can be *)

LEMMA SilentFromIs ==
  ASSUME TypeOK, NEW s \in Students
  PROVE  Largest(SilentFrom(s), {sig[s]["face"].at, sig[s]["ble"].at, stillAt[s], at[s].arrived,
                                 From, unhealthyAt, taggedAt[s]})
<1>1. /\ sig[s]["face"].at \in Nat /\ sig[s]["ble"].at \in Nat /\ stillAt[s] \in Nat
      /\ at[s].arrived \in Nat /\ From \in Nat /\ unhealthyAt \in Nat /\ taggedAt[s] \in Nat
  BY PickupAssumption DEF TypeOK, SignalRow, Kinds
<1> QED
  BY <1>1, MaxOfSeven DEF SilentFrom

LEMMA SilentFromNext ==
  ASSUME TypeOK', NEW s \in Students
  PROVE  Largest(SilentFrom(s)', {sig'[s]["face"].at, sig'[s]["ble"].at, stillAt'[s], at'[s].arrived,
                                  From, unhealthyAt', taggedAt'[s]})
<1>1. /\ sig'[s]["face"].at \in Nat /\ sig'[s]["ble"].at \in Nat /\ stillAt'[s] \in Nat
      /\ at'[s].arrived \in Nat /\ From \in Nat /\ unhealthyAt' \in Nat /\ taggedAt'[s] \in Nat
  BY PickupAssumption DEF TypeOK, SignalRow, Kinds
<1> QED
  BY <1>1, MaxOfSeven DEF SilentFrom

\* s was heard of, or the counting began anew, since the last run.
Level(s) == lastRun <= SilentFrom(s)

\* What can end a silence.
LEMMA SilentBounds ==
  ASSUME TypeOK, NEW s \in Students
  PROVE  /\ SilentFrom(s) \in Nat /\ at[s].arrived <= SilentFrom(s) /\ From <= SilentFrom(s)
         /\ unhealthyAt <= SilentFrom(s) /\ taggedAt[s] <= SilentFrom(s)
         /\ stillAt[s] <= SilentFrom(s) /\ \A k \in Kinds : sig[s][k].at <= SilentFrom(s)
BY SilentFromIs DEF Largest, Kinds

LEMMA SilentBoundsNext ==
  ASSUME TypeOK', NEW s \in Students
  PROVE  /\ SilentFrom(s)' \in Nat /\ at'[s].arrived <= SilentFrom(s)' /\ From <= SilentFrom(s)'
         /\ unhealthyAt' <= SilentFrom(s)' /\ taggedAt'[s] <= SilentFrom(s)'
         /\ stillAt'[s] <= SilentFrom(s)' /\ \A k \in Kinds : sig'[s][k].at <= SilentFrom(s)'
BY SilentFromNext DEF Largest, Kinds

\* Tags change at this instant.
LEMMA TagKinds ==
  ASSUME Base, [Next]_vars, NEW s \in Students
  PROVE  \/ tagged'[s] = tagged[s] /\ taggedAt'[s] = taggedAt[s]
         \/ taggedAt'[s] = clock /\ UNCHANGED <<rec, at, watch, lastRun, check, failed>>
<1>1. CASE UNCHANGED vars
  BY <1>1 DEF vars, env
<1>2. ASSUME NEW x \in Students, TagChanges(x)
      PROVE  \/ tagged'[s] = tagged[s] /\ taggedAt'[s] = taggedAt[s]
             \/ taggedAt'[s] = clock /\ UNCHANGED <<rec, at, watch, lastRun, check, failed>>
  BY <1>2 DEF TagChanges, Base, TypeOK, day, prompts, run
<1>3. ASSUME WorldStep, ~\E x \in Students : TagChanges(x)  PROVE UNCHANGED <<tagged, taggedAt>>
  BY <1>3 DEF WorldStep, TeacherStarts, TeacherStops, HardwareChanges, Restart, Tick, env
<1>4. ASSUME NEW x \in Students, RunStep(x)  PROVE UNCHANGED <<tagged, taggedAt>>
  BY <1>4 DEF RunStep, WatchBegin, WatchRecords, SessionStep, WatchOpens, WatchCloses,
              WatchKeepsSession, WatchReads, WatchEnds, WatchFails, WatchPicksUp, WatchPrompts,
              WatchPutsBack, env
<1>5. ASSUME NEW x \in Students, TeacherStep(x) \/ ReadingStep(x)  PROVE UNCHANGED <<tagged, taggedAt>>
  BY <1>5, OthersKeep
<1> QED
  BY <1>1, <1>2, <1>3, <1>4, <1>5, NextKinds

\* The silence about a present student never begins earlier than it did; it begins
\* at this instant for one who was not present, or not tagged.
LEMMA SilentGrows ==
  ASSUME Base, HeardOK, [Next]_vars, NEW s \in Students, rec'[s].status = "present"
  PROVE  /\ rec[s].status = "present" => SilentFrom(s) <= SilentFrom(s)'
         /\ rec[s].status # "present" => clock <= SilentFrom(s)'
         /\ taggedAt'[s] # taggedAt[s] \/ tagged'[s] # tagged[s] => clock <= SilentFrom(s)'
<1>1. TypeOK /\ TypeOK'
  BY BaseStep DEF Base
<1>2. /\ at[s].arrived \in Nat /\ clock \in Nat /\ at[s].arrived <= clock /\ taggedAt[s] \in Nat
      /\ taggedAt[s] <= clock /\ unhealthyAt \in Nat /\ stillAt[s] \in Nat
      /\ \A k \in Kinds : sig[s][k].at \in Nat
  BY <1>1, HeardTypes DEF Base, ClockOK
<1>3. /\ at'[s].arrived \in Nat /\ taggedAt'[s] \in Nat /\ unhealthyAt' \in Nat /\ stillAt'[s] \in Nat
      /\ \A k \in Kinds : sig'[s][k].at \in Nat
  BY <1>1 DEF TypeOK, SignalRow
<1>4. \A k \in Kinds : sig[s][k].at <= sig'[s][k].at
  BY SightGrows
<1>5. stillAt[s] <= stillAt'[s]
  BY <1>2, SightKinds DEF Quiet, Sighted, Marked, SightKept
<1>6. taggedAt[s] <= taggedAt'[s] /\ unhealthyAt <= unhealthyAt'
  BY <1>2, TagKinds, Outages
<1>7. rec[s].status = "present" => at[s].arrived <= at'[s].arrived
  BY <1>2, ArrivedKinds
<1>8. rec[s].status # "present" => at'[s].arrived = clock
  BY ArrivedKinds
<1>9. /\ SilentFrom(s)' \in Nat /\ at'[s].arrived <= SilentFrom(s)' /\ From <= SilentFrom(s)'
      /\ unhealthyAt' <= SilentFrom(s)' /\ taggedAt'[s] <= SilentFrom(s)'
      /\ stillAt'[s] <= SilentFrom(s)' /\ \A k \in Kinds : sig'[s][k].at <= SilentFrom(s)'
  BY <1>1, SilentBoundsNext
<1>10. SilentFrom(s) \in {sig[s]["face"].at, sig[s]["ble"].at, stillAt[s], at[s].arrived,
                          From, unhealthyAt, taggedAt[s]}
  BY <1>1, SilentFromIs DEF Largest
<1>11. rec[s].status = "present" => SilentFrom(s) <= SilentFrom(s)'
  <2> SUFFICES ASSUME rec[s].status = "present"  PROVE SilentFrom(s) <= SilentFrom(s)'
    OBVIOUS
  <2>1. CASE SilentFrom(s) \in {sig[s]["face"].at, sig[s]["ble"].at}
    BY <1>2, <1>3, <1>4, <1>9, <2>1 DEF Kinds
  <2>2. CASE SilentFrom(s) \in {stillAt[s], at[s].arrived, From, unhealthyAt, taggedAt[s]}
    BY <1>2, <1>3, <1>5, <1>6, <1>7, <1>9, <2>2
  <2> QED
    BY <1>10, <2>1, <2>2
<1>12. rec[s].status # "present" => clock <= SilentFrom(s)'
  BY <1>8, <1>9
<1>13. taggedAt'[s] # taggedAt[s] \/ tagged'[s] # tagged[s] => clock <= SilentFrom(s)'
  BY <1>9, TagKinds
<1> QED
  BY <1>11, <1>12, <1>13

\* A run counts no silence longer than it is.
LEMMA SinceEarlier ==
  ASSUME Base, HeardOK, NEW s \in Students, Running, rec[s].status = "present"
  PROVE  Since(s) \in Nat /\ Since(s) <= SilentFrom(s)
<1>1. TypeOK
  BY DEF Base
<1>2. Largest(Since(s), {sig[s]["face"].at, sig[s]["ble"].at, stillAt[s], watch.at[s].arrived,
                         From, unhealthyAt})
  BY <1>1, SinceIs
<1>3. watch.at[s].arrived <= at[s].arrived
  BY DEF HeardOK
<1>4. watch.at[s].arrived \in Nat /\ at[s].arrived \in Nat
  BY <1>1, HeardTypes
<1> QED
  BY <1>1, <1>2, <1>3, <1>4, SilentBounds DEF Largest, Kinds

----------------------------------------------------------------------------
(* Prompts end, and who came back is put back *)

LEMMA Timers ==
  /\ RunEvery \in Nat /\ PromptEvery \in Nat /\ PromptTTL \in Nat /\ AbsentFor \in Nat
  /\ 1 <= RunEvery /\ 1 <= PromptEvery /\ 1 <= PromptTTL /\ RunEvery <= PromptEvery
  /\ PromptEvery + PromptTTL + RunEvery <= AbsentFor
BY PickupAssumption, TimersAssumption

LEMMA Instants ==
  ASSUME Base, [Next]_vars, NEW s \in Students
  PROVE  /\ TypeOK /\ TypeOK' /\ Base'
         /\ clock \in Nat /\ lastRun \in Nat /\ lastRun' \in Nat /\ SilentFrom(s) \in Nat
         /\ SilentFrom(s)' \in Nat /\ check[s].expires \in Nat /\ check'[s].expires \in Nat
         /\ lastRun <= clock /\ clock <= lastRun + RunEvery /\ lastRun <= lastRun'
         /\ (lastRun' = lastRun \/ (WatchBegin /\ lastRun' = clock))
<1>1. TypeOK /\ TypeOK' /\ Base'
  BY BaseStep DEF Base
<1>2. /\ clock \in Nat /\ lastRun \in Nat /\ lastRun' \in Nat /\ SilentFrom(s) \in Nat
      /\ SilentFrom(s)' \in Nat /\ check[s].expires \in Nat /\ check'[s].expires \in Nat
  BY <1>1, SilentBounds, SilentBoundsNext DEF TypeOK, Prompt
<1>3. lastRun <= clock /\ clock <= lastRun + RunEvery /\ lastRun <= lastRun'
  BY PromptKinds, <1>1 DEF Base, ClockOK
<1>4. lastRun' = lastRun \/ (WatchBegin /\ lastRun' = clock)
  <2>1. CASE UNCHANGED vars
    BY <2>1 DEF vars, run
  <2>2. ASSUME WorldStep  PROVE lastRun' = lastRun
    BY <2>2 DEF WorldStep, TeacherStarts, TeacherStops, HardwareChanges, Restart, Tick, TagChanges, run
  <2>3. ASSUME NEW x \in Students, RunStep(x), ~WatchBegin  PROVE lastRun' = lastRun
    BY <2>3 DEF RunStep, WatchRecords, SessionStep, WatchOpens, WatchCloses,
                WatchKeepsSession, WatchReads, WatchEnds, WatchFails, WatchPicksUp, WatchPrompts,
                WatchPutsBack
  <2>4. WatchBegin => lastRun' = clock
    BY DEF WatchBegin
  <2> QED
    BY <2>1, <2>2, <2>3, <2>4, OthersKeep, NextKinds
<1> QED
  BY <1>1, <1>2, <1>3, <1>4

\* When a prompt about s expires changes only when a run prompts about s.
LEMMA ExpiryKinds ==
  ASSUME Base, [Next]_vars, NEW s \in Students
  PROVE  \/ check'[s].expires = check[s].expires
         \/ /\ WatchPrompts(s) /\ check'[s].expires = lastRun + PromptTTL
            /\ lastRun' = lastRun /\ watch.todo[s] = "prompt"
<1>1. CASE UNCHANGED <<check, stillAt>>
  BY <1>1
<1>2. ASSUME NEW x \in Students, WatchPrompts(x)
      PROVE  \/ check'[s].expires = check[s].expires
             \/ /\ WatchPrompts(s) /\ check'[s].expires = lastRun + PromptTTL
                /\ lastRun' = lastRun /\ watch.todo[s] = "prompt"
  <2>1. watch.now = lastRun /\ check \in [Students -> Prompt]
    BY <1>2 DEF WatchPrompts, Base, ClockOK, TypeOK
  <2> QED
    BY <1>2, <2>1 DEF WatchPrompts
<1>3. ASSUME NEW x \in Students, NEW answer \in {"still_here", "picked_up"}, NEW now \in 1..clock,
             Answer(x, answer, now)
      PROVE  check'[s].expires = check[s].expires
  BY <1>3, AnswerEffect DEF Base
<1> QED
  BY <1>1, <1>2, <1>3, PromptKinds, TypeStep DEF Base

\* What a run has to do about s is what it had to do, or what it now decides.
LEMMA TodoKinds ==
  ASSUME Base, [Next]_vars, NEW s \in Students, watch'.todo[s] # "nothing"
  PROVE  /\ lastRun' = lastRun /\ SameRun /\ Running' /\ ~WatchRecords
         /\ \/ watch'.todo[s] = watch.todo[s]
            \/ WatchReads /\ watch.step = "read" /\ watch'.todo[s] = Decided(s)
<1>1. TypeOK /\ watch'.step = "act" /\ watch' # NoRun
  BY BaseStep, NoRunFields DEF Base, RunOK, NothingToDo
<1>2. Running'
  BY <1>1 DEF Running
<1>3. ~WatchRecords /\ SameRun
  BY <1>1, <1>2, RunningStays, RecordsEffect
<1>4. ~WatchBegin /\ ~SessionStep
  BY <1>1, BeginEffect, SessionEffect
<1>5. \/ watch'.todo[s] = watch.todo[s]
      \/ WatchReads /\ watch.step = "read" /\ watch'.todo[s] = Decided(s)
  BY <1>1, <1>3, <1>4, WatchKinds, ReadsEffect DEF TurnOver
<1> QED
  BY <1>2, <1>3, <1>4, <1>5, Instants

LEMMA PromptsEndStep == Base /\ HeardOK /\ PromptsEnd /\ [Next]_vars => PromptsEnd'
<1> SUFFICES ASSUME Base, HeardOK, PromptsEnd, [Next]_vars, NEW s \in Students,
                    rec'[s].status = "present"
             PROVE  /\ check'[s].expires < SilentFrom(s)' + AbsentFor + PromptTTL
                    /\ watch'.todo[s] = "prompt" => lastRun' < SilentFrom(s)' + AbsentFor
  BY DEF PromptsEnd, Soon
<1>1. /\ clock \in Nat /\ lastRun \in Nat /\ lastRun' \in Nat /\ SilentFrom(s) \in Nat
      /\ SilentFrom(s)' \in Nat /\ check[s].expires \in Nat /\ check'[s].expires \in Nat
      /\ lastRun <= clock
  BY Instants
<1>2. check[s].expires <= lastRun + PromptTTL
  BY DEF Base, PromptsOK
<1>3. CASE rec[s].status # "present"
  <2>1. clock <= SilentFrom(s)'
    BY <1>3, SilentGrows
  <2>2. check'[s].expires <= lastRun + PromptTTL
    BY <1>2, ExpiryKinds, <1>1, Timers
  <2>3. watch'.todo[s] = "prompt" => lastRun' = lastRun
    BY TodoKinds
  <2> QED
    BY <1>1, <2>1, <2>2, <2>3, Timers
<1>4. CASE rec[s].status = "present"
  <2>1. SilentFrom(s) <= SilentFrom(s)'
    BY <1>4, SilentGrows
  <2>2. /\ check[s].expires < SilentFrom(s) + AbsentFor + PromptTTL
        /\ watch.todo[s] = "prompt" => lastRun < SilentFrom(s) + AbsentFor
    BY <1>4 DEF PromptsEnd, Soon
  <2>3. check'[s].expires < SilentFrom(s)' + AbsentFor + PromptTTL
    BY <1>1, <2>1, <2>2, ExpiryKinds, Timers
  <2>4. ASSUME watch.step = "read", Decided(s) = "prompt"  PROVE lastRun < SilentFrom(s) + AbsentFor
    <3>1. ~Overdue(s) /\ watch.now = lastRun /\ Running
      BY <2>4 DEF Decided, DecidePickupAction, Base, ClockOK, Running
    <3>2. Since(s) \in Nat /\ Since(s) <= SilentFrom(s)
      BY <1>4, <3>1, SinceEarlier
    <3> QED
      BY <1>1, <3>1, <3>2, Timers DEF Overdue
  <2>5. watch'.todo[s] = "prompt" => lastRun' < SilentFrom(s)' + AbsentFor
    BY <1>1, <2>1, <2>2, <2>4, TodoKinds, Timers
  <2> QED
    BY <2>3, <2>5
<1> QED
  BY <1>3, <1>4

\* A run ends in this step.
RunIsOver == watch'.step = "idle" /\ watch.step # "idle"

LEMMA OverKinds ==
  ASSUME Base, [Next]_vars, RunIsOver, ~failed', NEW s \in Students
  PROVE  /\ lastRun' = lastRun
         /\ \/ lastRun < From \/ To <= lastRun
            \/ lastRun <= unhealthyAt'
            \/ watch.step = "session" /\ watch.pending \cup watch.picked = {}
            \/ watch.step = "act" /\ watch.todo[s] = "nothing"
<1>0. TypeOK /\ From \in Nat /\ To \in Nat /\ lastRun \in Nat
  BY PickupAssumption DEF Base, TypeOK
<1>1. lastRun' = lastRun
  BY Instants, BeginEffect DEF RunIsOver
<1>2. CASE UNCHANGED vars
  BY <1>2 DEF vars, run, RunIsOver
<1>3. CASE WorldStep
  <2>1. CASE Restart
    BY <2>1, Instants DEF Restart
  <2>2. ASSUME ~Restart  PROVE watch' = watch
    BY <1>3, <2>2 DEF WorldStep, TeacherStarts, TeacherStops, HardwareChanges, Tick, TagChanges, run
  <2> QED
    BY <1>1, <2>1, <2>2 DEF RunIsOver
<1>4. ASSUME NEW x \in Students, RunStep(x)
      PROVE  \/ lastRun < From \/ To <= lastRun
             \/ lastRun <= unhealthyAt'
             \/ watch.step = "session" /\ watch.pending \cup watch.picked = {}
             \/ watch.step = "act" /\ watch.todo[s] = "nothing"
  <2>1. CASE WatchRecords
    <3>1. ~InWindow(watch.now) /\ watch.now = lastRun
      BY <1>0, <2>1, RecordsEffect DEF RunIsOver, Base, ClockOK
    <3> QED
      BY <1>0, <3>1 DEF InWindow
  <2>2. CASE SessionStep
    BY <1>0, <2>2, SessionEffect DEF RunIsOver
  <2>3. CASE WatchReads
    <3>1. unhealthyAt' = watch.now /\ watch.now = lastRun
      BY <1>0, <2>3, ReadsEffect DEF RunIsOver, Base, ClockOK
    <3> QED
      BY <1>0, <3>1
  <2>4. CASE WatchEnds
    BY <2>4 DEF WatchEnds, NothingToDo
  <2>5. ~WatchFails
    BY DEF WatchFails
  <2>6. ~WatchBegin
    BY <1>0, BeginEffect DEF RunIsOver
  <2>7. ~WatchPicksUp(x) /\ ~WatchPrompts(x) /\ ~WatchPutsBack(x)
    BY <1>0, DidEffect DEF WatchPicksUp, WatchPrompts, WatchPutsBack, RunIsOver
  <2> QED
    BY <1>4, <2>1, <2>2, <2>3, <2>4, <2>5, <2>6, <2>7 DEF RunStep
<1>5. ASSUME NEW x \in Students, TeacherStep(x) \/ ReadingStep(x)  PROVE watch' = watch
  BY <1>5, OthersKeep
<1> QED
  BY <1>1, <1>2, <1>3, <1>4, <1>5, NextKinds DEF RunIsOver

\* The turn of s comes by the run's write, or a failure.
LEMMA TurnKinds ==
  ASSUME Base, [Next]_vars, ~failed', NEW s \in Students, watch.todo[s] # "nothing",
         watch'.todo[s] = "nothing"
  PROVE  WatchPicksUp(s) \/ WatchPrompts(s) \/ WatchPutsBack(s) \/ Restart
<1>0. TypeOK /\ watch.step = "act"
  BY DEF Base, RunOK
<1>1. ASSUME NEW x \in Students, RunStep(x)  PROVE WatchPicksUp(s) \/ WatchPrompts(s) \/ WatchPutsBack(s)
  <2>1. ~WatchBegin /\ ~WatchRecords /\ ~SessionStep /\ ~WatchReads
    BY <1>0, BeginEffect, RecordsEffect, SessionEffect, ReadsEffect
  <2>2. ~WatchEnds
    BY DEF WatchEnds, NothingToDo
  <2>3. ~WatchFails
    BY DEF WatchFails
  <2>4. WatchPicksUp(x) \/ WatchPrompts(x) \/ WatchPutsBack(x)
    BY <1>1, <2>1, <2>2, <2>3 DEF RunStep
  <2>5. x = s
    BY <1>0, <2>4, DidEffect DEF WatchPicksUp, WatchPrompts, WatchPutsBack
  <2> QED
    BY <2>4, <2>5
<1>2. ASSUME WorldStep, ~Restart  PROVE watch' = watch
  BY <1>2 DEF WorldStep, TeacherStarts, TeacherStops, HardwareChanges, Tick, TagChanges, run
<1>3. ASSUME NEW x \in Students, TeacherStep(x) \/ ReadingStep(x)  PROVE watch' = watch
  BY <1>3, OthersKeep
<1>4. CASE UNCHANGED vars
  BY <1>4 DEF vars, run
<1> QED
  BY <1>1, <1>2, <1>3, <1>4, NextKinds

LEMMA FailedStays == ASSUME [Next]_vars, failed  PROVE failed'
<1>1. CASE UNCHANGED vars
  BY <1>1 DEF vars, run
<1>2. CASE WorldStep
  BY <1>2 DEF WorldStep, TeacherStarts, TeacherStops, HardwareChanges, Restart, Tick, TagChanges, run
<1>3. ASSUME NEW x \in Students, RunStep(x)  PROVE failed'
  BY <1>3 DEF RunStep, WatchBegin, WatchRecords, SessionStep, WatchOpens, WatchCloses,
              WatchKeepsSession, WatchReads, WatchEnds, WatchFails, WatchPicksUp, WatchPrompts,
              WatchPutsBack
<1> QED
  BY <1>1, <1>2, <1>3, OthersKeep, NextKinds

\* How a step of a run that goes on changes what it does about s.
LEMMA GoesOn ==
  ASSUME Base, [Next]_vars, NEW s \in Students, watch'.step # "idle"
  PROVE  \/ watch' = watch
         \/ watch.step = "idle" /\ watch'.step = "records"
         \/ /\ WatchRecords /\ watch.step = "records" /\ watch'.step = "session"
            /\ watch'.pending = {t \in Students : Watched(t) /\ ~rec[t].picked}
            /\ watch'.picked = {t \in Students : Watched(t) /\ rec[t].picked /\ rec[t].auto}
         \/ watch.step = "session" /\ watch'.step = "read" /\ SameRun
         \/ /\ WatchReads /\ watch.step = "read" /\ watch'.step = "act" /\ SameRun
            /\ watch'.todo[s] = Decided(s)
         \/ /\ watch.step = "act" /\ watch'.step = "act" /\ SameRun
            /\ watch'.todo[s] \in {watch.todo[s], "nothing"}
<1>1. TypeOK
  BY DEF Base
<1> QED
  BY <1>1, WatchKinds, BeginEffect, RecordsEffect, SessionEffect, ReadsEffect, NoRunFields
     DEF TurnOver

\* Who is back now was back before, or it is news at this instant.
LEMMA BackKinds ==
  ASSUME Base, HeardOK, [Next]_vars, NEW s \in Students, Back(s)'
  PROVE  Back(s) \/ lastRun' <= SilentFrom(s)'
<1>1. /\ TypeOK /\ TypeOK' /\ clock \in Nat /\ lastRun \in Nat /\ lastRun' \in Nat
      /\ SilentFrom(s)' \in Nat /\ lastRun <= clock /\ lastRun <= lastRun'
      /\ lastRun' = lastRun \/ lastRun' = clock
  BY Instants
<1>2. /\ rec'[s].status = "present" /\ rec'[s].arrived /\ rec'[s].picked /\ rec'[s].auto
      /\ tagged'[s] /\ ~failed' /\ \A k \in Kinds : sig'[s][k].at > at'[s].picked
      /\ Verified(sig'[s]["face"], sig'[s]["ble"], lastRun')
  BY DEF Back
<1>3. SUFFICES ASSUME ~(lastRun' <= SilentFrom(s)')  PROVE Back(s)
  OBVIOUS
<1>4. ~(clock <= SilentFrom(s)')
  BY <1>1, <1>3
<1>5. tagged'[s] = tagged[s] /\ ~failed
  BY <1>2, <1>4, SilentGrows, FailedStays
<1>6. rec'[s] = rec[s] /\ at'[s].picked = at[s].picked
  <2>1. ASSUME at'[s].picked = lastRun, WatchPicksUp(s)  PROVE FALSE
    <3>1. lastRun' = lastRun
      BY <2>1 DEF WatchPicksUp
    <3>2. sig'[s]["face"].at > lastRun /\ sig'[s]["face"].at <= SilentFrom(s)' /\ sig'[s]["face"].at \in Nat
      BY <1>1, <1>2, <2>1, SilentBoundsNext DEF Kinds, TypeOK, SignalRow
    <3> QED
      BY <1>1, <1>3, <3>1, <3>2
  <2> QED
    BY <1>2, <2>1, AutoKept DEF Takes
<1>7. sig'[s] = sig[s]
  <2>1. ASSUME NEW x \in Students, ReadingStep(x), sig'[s] # sig[s]  PROVE FALSE
    <3>1. PICK kind \in Kinds, good \in BOOLEAN : Reading(x, kind, good)
      BY <2>1 DEF ReadingStep
    <3>2. ReadingEffectOn(x, kind) /\ sig' = [sig EXCEPT ![x] = sig'[x]]
      BY <1>1, <3>1, ReadingEffect DEF Reading, TypeOK
    <3>3. x = s
      BY <1>1, <2>1, <3>2 DEF TypeOK
    <3>4. sig'[s][kind].at = clock
      BY <3>2, <3>3 DEF ReadingEffectOn
    <3> QED
      BY <1>1, <1>4, <3>4, SilentBoundsNext
  <2>2. ASSUME NEW x \in Students, TeacherStep(x)  PROVE sig' = sig
    BY <1>1, <2>2, TeacherDay
  <2>3. ASSUME NEW x \in Students, RunStep(x)  PROVE sig' = sig
    BY <2>3 DEF RunStep, WatchBegin, WatchRecords, SessionStep, WatchOpens, WatchCloses,
                WatchKeepsSession, WatchReads, WatchEnds, WatchFails, WatchPicksUp, WatchPrompts,
                WatchPutsBack, sight
  <2>4. ASSUME WorldStep  PROVE sig' = sig
    BY <2>4 DEF WorldStep, TeacherStarts, TeacherStops, HardwareChanges, Restart, Tick, TagChanges,
                sight
  <2>5. ASSUME UNCHANGED vars  PROVE sig' = sig
    BY <2>5 DEF vars, sight
  <2> QED
    BY <2>1, <2>2, <2>3, <2>4, <2>5, NextKinds
<1>8. Verified(sig[s]["face"], sig[s]["ble"], lastRun)
  BY <1>1, <1>2, <1>7, VerifiedEarlier DEF TypeOK, Kinds
<1> QED
  BY <1>2, <1>5, <1>6, <1>7, <1>8 DEF Back

\* Untagged since the records were read.
TagsRead(s) ==
  watch.step # "idle" /\ s \in watch.pending \cup watch.picked /\ ~tagged[s]
    => lastRun <= taggedAt[s]

LEMMA TagsReadStep ==
  ASSUME Base, [Next]_vars, NEW s \in Students, TagsRead(s)
  PROVE  TagsRead(s)'
<1>1. SUFFICES ASSUME watch'.step # "idle", s \in watch'.pending \cup watch'.picked, ~tagged'[s]
               PROVE  lastRun' <= taggedAt'[s]
  BY DEF TagsRead
<1>2. /\ TypeOK /\ lastRun \in Nat /\ lastRun' \in Nat /\ clock \in Nat /\ lastRun <= clock
      /\ lastRun' = lastRun \/ WatchBegin
  BY Instants
<1>3. ~WatchBegin
  BY <1>1, <1>2, BeginEffect
<1>4. CASE taggedAt'[s] = clock
  BY <1>2, <1>3, <1>4
<1>5. CASE tagged'[s] = tagged[s] /\ taggedAt'[s] = taggedAt[s]
  <2>1. ~WatchRecords
    BY <1>1, <1>2, <1>5, RecordsEffect, NoRunFields DEF Watched
  <2>2. watch.step # "idle" /\ s \in watch.pending \cup watch.picked
    BY <1>1, <1>2, <1>3, <2>1, WatchKinds, SessionEffect, ReadsEffect, NoRunFields
       DEF SameRun, TurnOver
  <2> QED
    BY <1>1, <1>2, <1>3, <1>5, <2>2 DEF TagsRead
<1> QED
  BY <1>4, <1>5, TagKinds

BackInTime(s) ==
  Back(s) =>
    /\ lastRun <= SilentFrom(s) + (IF watch.step = "idle" THEN 0 ELSE RunEvery)
    /\ watch.step \in {"session", "read"} => lastRun <= SilentFrom(s) \/ s \in watch.picked
    /\ watch.step = "act" => lastRun <= SilentFrom(s) \/ watch.todo[s] = "put_back"

PutBackInTime(s) ==
  watch.todo[s] = "put_back" /\ rec[s].status = "present" /\ rec[s].auto /\ ~failed
    => lastRun <= SilentFrom(s) + RunEvery

LEMMA BackInTimeStep ==
  ASSUME Base, HeardOK, SamePickup, [Next]_vars, NEW s \in Students, lastRun' < To,
         BackInTime(s)
  PROVE  BackInTime(s)'
<1>1. SUFFICES ASSUME Back(s)', ~(lastRun' <= SilentFrom(s)')
               PROVE  /\ watch'.step # "idle" /\ lastRun' <= SilentFrom(s)' + RunEvery
                      /\ watch'.step \in {"session", "read"} => s \in watch'.picked
                      /\ watch'.step = "act" => watch'.todo[s] = "put_back"
  <2>1. lastRun' \in Nat /\ SilentFrom(s)' \in Nat /\ RunEvery \in Nat
    BY Instants, Timers
  <2>2. CASE lastRun' <= SilentFrom(s)'
    BY <2>1, <2>2 DEF BackInTime
  <2>3. CASE ~(lastRun' <= SilentFrom(s)')
    BY <1>1, <2>1, <2>3 DEF BackInTime
  <2> QED
    BY <2>2, <2>3
<1>2. /\ TypeOK /\ clock \in Nat /\ lastRun \in Nat /\ lastRun' \in Nat /\ SilentFrom(s) \in Nat
      /\ SilentFrom(s)' \in Nat /\ lastRun <= clock /\ clock <= lastRun + RunEvery
      /\ lastRun <= lastRun' /\ (lastRun' = lastRun \/ (WatchBegin /\ lastRun' = clock))
      /\ RunEvery \in Nat /\ TypeOK'
  BY Instants, Timers
<1>3. Back(s)
  BY <1>1, BackKinds
<1>4. /\ rec[s].status = "present" /\ rec'[s].status = "present" /\ rec'[s].picked /\ rec'[s].auto
      /\ ~failed' /\ tagged[s] /\ rec[s].picked /\ rec[s].auto /\ rec[s].arrived
  BY <1>1, <1>3 DEF Back
<1>5. SilentFrom(s) <= SilentFrom(s)'
  BY <1>4, SilentGrows
<1>6. ~(lastRun <= SilentFrom(s)) \/ WatchBegin
  BY <1>1, <1>2, <1>5
<1>7. CASE WatchBegin
  <2>1. watch.step = "idle" /\ watch'.step = "records"
    BY <1>2, <1>7, BeginEffect
  <2>2. lastRun <= SilentFrom(s)
    BY <1>2, <1>3, <2>1 DEF BackInTime
  <2> QED
    BY <1>2, <1>5, <2>1, <2>2
<1>8. CASE ~WatchBegin
  <2>1. lastRun' = lastRun /\ ~(lastRun <= SilentFrom(s))
    BY <1>2, <1>6, <1>8
  <2>2. watch.step # "idle" /\ lastRun <= SilentFrom(s) + RunEvery
    BY <1>2, <1>3, <2>1 DEF BackInTime
  <2>3. watch.step \in {"session", "read"} => s \in watch.picked
    BY <1>3, <2>1 DEF BackInTime
  <2>4. watch.step = "act" => watch.todo[s] = "put_back"
    BY <1>3, <2>1 DEF BackInTime
  <2>5. ~RunIsOver
    <3>1. ~(lastRun' <= unhealthyAt') /\ From <= SilentFrom(s) /\ From \in Nat /\ To \in Nat
          /\ unhealthyAt' \in Nat
      BY <1>1, <1>2, SilentBounds, SilentBoundsNext, PickupAssumption DEF TypeOK
    <3> QED
      BY <1>2, <1>4, <2>1, <2>3, <2>4, <3>1, OverKinds
  <2>6. watch'.step # "idle"
    BY <2>2, <2>5 DEF RunIsOver
  <2>7. watch'.step \in {"session", "read"} => s \in watch'.picked
    BY <1>2, <1>4, <2>2, <2>3, <2>6, GoesOn DEF SameRun, Watched
  <2>8. watch'.step = "act" => watch'.todo[s] = "put_back"
    <3>1. CASE WatchReads /\ watch.step = "read" /\ watch'.todo[s] = Decided(s)
      <4>1. s \in watch.picked /\ s \notin watch.pending /\ watch.now = lastRun
        BY <2>3, <3>1 DEF Base, RunOK, ClockOK
      <4>2. at[s].picked = watch.at[s].picked
        BY <1>4, <3>1, <4>1 DEF SamePickup, Running
      <4>3. SeenAgain(s)
        BY <1>3, <4>1, <4>2 DEF SeenAgain, Back
      <4> QED
        BY <3>1, <4>1, <4>3 DEF Decided
    <3>2. CASE watch.step = "act" /\ watch.todo[s] = "put_back" /\ watch'.todo[s] = "nothing"
      <4>1. WatchPutsBack(s) \/ Restart
        BY <1>4, <3>2, TurnKinds DEF WatchPicksUp, WatchPrompts
      <4>2. ~Restart
        BY <2>6, NoRunFields DEF Restart
      <4>3. Returned(s)
        BY <1>2, <4>1, <4>2, PutBackEffect
      <4> QED
        BY <1>4, <4>3 DEF Returned
    <3>3. CASE watch.step = "act" /\ watch'.todo[s] = watch.todo[s]
      BY <2>4, <3>3
    <3> QED
      BY <2>2, <2>4, <2>6, <3>1, <3>2, <3>3, GoesOn
  <2> QED
    BY <1>2, <1>5, <2>1, <2>2, <2>6, <2>7, <2>8
<1> QED
  BY <1>7, <1>8

LEMMA PutBackInTimeStep ==
  ASSUME Base, HeardOK, SamePickup, [Next]_vars, NEW s \in Students, lastRun' < To,
         BackInTime(s), PutBackInTime(s), TagsRead(s)
  PROVE  PutBackInTime(s)'
<1>1. SUFFICES ASSUME watch'.todo[s] = "put_back", rec'[s].status = "present", rec'[s].auto, ~failed'
               PROVE  lastRun' <= SilentFrom(s)' + RunEvery
  BY DEF PutBackInTime
<1>2. /\ TypeOK /\ clock \in Nat /\ lastRun \in Nat /\ lastRun' \in Nat /\ SilentFrom(s) \in Nat
      /\ SilentFrom(s)' \in Nat /\ RunEvery \in Nat /\ taggedAt[s] \in Nat
  BY Instants, Timers, HeardTypes
<1>3. /\ lastRun' = lastRun
      /\ \/ watch.todo[s] = "put_back"
         \/ WatchReads /\ watch.step = "read" /\ Decided(s) = "put_back"
  BY <1>1, TodoKinds
<1>4. rec'[s] = rec[s] /\ ~failed
  <2>1. ~WatchPicksUp(s)
    BY <1>3 DEF WatchPicksUp, WatchReads
  <2> QED
    BY <1>1, <2>1, AutoKept, FailedStays
<1>5. SilentFrom(s) <= SilentFrom(s)'
  BY <1>1, <1>4, SilentGrows
<1>6. CASE watch.todo[s] = "put_back"
  BY <1>1, <1>2, <1>3, <1>4, <1>5, <1>6 DEF PutBackInTime
<1>7. CASE WatchReads /\ watch.step = "read" /\ Decided(s) = "put_back"
  <2>1. s \in watch.picked /\ SeenAgain(s) /\ watch.now = lastRun /\ Running
    BY <1>7 DEF Decided, DecidePickupAction, Base, ClockOK, Running
  <2>2. CASE ~tagged[s]
    <3>1. lastRun <= taggedAt[s]
      BY <1>7, <2>1, <2>2 DEF TagsRead
    <3>2. taggedAt[s] <= SilentFrom(s)
      BY <1>2, SilentBounds
    <3> QED
      BY <1>2, <1>3, <1>5, <3>1, <3>2
  <2>3. CASE tagged[s]
    <3>1. rec[s].arrived /\ rec[s].picked /\ rec[s].auto /\ rec[s].status = "present"
      BY <1>1, <1>4 DEF Base, RunOK
    <3>2. at[s].picked = watch.at[s].picked
      BY <2>1, <3>1 DEF SamePickup
    <3>3. Back(s)
      BY <1>4, <2>1, <2>3, <3>1, <3>2 DEF Back, SeenAgain
    <3>4. lastRun <= SilentFrom(s) + RunEvery
      BY <1>7, <3>3 DEF BackInTime
    <3> QED
      BY <1>2, <1>3, <1>5, <3>4
  <2> QED
    BY <2>2, <2>3
<1> QED
  BY <1>3, <1>6, <1>7

LEMMA BackOKParts ==
  BackOK <=> (lastRun < To => \A s \in Students : BackInTime(s) /\ PutBackInTime(s) /\ TagsRead(s))
BY DEF BackOK, BackInTime, PutBackInTime, TagsRead

LEMMA BackStep == Base /\ HeardOK /\ SamePickup /\ BackOK /\ [Next]_vars => BackOK'
<1> SUFFICES ASSUME Base, HeardOK, SamePickup, BackOK, [Next]_vars  PROVE BackOK'
  OBVIOUS
<1>1. ASSUME NEW s \in Students, lastRun' < To
      PROVE  BackInTime(s)' /\ PutBackInTime(s)' /\ TagsRead(s)'
  <2>1. lastRun < To
    BY <1>1, Instants, PickupAssumption
  <2>2. BackInTime(s) /\ PutBackInTime(s) /\ TagsRead(s)
    BY <2>1, BackOKParts
  <2> QED
    BY <1>1, <2>2, BackInTimeStep, PutBackInTimeStep, TagsReadStep
<1>2. (lastRun < To => \A s \in Students : BackInTime(s) /\ PutBackInTime(s) /\ TagsRead(s))' => BackOK'
  BY BackOKParts, PTL
<1> QED
  BY <1>1, <1>2

----------------------------------------------------------------------------
(* Every run settles who is here *)

LEMMA SettledNext ==
  ASSUME Base, [Next]_vars, NEW s \in Students, NEW more \in Nat, Settled(s, more),
         lastRun' = lastRun, SilentFrom(s) <= SilentFrom(s)'
  PROVE  Settled(s, more)'
<1>1. /\ lastRun \in Nat /\ SilentFrom(s) \in Nat /\ SilentFrom(s)' \in Nat
      /\ check[s].expires \in Nat /\ check'[s].expires \in Nat
  BY Instants
<1>2. check[s].expires <= check'[s].expires
  <2>1. check[s].expires <= lastRun + PromptTTL
    BY DEF Base, PromptsOK
  <2> QED
    BY <1>1, <2>1, ExpiryKinds
<1>3. /\ lastRun < SilentFrom(s) + (AbsentFor + PromptTTL - 1 + more)
      /\ \/ lastRun < SilentFrom(s) + (PromptEvery + PromptTTL + more)
         \/ lastRun < check[s].expires + PromptEvery + more
  BY DEF Settled, Soon
<1>4. /\ lastRun' < SilentFrom(s)' + (AbsentFor + PromptTTL - 1 + more)
      /\ \/ lastRun' < SilentFrom(s)' + (PromptEvery + PromptTTL + more)
         \/ lastRun' < check'[s].expires + PromptEvery + more
  BY <1>1, <1>2, <1>3, Timers
<1> QED
  BY <1>4 DEF Settled, Soon

\* A run so soon after the silence began has nothing to settle.
LEMMA SoonIsSettled ==
  ASSUME Base, [Next]_vars, NEW s \in Students, NEW more \in Nat,
         lastRun' <= SilentFrom(s)' + RunEvery
  PROVE  Settled(s, more)'
<1>1. lastRun' \in Nat /\ SilentFrom(s)' \in Nat
  BY Instants
<1>2. /\ lastRun' < SilentFrom(s)' + (AbsentFor + PromptTTL - 1 + more)
      /\ lastRun' < SilentFrom(s)' + (PromptEvery + PromptTTL + more)
  BY <1>1, Timers
<1> QED
  BY <1>2 DEF Settled, Soon

\* What a run decides settles a student it has read as waiting.
LEMMA DecidedSettles ==
  ASSUME Base, HeardOK, PromptsEnd, NEW s \in Students, watch.step = "read",
         s \in watch.pending, rec[s].status = "present"
  PROVE  \/ Settled(s, 0)
         \/ Decided(s) = "pick_up"
         \/ Decided(s) = "prompt" /\ Soon(s, AbsentFor + PromptTTL - 1)
<1>1. /\ TypeOK /\ lastRun \in Nat /\ SilentFrom(s) \in Nat /\ check[s].expires \in Nat
      /\ check[s].made \in Nat /\ watch.now = lastRun /\ Running
  BY SilentBounds DEF Base, TypeOK, Prompt, ClockOK, Running
<1>2. Since(s) \in Nat /\ Since(s) <= SilentFrom(s)
  BY <1>1, SinceEarlier
<1>3. check[s].expires < SilentFrom(s) + AbsentFor + PromptTTL
  BY DEF PromptsEnd
<1>4. Decided(s) = DecidePickupAction(s)
  BY DEF Decided
<1>5. CASE PromptOpen(s)
  <2>1. lastRun < check[s].expires
    BY <1>1, <1>5 DEF PromptOpen
  <2>2. lastRun < SilentFrom(s) + (AbsentFor + PromptTTL - 1 + 0)
        /\ lastRun < check[s].expires + PromptEvery + 0
    BY <1>1, <1>3, <2>1, Timers
  <2> QED
    BY <2>2 DEF Settled, Soon
<1>6. CASE ~PromptOpen(s) /\ Overdue(s)
  BY <1>4, <1>6 DEF DecidePickupAction
<1>7. CASE ~PromptOpen(s) /\ ~Overdue(s)
  <2>1. lastRun < SilentFrom(s) + AbsentFor
    BY <1>1, <1>2, <1>7, Timers DEF Overdue
  <2>2. lastRun < SilentFrom(s) + (AbsentFor + PromptTTL - 1)
        /\ lastRun < SilentFrom(s) + (AbsentFor + PromptTTL - 1 + 0)
    BY <1>1, <2>1, Timers
  <2>3. CASE PromptDue(s)
    BY <1>4, <1>7, <2>2, <2>3 DEF DecidePickupAction, Soon
  <2>4. CASE ~PromptDue(s)
    <3>1. \/ lastRun < SilentFrom(s) + (PromptEvery + PromptTTL + 0)
          \/ lastRun < check[s].expires + PromptEvery + 0
      BY <1>1, <1>2, <2>4, Timers DEF PromptDue
    <3> QED
      BY <2>2, <3>1 DEF Settled, Soon
  <2> QED
    BY <2>3, <2>4
<1> QED
  BY <1>5, <1>6, <1>7

SettledFor(s) ==
  Here(s) =>
    /\ Settled(s, IF watch.step = "idle" THEN 0 ELSE RunEvery)
    /\ watch.step \in {"session", "read"} => Settled(s, 0) \/ s \in watch.pending
    /\ watch.step = "act" =>
         \/ Settled(s, 0)
         \/ watch.todo[s] = "pick_up"
         \/ watch.todo[s] = "prompt" /\ Soon(s, AbsentFor + PromptTTL - 1)

LEMMA SettledOKParts == SettledOK <=> (lastRun < To => \A s \in Students : SettledFor(s))
BY DEF SettledOK, SettledFor

\* Who comes to be here in this step is news, or is put back in time.
LEMMA NewHere ==
  ASSUME Base, HeardOK, [Next]_vars, NEW s \in Students, PutBackInTime(s), Here(s)', ~Here(s)
  PROVE  lastRun' <= SilentFrom(s)' + RunEvery
<1>1. /\ TypeOK /\ clock \in Nat /\ lastRun \in Nat /\ lastRun' \in Nat /\ SilentFrom(s) \in Nat
      /\ SilentFrom(s)' \in Nat /\ lastRun <= clock /\ (lastRun' = lastRun \/ lastRun' = clock)
  BY Instants
<1>2. /\ rec'[s].status = "present" /\ rec'[s].arrived /\ ~rec'[s].picked /\ tagged'[s] /\ ~failed'
  BY DEF Here, StillHere
<1>3. ~failed
  BY <1>2, FailedStays
<1>4. CASE clock <= SilentFrom(s)'
  BY <1>1, <1>4, Timers
<1>5. CASE ~(clock <= SilentFrom(s)')
  <2>1. tagged[s] /\ rec[s].status = "present"
    BY <1>2, <1>5, SilentGrows
  <2>2. rec[s].arrived /\ rec[s].picked /\ rec'[s] # rec[s]
    BY <1>2, <1>3, <2>1 DEF Here, StillHere, Base, RunOK
  <2>3. at'[s].arrived # clock
    BY <1>1, <1>5, SilentBoundsNext, BaseStep DEF Base, TypeOK
  <2>4. ~Anew(s)
    BY <1>2, <2>3 DEF Anew
  <2>5. WatchPutsBack(s) /\ rec[s].auto
    <3>1. ~(UNCHANGED <<rec, at, told, returns>>)
      BY <2>2
    <3>2. PICK x \in Students :
              /\ Only(x)
              /\ \/ WatchPicksUp(x) /\ Wins(x, lastRun, TRUE)
                 \/ WatchPutsBack(x) /\ Returned(x) /\ told' = told
                 \/ TeacherStep(x)
                 \/ /\ ReadingStep(x) /\ UNCHANGED <<told, returns>>
                    /\ SameDay(x) \/ (Verifiable(rec[x]) /\ Anew(x) /\ rec'[x] = SystemMarked)
      BY <3>1, DayKinds
    <3>3. x = s
      BY <2>2, <3>2 DEF Only
    <3>4. ~Wins(s, lastRun, TRUE)
      BY <1>2, <2>2 DEF Wins, Takes, SameDay
    <3>5. ~TeacherStep(s)
      BY <1>1, <1>2, <2>2, <2>4, TeacherDay DEF SameDay, Takes
    <3> QED
      BY <2>2, <2>4, <3>2, <3>3, <3>4, <3>5 DEF SameDay, Returned
  <2>6. lastRun <= SilentFrom(s) + RunEvery /\ lastRun' = lastRun
    BY <1>3, <2>1, <2>5 DEF WatchPutsBack, PutBackInTime
  <2>7. SilentFrom(s) <= SilentFrom(s)'
    BY <1>2, <2>1, SilentGrows
  <2> QED
    BY <1>1, <2>6, <2>7, Timers
<1> QED
  BY <1>4, <1>5

\* Whoever stays here is settled by the run, or waits for his turn.
LEMMA StaysHere ==
  ASSUME Base, HeardOK, PromptsEnd, [Next]_vars, NEW s \in Students, lastRun' < To,
         Here(s), Here(s)', SettledFor(s)
  PROVE  SettledFor(s)'
<1>1. /\ TypeOK /\ TypeOK' /\ clock \in Nat /\ lastRun \in Nat /\ lastRun' \in Nat
      /\ SilentFrom(s) \in Nat /\ SilentFrom(s)' \in Nat /\ check[s].expires \in Nat
      /\ check'[s].expires \in Nat /\ lastRun <= clock /\ clock <= lastRun + RunEvery
      /\ lastRun <= lastRun' /\ (lastRun' = lastRun \/ (WatchBegin /\ lastRun' = clock))
      /\ RunEvery \in Nat
  BY Instants, Timers
<1>2. /\ rec[s].status = "present" /\ rec[s].arrived /\ ~rec[s].picked /\ tagged[s]
      /\ rec'[s].status = "present" /\ ~rec'[s].picked /\ ~failed'
  BY DEF Here, StillHere
<1>3. SilentFrom(s) <= SilentFrom(s)'
  BY <1>2, SilentGrows
<1>4. CASE WatchBegin
  <2>1. watch.step = "idle" /\ watch'.step = "records" /\ lastRun' = clock
    BY <1>1, <1>4, BeginEffect
  <2>2. /\ lastRun < SilentFrom(s) + (AbsentFor + PromptTTL - 1 + 0)
        /\ \/ lastRun < SilentFrom(s) + (PromptEvery + PromptTTL + 0)
           \/ lastRun < check[s].expires + PromptEvery + 0
    BY <2>1 DEF SettledFor, Settled, Soon
  <2>3. check'[s].expires = check[s].expires
    BY <1>4 DEF WatchBegin, prompts
  <2>4. /\ lastRun' < SilentFrom(s)' + (AbsentFor + PromptTTL - 1 + RunEvery)
        /\ \/ lastRun' < SilentFrom(s)' + (PromptEvery + PromptTTL + RunEvery)
           \/ lastRun' < check'[s].expires + PromptEvery + RunEvery
    BY <1>1, <1>3, <2>1, <2>2, <2>3, Timers
  <2> QED
    BY <2>1, <2>4 DEF SettledFor, Settled, Soon
<1>5. CASE ~WatchBegin
  <2>0. lastRun' = lastRun
    BY <1>1, <1>5
  <2>1. Settled(s, 0) => Settled(s, 0)'
    BY <1>3, <2>0, SettledNext
  <2>2. Settled(s, RunEvery) => Settled(s, RunEvery)'
    BY <1>1, <1>3, <2>0, SettledNext
  <2>3. Soon(s, AbsentFor + PromptTTL - 1) => Soon(s, AbsentFor + PromptTTL - 1)'
    <3>1. lastRun < SilentFrom(s) + (AbsentFor + PromptTTL - 1)
            => lastRun' < SilentFrom(s)' + (AbsentFor + PromptTTL - 1)
      BY <1>1, <1>3, <2>0, Timers
    <3> QED
      BY <3>1 DEF Soon
  <2>4. Settled(s, IF watch.step = "idle" THEN 0 ELSE RunEvery)
    BY DEF SettledFor
  <2>5. watch.step \in {"session", "read"} => Settled(s, 0) \/ s \in watch.pending
    BY DEF SettledFor
  <2>6. watch.step = "act" => \/ Settled(s, 0)
                              \/ watch.todo[s] = "pick_up"
                              \/ watch.todo[s] = "prompt" /\ Soon(s, AbsentFor + PromptTTL - 1)
    BY DEF SettledFor
  <2>7. CASE watch'.step = "idle"
    <3>1. CASE watch.step = "idle"
      <4>1. Settled(s, 0)'
        BY <2>1, <2>4, <3>1
      <4> QED
        BY <2>7, <4>1 DEF SettledFor
    <3>2. CASE watch.step # "idle"
      <4>1. RunIsOver
        BY <2>7, <3>2 DEF RunIsOver
      <4>2. CASE lastRun < From \/ lastRun <= unhealthyAt'
        <5>1. lastRun' <= SilentFrom(s)' + RunEvery
          BY <1>1, <2>0, <4>2, SilentBoundsNext, PickupAssumption DEF TypeOK
        <5>2. Settled(s, 0)'
          BY <5>1, SoonIsSettled
        <5> QED
          BY <2>7, <5>2 DEF SettledFor
      <4>3. CASE \/ watch.step = "session" /\ watch.pending \cup watch.picked = {}
                 \/ watch.step = "act" /\ watch.todo[s] = "nothing"
        <5>1. Settled(s, 0)'
          BY <2>1, <2>5, <2>6, <4>3
        <5> QED
          BY <2>7, <5>1 DEF SettledFor
      <4>4. ~(To <= lastRun)
        BY <1>1, <2>0, PickupAssumption
      <4> QED
        BY <1>2, <4>1, <4>2, <4>3, <4>4, OverKinds
    <3> QED
      BY <3>1, <3>2
  <2>8. CASE watch'.step # "idle"
    <3>1. watch.step # "idle"
      BY <1>1, <1>5, <2>8, WatchKinds, RecordsEffect, SessionEffect, ReadsEffect, NoRunFields DEF TurnOver
    <3>2. Settled(s, RunEvery)'
      BY <2>2, <2>4, <3>1
    <3>3. watch'.step \in {"session", "read"} => Settled(s, 0)' \/ s \in watch'.pending
      <4>1. CASE watch' = watch
        BY <2>1, <2>5, <4>1
      <4>2. CASE WatchRecords /\ watch'.pending = {t \in Students : Watched(t) /\ ~rec[t].picked}
        BY <1>2, <4>2 DEF Watched
      <4>3. CASE watch.step = "session" /\ watch'.step = "read" /\ SameRun
        BY <2>1, <2>5, <4>3 DEF SameRun
      <4> QED
        BY <2>8, <3>1, <4>1, <4>2, <4>3, GoesOn
    <3>4. watch'.step = "act" => \/ Settled(s, 0)'
                                 \/ watch'.todo[s] = "pick_up"
                                 \/ watch'.todo[s] = "prompt" /\ Soon(s, AbsentFor + PromptTTL - 1)'
      <4>1. CASE watch.step = "act" /\ watch'.todo[s] = watch.todo[s]
        BY <2>1, <2>3, <2>6, <4>1
      <4>2. CASE WatchReads /\ watch.step = "read" /\ watch'.todo[s] = Decided(s)
        BY <1>2, <2>1, <2>3, <2>5, <4>2, DecidedSettles
      <4>3. CASE watch.step = "act" /\ watch.todo[s] # "nothing" /\ watch'.todo[s] = "nothing"
        <5>1. CASE WatchPicksUp(s)
          <6>1. StillHere(rec[s])
            BY DEF Here
          <6>2. rec'[s].picked
            <7>1. MarkPickedUp(s, watch.now, TRUE) /\ watch.now \in Nat
              BY <1>1, <5>1, WatchFields DEF WatchPicksUp
            <7>2. Wins(s, watch.now, TRUE)
              BY <1>1, <7>1, MarkEffect
            <7> QED
              BY <6>1, <7>2 DEF Wins, Takes
          <6> QED
            BY <1>2, <6>2
        <5>2. CASE WatchPrompts(s)
          <6>1. check'[s].expires = lastRun + PromptTTL
            <7>1. watch.now = lastRun /\ check \in [Students -> Prompt]
              BY <1>1, <5>2 DEF WatchPrompts, Base, ClockOK, TypeOK
            <7> QED
              BY <5>2, <7>1 DEF WatchPrompts
          <6>2. watch.todo[s] = "prompt"
            BY <5>2 DEF WatchPrompts
          <6>3. CASE Settled(s, 0)
            BY <2>1, <6>3
          <6>4. CASE Soon(s, AbsentFor + PromptTTL - 1)
            <7>1. lastRun' < SilentFrom(s)' + (AbsentFor + PromptTTL - 1)
              BY <2>3, <6>4 DEF Soon
            <7>2. /\ lastRun' < SilentFrom(s)' + (AbsentFor + PromptTTL - 1 + 0)
                  /\ lastRun' < check'[s].expires + PromptEvery + 0
              BY <1>1, <2>0, <6>1, <7>1, Timers
            <7> QED
              BY <7>2 DEF Settled, Soon
          <6> QED
            BY <2>6, <4>3, <6>2, <6>3, <6>4
        <5>3. CASE WatchPutsBack(s)
          <6>1. watch.todo[s] = "put_back"
            BY <5>3 DEF WatchPutsBack
          <6> QED
            BY <2>1, <2>6, <4>3, <6>1
        <5>4. ~Restart
          BY <2>8, NoRunFields DEF Restart
        <5> QED
          BY <1>2, <4>3, <5>1, <5>2, <5>3, <5>4, TurnKinds
      <4> QED
        BY <2>1, <2>6, <2>8, <3>1, <4>1, <4>2, <4>3, GoesOn
    <3> QED
      BY <2>8, <3>2, <3>3, <3>4 DEF SettledFor
  <2> QED
    BY <2>7, <2>8
<1> QED
  BY <1>4, <1>5

LEMMA SettledStep ==
  Base /\ HeardOK /\ PromptsEnd /\ BackOK /\ SettledOK /\ [Next]_vars => SettledOK'
<1> SUFFICES ASSUME Base, HeardOK, PromptsEnd, BackOK, SettledOK, [Next]_vars  PROVE SettledOK'
  OBVIOUS
<1>1. ASSUME NEW s \in Students, lastRun' < To  PROVE SettledFor(s)'
  <2>1. lastRun < To
    BY <1>1, Instants, PickupAssumption
  <2>2. SettledFor(s) /\ PutBackInTime(s)
    BY <2>1, SettledOKParts, BackOKParts
  <2>3. CASE Here(s) /\ Here(s)'
    BY <1>1, <2>2, <2>3, StaysHere
  <2>4. CASE ~Here(s) /\ Here(s)'
    <3>1. lastRun' <= SilentFrom(s)' + RunEvery
      BY <2>2, <2>4, NewHere
    <3>2. Settled(s, 0)' /\ Settled(s, RunEvery)'
      BY <3>1, SoonIsSettled, Timers
    <3> QED
      BY <3>2 DEF SettledFor
  <2>5. CASE ~Here(s)'
    BY <2>5 DEF SettledFor
  <2> QED
    BY <2>3, <2>4, <2>5
<1>2. (lastRun < To => \A s \in Students : SettledFor(s))' => SettledOK'
  BY SettledOKParts, PTL
<1> QED
  BY <1>1, <1>2

LEMMA FirstTimes == ASSUME Init, NEW s \in Students  PROVE lastRun <= SilentFrom(s)
<1>1. TypeOK /\ at[s].arrived = 1 /\ lastRun = 1
  BY InitTypeOK DEF Init
<1> QED
  BY <1>1, SilentBounds DEF TypeOK

LEMMA SettledInit == Init => SamePickup /\ PromptsEnd /\ BackOK /\ SettledOK
<1> SUFFICES ASSUME Init  PROVE SamePickup /\ PromptsEnd /\ BackOK /\ SettledOK
  OBVIOUS
<1>1. \A s \in Students : /\ watch.todo[s] = "nothing" /\ ~rec[s].picked /\ check[s].expires = 0
                          /\ SilentFrom(s) \in Nat /\ lastRun <= SilentFrom(s)
  BY FirstTimes, InitTypeOK, SilentBounds, NoRunFields, WrittenFields
     DEF Init, NothingToDo, NoPrompt, Statuses
<1>2. watch.step = "idle" /\ lastRun \in Nat
  BY NoRunFields, InitTypeOK DEF Init, TypeOK
<1>3. SamePickup
  BY <1>1, <1>2 DEF SamePickup, Running
<1>4. PromptsEnd
  <2>1. \A s \in Students : 0 < SilentFrom(s) + AbsentFor + PromptTTL
    BY <1>1, Timers
  <2> QED
    BY <1>1, <2>1 DEF PromptsEnd
<1>5. BackOK
  BY <1>1, <1>2 DEF BackOK, Back
<1>6. SettledOK
  <2>1. \A s \in Students : /\ lastRun < SilentFrom(s) + (AbsentFor + PromptTTL - 1 + 0)
                            /\ lastRun < SilentFrom(s) + (PromptEvery + PromptTTL + 0)
    BY <1>1, <1>2, Timers
  <2> QED
    BY <1>2, <2>1 DEF SettledOK, Settled, Soon
<1> QED
  BY <1>3, <1>4, <1>5, <1>6

\* What every run relies on, of those before it.
RunsInTime == Base /\ HeardOK /\ SamePickup /\ PromptsEnd /\ BackOK /\ SettledOK

LEMMA RunsInTimeAlways == Spec => []RunsInTime
<1>1. Init => RunsInTime
  BY BaseInit, HeardInit, SettledInit DEF RunsInTime
<1>2. RunsInTime /\ [Next]_vars => RunsInTime'
  BY BaseStep, HeardStep, SamePickupStep, PromptsEndStep, BackStep, SettledStep DEF RunsInTime
<1> QED
  BY <1>1, <1>2, PTL DEF Spec

\* Nobody is forgotten: for all timers that leave time to ask, a student nothing was
\* heard of is marked within AbsentFor, a prompt's lifetime and two runs, whatever
\* prompts, stops, returns and restarts came in between; only a failing statement
\* of the watch may delay it further.
THEOREM SilentArePickedUp == Spec => []SilentStudentsPickedUp
<1>1. ASSUME RunsInTime, NEW s \in Students, InWindow(clock), StillHere(rec[s]), tagged[s], ~failed
      PROVE  clock + 1 < SilentFrom(s) + AbsentFor + PromptTTL + 2 * RunEvery
  <2>1. /\ clock \in Nat /\ lastRun \in Nat /\ SilentFrom(s) \in Nat /\ To \in Nat
        /\ lastRun <= clock /\ clock <= lastRun + RunEvery
    BY <1>1, SilentBounds, PickupAssumption DEF RunsInTime, Base, TypeOK, ClockOK
  <2>2. lastRun < To /\ Here(s)
    BY <1>1, <2>1 DEF InWindow, Here
  <2>3. lastRun < SilentFrom(s) + (AbsentFor + PromptTTL - 1 + (IF watch.step = "idle" THEN 0 ELSE RunEvery))
    BY <1>1, <2>2 DEF RunsInTime, SettledOK, Settled, Soon
  <2>4. lastRun < SilentFrom(s) + (AbsentFor + PromptTTL - 1 + RunEvery)
    BY <2>1, <2>3, Timers
  <2> QED
    BY <2>1, <2>4, Timers
<1>2. RunsInTime => SilentStudentsPickedUp
  BY <1>1 DEF SilentStudentsPickedUp
<1> QED
  BY <1>2, RunsInTimeAlways, PTL

\* A run that picks s up, heard of or tagged by nobody in that time, has asked.
LEMMA AskedStep ==
  ASSUME RunsInTime, [Next]_vars, NEW s \in Students, ~rec[s].auto, rec'[s].auto,
         late[s] = {}, ~(watch.now < taggedAt[s] + AbsentFor), ~failed
  PROVE  check[s].answer # "none" /\ check[s].made > Since(s)
<1>1. Base /\ HeardOK /\ BackOK /\ SettledOK /\ TypeOK
  BY DEF RunsInTime, Base
<1>2. WatchPicksUp(s) /\ StillHere(rec[s]) /\ watch.todo[s] = "pick_up"
  BY <1>1, NewAuto
<1>3. /\ watch.step = "act" /\ Running /\ watch.now = lastRun /\ s \in watch.pending
      /\ InWindow(lastRun)
  BY <1>1, <1>2 DEF Base, RunOK, ClockOK, Running
<1>4. rec[s].status = "present"
  BY <1>2 DEF StillHere
<1>5. heard[s] + AbsentFor <= lastRun /\ Since(s) + AbsentFor <= lastRun /\ at[s].arrived <= heard[s]
  BY <1>1, <1>2, <1>3 DEF HeardOK
<1>6. /\ heard[s] \in Nat /\ at[s].arrived \in Nat /\ lastRun \in Nat /\ taggedAt[s] \in Nat
      /\ SilentFrom(s) \in Nat /\ Since(s) \in Nat /\ Since(s) <= SilentFrom(s)
      /\ check[s].expires \in Nat /\ check[s].made \in Nat
  BY <1>1, <1>3, <1>4, HeardTypes, SilentBounds, SinceEarlier DEF TypeOK, Prompt
<1>7. SilentFrom(s) + AbsentFor <= lastRun
  <2>1. SilentFrom(s) \in {sig[s]["face"].at, sig[s]["ble"].at, stillAt[s], at[s].arrived,
                           From, unhealthyAt, taggedAt[s]}
    BY <1>1, SilentFromIs DEF Largest
  <2>2. \A t \in {sig[s]["face"].at, sig[s]["ble"].at, stillAt[s], watch.at[s].arrived,
                  From, unhealthyAt} : t <= Since(s)
    BY <1>1, SinceIs DEF Largest
  <2>3. CASE SilentFrom(s) \in {sig[s]["face"].at, sig[s]["ble"].at, stillAt[s], From, unhealthyAt}
    <3>1. SilentFrom(s) <= Since(s)
      BY <2>2, <2>3
    <3> QED
      BY <1>5, <1>6, <3>1, Timers
  <2>4. CASE SilentFrom(s) = at[s].arrived
    BY <1>5, <1>6, <2>4, Timers
  <2>5. CASE SilentFrom(s) = taggedAt[s]
    BY <1>3, <1>6, <2>5, Timers
  <2> QED
    BY <2>1, <2>3, <2>4, <2>5
<1>8. tagged[s]
  <2>1. lastRun < To
    BY <1>3 DEF InWindow
  <2>2. ~tagged[s] => lastRun <= taggedAt[s]
    BY <1>1, <1>3, <2>1 DEF BackOK
  <2>3. ~(lastRun <= taggedAt[s])
    BY <1>3, <1>6, Timers
  <2> QED
    BY <2>2, <2>3
<1>9. \/ lastRun < SilentFrom(s) + (PromptEvery + PromptTTL + RunEvery)
      \/ lastRun < check[s].expires + PromptEvery + RunEvery
  <2>1. Here(s) /\ lastRun < To
    BY <1>2, <1>3, <1>8 DEF Here, InWindow
  <2>2. Settled(s, RunEvery)
    BY <1>1, <1>3, <2>1 DEF SettledOK
  <2> QED
    BY <2>2 DEF Settled, Soon
<1>10. check[s].expires > SilentFrom(s) + PromptTTL
  BY <1>6, <1>7, <1>9, Timers
<1>11. check[s].expires <= check[s].made + PromptTTL /\ (check[s].answer = "none" => check[s].expires = 0)
  BY <1>1 DEF Base, PromptsOK
<1> QED
  BY <1>6, <1>10, <1>11, Timers

\* The teacher is asked before a student is marked: for all timers that leave time
\* to ask, an automatic pickup comes with a prompt made since the silence began.
THEOREM TeachersAreAskedFirst == Spec => TeacherAskedFirst
<1>1. RunsInTime /\ [Next]_vars =>
        [\A s \in Students :
           ~rec[s].auto /\ rec'[s].auto =>
             \/ check[s].answer # "none" /\ check[s].made > Since(s)
             \/ late[s] # {}
             \/ watch.now < taggedAt[s] + AbsentFor
             \/ failed]_vars
  BY AskedStep
<1> QED
  BY <1>1, RunsInTimeAlways, PTL DEF Spec, TeacherAskedFirst

=============================================================================
