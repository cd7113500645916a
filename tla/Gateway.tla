------------------------------ MODULE Gateway ------------------------------
(***************************************************************************)
(* The ESP32 that listens for the tags (esp32-ble-gateway.ino) and the     *)
(* backend it reports to (attendanceGateway.controller.js, gatewayAuth.js, *)
(* rateLimit.js, bleDevices.controller.js).                                *)
(*                                                                         *)
(* The firmware is one loop: it keeps off while it was told to, joins the  *)
(* Wi-Fi, refreshes its list of tags when that is due, and then either     *)
(* checks in or scans and reports.  It learns from the replies whether a   *)
(* session runs.  Time passes in the pauses of the loop, the scan, and     *)
(* while it waits for Wi-Fi or a reply.  What a reading is worth to the    *)
(* backend is in Attendance, what hearing from it is worth in              *)
(* ClockOfSilence; one center and one gateway are modelled.                *)
(*                                                                         *)
(* The clock of the device counts milliseconds and wraps after 2^32 of     *)
(* them; the deadlines it compares with the clock wrap too.  A duration    *)
(* since something is the same for both, so it is kept as an age, up to    *)
(* the longest that is told apart.                                         *)
(***************************************************************************)
EXTENDS Naturals, FiniteSets

CONSTANTS
  Tags,             \* numbered as the backend lists them
  MaxTags,          \* MAX_TAGS
  Wrap,             \* 2^32 ms
  RegistryRefresh, RegistryRetry, Heartbeat, IdleCheckin,   \* ..._MS
  Unauthorized, RateLimited,                                \* BACKOFF_..._MS
  WifiTimeout, HttpTimeout,
  MaxChanges        \* bound: changes of the surroundings, losses and silent scans

ASSUME GatewayAssumption ==
  /\ Tags \subseteq Nat /\ IsFiniteSet(Tags)
  /\ {MaxTags, Wrap, RegistryRefresh, RegistryRetry, Heartbeat, IdleCheckin, Unauthorized,
      RateLimited, WifiTimeout, HttpTimeout} \subseteq Nat \ {0}
  /\ MaxChanges \in Nat

VARIABLES
  (* surroundings *)
  running,        \* whether a session runs
  enabled,        \* the enabled tags of active students
  net,            \* what becomes of a request
  (* the device *)
  ms,             \* millis()
  now,            \* the same when this turn of the loop began
  loc,            \* where the loop is
  left,           \* how long it still waits there
  tags,           \* the tags it listens for
  loaded,         \* registryLoaded
  sessionActive,
  backoffUntil, retryAt,
  sincePost, sinceRegistry,   \* since lastPostMs and lastRegistryMs
  call,           \* the request it waits for
  used,           \* how much of MaxChanges is used up
  (* history *)
  owed,           \* how long it is still to keep off
  toldNow,        \* it was told so in this turn of the loop
  wrapped         \* the clock, or the deadline, has wrapped since it was told

surroundings == <<running, enabled, net>>
ages == <<sincePost, sinceRegistry, owed>>
told == <<backoffUntil, toldNow>>
device == <<tags, loaded, sessionActive, retryAt>>
vars == <<surroundings, ms, now, loc, left, device, told, ages, call, used, wrapped>>

Larger(a, b) == IF a > b THEN a ELSE b

\* A turn of the loop takes no longer before it looks at an age.
Turn == WifiTimeout + 2 * HttpTimeout + 1

LongSincePost == Larger(Heartbeat, IdleCheckin) + Turn
LongSinceRegistry == RegistryRefresh + 1 + Turn

Call == [kind : {"none", "registry", "events"}, state : {"sent", "handled"},
         tags : SUBSET Tags, active : BOOLEAN]

NoCall == [kind |-> "none", state |-> "sent", tags |-> {}, active |-> FALSE]

TypeOK ==
  /\ running \in BOOLEAN /\ enabled \subseteq Tags
  /\ net \in {"ok", "no_wifi", "down", "unauthorized", "limited"}
  /\ {ms, now, backoffUntil, retryAt} \subseteq 0..(Wrap - 1)
  /\ loc \in {"top", "backoff", "pause", "wifi", "linked", "main", "scan", "scanned", "calling"}
  /\ left \in 0..Larger(WifiTimeout, HttpTimeout)
  /\ tags \subseteq Tags /\ Cardinality(tags) <= MaxTags
  /\ {loaded, sessionActive, toldNow, wrapped} \subseteq BOOLEAN
  /\ sincePost \in 0..LongSincePost /\ sinceRegistry \in 0..LongSinceRegistry
  /\ call \in Call
  /\ used \in 0..MaxChanges
  /\ owed \in 0..Larger(Unauthorized, RateLimited)

\* setup: the device has just been switched on.
Boot ==
  /\ ms' = 0 /\ now' = 0 /\ loc' = "top" /\ left' = 0
  /\ tags' = {} /\ loaded' = FALSE /\ sessionActive' = FALSE
  /\ backoffUntil' = 0 /\ retryAt' = 0
  /\ sincePost' = LongSincePost /\ sinceRegistry' = LongSinceRegistry
  /\ call' = NoCall
  /\ owed' = 0 /\ toldNow' = FALSE /\ wrapped' = FALSE

Init ==
  /\ running \in BOOLEAN /\ enabled \in SUBSET Tags /\ net = "ok"
  /\ ms = 0 /\ now = 0 /\ loc = "top" /\ left = 0
  /\ tags = {} /\ loaded = FALSE /\ sessionActive = FALSE
  /\ backoffUntil = 0 /\ retryAt = 0
  /\ sincePost = LongSincePost /\ sinceRegistry = LongSinceRegistry
  /\ call = NoCall
  /\ used = 0
  /\ owed = 0 /\ toldNow = FALSE /\ wrapped = FALSE

----------------------------------------------------------------------------
(* The loop *)

Goto(place, wait) == loc' = place /\ left' = wait

\* How long this turn has taken.
Since == (ms + Wrap - now) % Wrap

Older(age, most) == IF age < most THEN age + 1 ELSE most

\* Time passes, and what the loop waited for is over.
Tick ==
  /\ loc \in {"backoff", "pause", "wifi", "scan", "calling"} /\ left > 0
  /\ ms' = (ms + 1) % Wrap
  /\ wrapped' = (wrapped \/ ms + 1 = Wrap)
  /\ sincePost' = Older(sincePost, LongSincePost)
  /\ sinceRegistry' = Older(sinceRegistry, LongSinceRegistry)
  /\ owed' = IF owed = 0 THEN 0 ELSE owed - 1
  /\ left' = left - 1
  /\ loc' = CASE loc \in {"backoff", "pause"} -> "top"
              [] loc = "scan" -> "scanned"
              [] OTHER -> loc
  /\ UNCHANGED <<surroundings, now, device, told, call, used>>

\* Told to slow down, or the key was rejected.
BackOff ==
  /\ loc = "top" /\ ms < backoffUntil
  /\ now' = ms /\ toldNow' = FALSE
  /\ Goto("backoff", 1)
  /\ UNCHANGED <<surroundings, ms, device, backoffUntil, ages, call, used, wrapped>>

\* connectWifi
Connect ==
  /\ loc = "top" /\ ~(ms < backoffUntil)
  /\ now' = ms /\ toldNow' = FALSE
  /\ IF net = "no_wifi" THEN Goto("wifi", WifiTimeout) ELSE Goto("linked", 0)
  /\ UNCHANGED <<surroundings, ms, device, backoffUntil, ages, call, used, wrapped>>

\* Back in time, or a pause and from the top.
Connected ==
  /\ loc = "wifi"
  /\ IF net # "no_wifi" THEN Goto("linked", 0) ELSE left = 0 /\ Goto("pause", 1)
  /\ UNCHANGED <<surroundings, ms, now, device, told, ages, call, used, wrapped>>

Send(kind, sightings) ==
  /\ call' = [NoCall EXCEPT !.kind = kind, !.tags = sightings]
  /\ Goto("calling", HttpTimeout)

\* Mutation: the list is fetched only once.
RegistryDueAtBoot == ~loaded

RegistryDue == ~loaded \/ sinceRegistry - Since > RegistryRefresh

AskRegistry ==
  /\ loc = "linked" /\ RegistryDue /\ now >= retryAt
  /\ Send("registry", {})
  /\ UNCHANGED <<surroundings, ms, now, device, told, ages, used, wrapped>>

SkipRegistry ==
  /\ loc = "linked" /\ ~(RegistryDue /\ now >= retryAt)
  /\ IF loaded THEN Goto("main", 0) ELSE Goto("pause", 1)
  /\ UNCHANGED <<surroundings, ms, now, device, told, ages, call, used, wrapped>>

\* No session, or nothing to listen for: check in now and then.
CheckIn ==
  /\ loc = "main" /\ (~sessionActive \/ tags = {})
  /\ IF sincePost - Since >= IdleCheckin THEN Send("events", {})
     ELSE Goto("pause", 1) /\ UNCHANGED call
  /\ UNCHANGED <<surroundings, ms, now, device, told, ages, used, wrapped>>

Scan ==
  /\ loc = "main" /\ sessionActive /\ tags # {}
  /\ Goto("scan", 1)
  /\ UNCHANGED <<surroundings, ms, now, device, told, ages, call, used, wrapped>>

\* Every tag that is near is heard.
Report ==
  /\ loc = "scanned"
  /\ Send("events", tags)
  /\ UNCHANGED <<surroundings, ms, now, device, told, ages, used, wrapped>>

\* None is: it checks in at times.
Silence ==
  /\ loc = "scanned"
  /\ used < MaxChanges /\ used' = used + 1
  /\ IF sincePost >= Heartbeat THEN Send("events", {}) ELSE Goto("top", 0) /\ UNCHANGED call
  /\ UNCHANGED <<surroundings, ms, now, device, told, ages, wrapped>>

\* Mutation: counted from the beginning of this turn of the loop.
DeadlineFromNow(wait) == (now + wait) % Wrap

Deadline(wait) == (ms + wait) % Wrap

\* noteFailure
KeepOff(wait) ==
  /\ backoffUntil' = Deadline(wait)
  /\ owed' = wait /\ toldNow' = TRUE
  /\ wrapped' = (ms + wait >= Wrap)

NoteFailure ==
  IF net = "unauthorized" THEN KeepOff(Unauthorized)
  ELSE IF net = "limited" THEN KeepOff(RateLimited)
  ELSE UNCHANGED <<told, owed, wrapped>>

\* After the call, answered or not: the rest of this turn of the loop.
Returns ==
  /\ call' = NoCall
  /\ CASE call.kind = "events" -> IF sessionActive /\ tags # {} THEN Goto("top", 0) ELSE Goto("pause", 1)
       [] OTHER -> IF loaded' THEN Goto("main", 0) ELSE Goto("pause", 1)

\* Mutation: more tags are kept than there is room for.
ListedInFull == call.tags

\* refreshRegistry has the reply: it keeps as many tags as it has room for.
Listed == {t \in call.tags : Cardinality({u \in call.tags : u < t}) < MaxTags}

Reply ==
  /\ call.state = "handled"
  /\ IF call.kind = "registry"
     THEN /\ tags' = Listed /\ loaded' = TRUE /\ sinceRegistry' = Since
          /\ UNCHANGED <<sessionActive, sincePost>>
     ELSE /\ sessionActive' = call.active /\ sincePost' = 0
          /\ UNCHANGED <<tags, loaded, sinceRegistry>>
  /\ Returns
  /\ UNCHANGED <<surroundings, ms, now, retryAt, told, owed, used, wrapped>>

\* There is none, or it is a refusal.
CallFails ==
  /\ IF call.kind = "registry"
     THEN retryAt' = (now + RegistryRetry) % Wrap /\ UNCHANGED sincePost
     ELSE sincePost' = 0 /\ UNCHANGED retryAt
  /\ UNCHANGED <<tags, loaded, sessionActive>>
  /\ Returns
  /\ UNCHANGED <<surroundings, ms, now, sinceRegistry>>

----------------------------------------------------------------------------
(* The backend *)

\* getRegistry, postEvents
Handle ==
  /\ call.kind # "none" /\ call.state = "sent" /\ net = "ok"
  /\ call' = [call EXCEPT !.state = "handled", !.active = running,
                          !.tags = IF call.kind = "registry" THEN enabled ELSE @]
  /\ UNCHANGED <<surroundings, ms, now, loc, left, device, told, ages, used, wrapped>>

\* 401, or 429 by the limit on the address or the one on the device, which comes after.
Reject ==
  /\ call.kind # "none" /\ call.state = "sent" /\ net \in {"unauthorized", "limited"}
  /\ CallFails /\ NoteFailure
  /\ UNCHANGED used

\* Nobody there; at any other time a request, or the reply, is lost.
NoReply ==
  /\ call.kind # "none"
  /\ CallFails
  /\ IF net \in {"no_wifi", "down"} THEN UNCHANGED used
     ELSE used < MaxChanges /\ used' = used + 1
  /\ UNCHANGED <<told, owed, wrapped>>

----------------------------------------------------------------------------
(* Surroundings *)

Change == used < MaxChanges /\ used' = used + 1

\* startSession, stopSession, the watch
SessionChanges ==
  /\ Change
  /\ running' = ~running
  /\ UNCHANGED <<enabled, net, ms, now, loc, left, device, told, ages, call, wrapped>>

\* addBleDevice, setBleDeviceEnabled, removeBleDevice
TagChanges(t) ==
  /\ Change
  /\ enabled' = (enabled \ {t}) \cup ({t} \ enabled)
  /\ UNCHANGED <<running, net, ms, now, loc, left, device, told, ages, call, wrapped>>

NetChanges(to) ==
  /\ Change
  /\ to # net /\ net' = to
  /\ UNCHANGED <<running, enabled, ms, now, loc, left, device, told, ages, call, wrapped>>

PowerCut ==
  /\ Change
  /\ Boot
  /\ UNCHANGED surroundings

----------------------------------------------------------------------------

Loop ==
  \/ Tick \/ BackOff \/ Connect \/ Connected \/ AskRegistry \/ SkipRegistry
  \/ CheckIn \/ Scan \/ Report \/ Reply

Backend == Handle \/ Reject

Next ==
  \/ Loop \/ Silence \/ Backend \/ NoReply
  \/ SessionChanges
  \/ \E t \in Tags : TagChanges(t)
  \/ \E to \in {"ok", "no_wifi", "down", "unauthorized", "limited"} : NetChanges(to)
  \/ PowerCut

\* The device goes on, and a request it sends is answered or fails.  Nothing is assumed
\* of the surroundings.
Fairness == WF_vars(Loop \/ Backend \/ (NoReply /\ net \in {"no_wifi", "down"}))

Spec == Init /\ [][Next]_vars /\ Fairness

----------------------------------------------------------------------------
(* Properties *)

\* The device keeps off for as long as it was told, and no longer: turns of the loop
\* that begin in that time send nothing, later ones do.  Left out are the rest of the
\* turn in which it is told, which goes on, and a clock that has wrapped since: then
\* the comparison with the old deadline holds for as long again as the clock had run.
SilentAsTold ==
  [][/\ loc' = "backoff" /\ loc # "backoff" => owed > 0 \/ wrapped
     /\ call.kind = "none" /\ call'.kind # "none" => owed = 0 \/ toldNow \/ wrapped]_vars

\* The backend records a reading of tag t.
Credited(t) ==
  /\ call.kind = "events" /\ call.state = "sent" /\ call'.state = "handled"
  /\ t \in call.tags \cap enabled /\ running

\* The list is not to be tried again just before the clock wraps: a turn of the loop may
\* step over those moments, and then it has to wait until they come round again.
RetryInReach == retryAt + Turn <= Wrap

Among(t, set) == t \in set /\ Cardinality({u \in set : u < t}) < MaxTags

\* Whatever happened before, when a session goes on, the device is let in and the tag
\* is one of the first MAX_TAGS enabled ones, its readings are recorded again and again,
\* if it was registered while the device was up as well; and when there is no session
\* any more the device comes to rest.
FollowsTheSession ==
  /\ \A t \in Tags :
       <>[](running /\ net = "ok" /\ Among(t, enabled) /\ RetryInReach)
         => []<><<Credited(t)>>_vars
  /\ <>[](~running /\ net = "ok") => <>[](~sessionActive)

=============================================================================
