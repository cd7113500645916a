--------------------------- MODULE ClockOfSilence ---------------------------
(***************************************************************************)
(* The gateway and the pickup watch together.  The watch counts how long a *)
(* student was not seen only while the gateway is online, and starts over  *)
(* when it is not (pickupWatch.service.js, hardwareStatus.js); whether it  *)
(* is online it takes from lastSeenAt, which a request of the gateway      *)
(* refreshes when it is old enough (gatewayAuth.js).                       *)
(*                                                                         *)
(* The camera works all the time, so does the session, and the student     *)
(* the clock is about is seen by nobody.                                   *)
(***************************************************************************)
EXTENDS Gateway

CONSTANTS
  Touch,      \* TOUCH_INTERVAL_MS
  Online,     \* GATEWAY_ONLINE_MS
  RunEvery,   \* the period of the watch
  Absent      \* PICKUP_ABSENT_MIN

VARIABLES
  sinceTouch,       \* since lastSeenAt
  sinceRun,         \* since the last run of the watch
  sinceUnhealthy,   \* since unhealthyAt
  (* history *)
  sinceHeard,       \* since the last request of the gateway
  sinceOutage       \* since it was last not heard from for GATEWAY_ONLINE_MS

clock == <<sinceTouch, sinceRun, sinceUnhealthy, sinceHeard, sinceOutage>>
allVars == <<vars, clock>>

LongSinceTouch == Larger(Touch, Online) + 1

ClockInit ==
  /\ Init /\ running
  /\ sinceTouch = LongSinceTouch /\ sinceHeard = LongSinceTouch
  /\ sinceRun = 0 /\ sinceUnhealthy = 0 /\ sinceOutage = 0

\* The timer of the watch is not late.
TimePasses ==
  /\ Tick
  /\ sinceRun < RunEvery /\ sinceRun' = sinceRun + 1
  /\ sinceTouch' = Older(sinceTouch, LongSinceTouch)
  /\ sinceHeard' = Older(sinceHeard, LongSinceTouch)
  /\ sinceUnhealthy' = Older(sinceUnhealthy, Absent)
  /\ sinceOutage' = IF sinceHeard' >= Online THEN 0 ELSE Older(sinceOutage, Absent)

\* requireGateway: the row is touched when that is due.
HeardFrom ==
  /\ sinceTouch' = IF sinceTouch > Touch THEN 0 ELSE sinceTouch
  /\ sinceHeard' = 0
  /\ UNCHANGED <<sinceRun, sinceUnhealthy, sinceOutage>>

\* The limit on the device comes after requireGateway, the one on the address before.
Request ==
  /\ Handle \/ (Reject /\ net = "limited")
  /\ HeardFrom

OtherStep ==
  /\ \/ BackOff \/ Connect \/ Connected \/ AskRegistry \/ SkipRegistry
     \/ CheckIn \/ Scan \/ Report \/ Silence \/ Reply \/ Reject \/ NoReply
     \/ SessionChanges
     \/ \E t \in Tags : TagChanges(t)
     \/ \E to \in {"ok", "no_wifi", "down", "unauthorized", "limited"} : NetChanges(to)
     \/ PowerCut
  /\ UNCHANGED clock

IsGatewayOnline == sinceTouch < Online

\* One run of the watch, as far as the clock is concerned.
RunPickupWatch ==
  /\ sinceRun = RunEvery /\ sinceRun' = 0
  /\ sinceUnhealthy' = IF IsGatewayOnline THEN sinceUnhealthy ELSE 0
  /\ UNCHANGED <<vars, sinceTouch, sinceHeard, sinceOutage>>

ClockNext == TimePasses \/ Request \/ OtherStep \/ RunPickupWatch

ClockSpec == ClockInit /\ [][ClockNext]_allVars

----------------------------------------------------------------------------

\* After PICKUP_ABSENT_MIN minutes unseen the student is marked picked up; the clock
\* restarts after an outage (docs/SMART_ATTENDANCE.md).  So when the gateway was heard
\* from all that time, never with a gap of GATEWAY_ONLINE_MS, the clock has run.
OnlyOutagesRestartTheClock == sinceOutage >= Absent => sinceUnhealthy >= Absent

\* The converse: a run of the watch that comes while the gateway has not been heard from
\* for GATEWAY_ONLINE_MS restarts the clock, however old the row was when it last was.
OutagesRestartTheClock ==
  [][RunPickupWatch /\ sinceHeard >= Online => sinceUnhealthy' = 0]_allVars

=============================================================================
