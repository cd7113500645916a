--------------------------- MODULE GatewayProofs ---------------------------
(***************************************************************************)
(* What Gateway promises holds for any durations, any room for tags, any   *)
(* width of the clock and any number of changes around it.                 *)
(*                                                                         *)
(* The device reads nothing but its clock and the deadline it has noted,   *)
(* so the argument relates these two to the time it still owes (InStep):   *)
(* as long as neither has wrapped, the deadline is exactly that far ahead, *)
(* or reached.  A turn of the loop that has got past the comparison owes   *)
(* nothing, but for what it is told meanwhile (Past).  That the age of the *)
(* list keeps its type needs to know how long a turn can have taken        *)
(* (Paced).                                                                *)
(*                                                                         *)
(* ClockOfSilence only adds to the steps of the gateway, so it keeps them. *)
(***************************************************************************)
EXTENDS ClockOfSilence, FiniteSetTheorems, WellFoundedInduction, TLAPS

\* A request is waited for in one place, and there only; only a request has been handled.
Waiting ==
  /\ call.kind # "none" <=> loc = "calling"
  /\ call.state = "handled" => call.kind # "none"

\* How long a turn has taken where it looks at an age, or will.
Paced ==
  /\ loc = "wifi" => Since + left <= WifiTimeout
  /\ loc = "linked" => Since <= WifiTimeout
  /\ loc = "calling" /\ call.kind = "registry" => Since + left <= WifiTimeout + HttpTimeout

\* The deadline is as far ahead of the clock as the device is to keep off.
InStep ==
  ~wrapped => IF owed = 0 THEN backoffUntil <= ms ELSE backoffUntil = ms + owed

\* A turn of the loop that goes on owes nothing it was told before.
Past == loc \notin {"top", "backoff"} /\ ~wrapped => owed = 0 \/ toldNow

Inv == TypeOK /\ Waiting /\ Paced /\ InStep /\ Past

----------------------------------------------------------------------------
(* The list of tags *)

LEMMA FiniteHasGreatest ==
  ASSUME NEW S \in SUBSET Nat, IsFiniteSet(S), S # {}
  PROVE  \E m \in S : \A n \in S : n <= m
<1> DEFINE Topped(T) == \E m \in T : \A n \in T : n <= m
           Bad == {T \in SUBSET S : T # {} /\ ~Topped(T)}
<1> SUFFICES ASSUME ~Topped(S) PROVE FALSE
  OBVIOUS
<1>1. S \in Bad
  OBVIOUS
<1>2. Bad \subseteq FiniteSubsetsOf(S)
  BY FS_Subset DEF FiniteSubsetsOf
<1>3. PICK T \in Bad : \A U \in Bad : <<U, T>> \notin StrictSubsetOrdering(S)
  <2> HIDE DEF Bad
  <2> QED BY <1>1, <1>2, FS_StrictSubsetOrderingWellFounded, WFMin
<1>4. PICK x \in T : TRUE
  OBVIOUS
<1>5. T \ {x} \in SUBSET S /\ T \ {x} \subseteq T /\ T \ {x} # T /\ T \in SUBSET S
  BY <1>4
<1>6. T \ {x} \notin Bad
  <2>1. IsFiniteSet(T) /\ IsFiniteSet(T \ {x})
    BY <1>5, FS_Subset
  <2>2. <<T \ {x}, T>> \in StrictSubsetOrdering(S)
    <3> HIDE DEF Bad
    <3> QED BY <1>5, <2>1 DEF StrictSubsetOrdering, FiniteSubsetsOf
  <2> QED BY <1>3, <2>2
<1>7. CASE T \ {x} = {}
  <2>1. T = {x} /\ x \in Nat
    BY <1>4, <1>7
  <2> QED BY <2>1
<1>8. CASE T \ {x} # {}
  <2>1. PICK y \in T \ {x} : \A n \in T \ {x} : n <= y
    BY <1>5, <1>6, <1>8
  <2>2. x \in Nat /\ y \in Nat /\ \A n \in T : n \in Nat
    BY <1>5, <1>4
  <2>3. CASE x <= y
    BY <2>1, <2>2, <2>3
  <2>4. CASE y <= x
    <3>1. \A n \in T : n <= x
      BY <2>1, <2>2, <2>4
    <3> QED BY <1>4, <3>1
  <2> QED BY <2>2, <2>3, <2>4
<1> QED BY <1>7, <1>8

\* refreshRegistry keeps no more tags than it has room for.
LEMMA ListedFits ==
  ASSUME call.tags \subseteq Tags
  PROVE  Listed \subseteq Tags /\ Cardinality(Listed) <= MaxTags
<1> DEFINE L == Listed
<1>1. /\ L \subseteq call.tags /\ L \in SUBSET Nat /\ MaxTags \in Nat /\ L \subseteq Tags
      /\ IsFiniteSet(Tags)
  BY GatewayAssumption DEF Listed
<1>2. IsFiniteSet(call.tags) /\ IsFiniteSet(L)
  BY <1>1, FS_Subset
<1>3. CASE L = {}
  BY <1>1, <1>3, FS_EmptySet
<1>4. CASE L # {}
  <2>1. PICK m \in L : \A n \in L : n <= m
    <3> HIDE DEF L
    <3> QED BY <1>1, <1>2, <1>4, FiniteHasGreatest
  <2> DEFINE before == {u \in call.tags : u < m}
  <2>2. L \ {m} \subseteq before
    <3> HIDE DEF L
    <3> QED BY <1>1, <2>1
  <2>3. before \subseteq call.tags /\ Cardinality(before) < MaxTags
    BY <2>1 DEF Listed
  <2> HIDE DEF L, before
  <2>4. IsFiniteSet(before) /\ Cardinality(before) \in Nat /\ Cardinality(L) \in Nat
    BY <1>2, <2>3, FS_Subset, FS_CardinalityType
  <2>5. Cardinality(L \ {m}) <= Cardinality(before)
    BY <2>2, <2>4, FS_Subset
  <2>6. Cardinality(L \ {m}) = Cardinality(L) - 1
    BY <1>2, <2>1, FS_RemoveElement
  <2> QED BY <1>1, <2>3, <2>4, <2>5, <2>6 DEF L
<1> QED BY <1>1, <1>3, <1>4

----------------------------------------------------------------------------
(* The clock *)

LEMMA Constants ==
  /\ MaxTags \in Nat \ {0} /\ Wrap \in Nat \ {0} /\ RegistryRefresh \in Nat \ {0}
  /\ RegistryRetry \in Nat \ {0} /\ Heartbeat \in Nat \ {0} /\ IdleCheckin \in Nat \ {0}
  /\ Unauthorized \in Nat \ {0} /\ RateLimited \in Nat \ {0} /\ WifiTimeout \in Nat \ {0}
  /\ HttpTimeout \in Nat \ {0} /\ MaxChanges \in Nat
  /\ Tags \subseteq Nat /\ IsFiniteSet(Tags)
BY GatewayAssumption

LEMMA Around ==
  ASSUME NEW n \in Nat
  PROVE  n % Wrap \in 0..(Wrap - 1) /\ (n < Wrap => n % Wrap = n)
BY Constants

LEMMA AroundOnce ==
  ASSUME NEW n \in Nat, Wrap <= n, n < 2 * Wrap
  PROVE  n % Wrap = n - Wrap
BY Constants

LEMMA LargerFits ==
  ASSUME NEW a \in Nat, NEW b \in Nat
  PROVE  Larger(a, b) \in Nat /\ a <= Larger(a, b) /\ b <= Larger(a, b)
BY DEF Larger

LEMMA Lengths ==
  /\ Turn \in Nat /\ LongSincePost \in Nat /\ LongSinceRegistry \in Nat
  /\ Larger(Unauthorized, RateLimited) \in Nat
  /\ Larger(WifiTimeout, HttpTimeout) \in Nat
  /\ Unauthorized <= Larger(Unauthorized, RateLimited)
  /\ RateLimited <= Larger(Unauthorized, RateLimited)
  /\ WifiTimeout <= Larger(WifiTimeout, HttpTimeout)
  /\ HttpTimeout <= Larger(WifiTimeout, HttpTimeout)
  /\ Turn = WifiTimeout + 2 * HttpTimeout + 1
  /\ LongSinceRegistry = RegistryRefresh + 1 + Turn
<1>1. Turn \in Nat /\ Turn = WifiTimeout + 2 * HttpTimeout + 1
  BY Constants DEF Turn
<1>2. Larger(Heartbeat, IdleCheckin) \in Nat
  BY Constants, LargerFits
<1>3. LongSincePost \in Nat
  BY <1>1, <1>2 DEF LongSincePost
<1>4. LongSinceRegistry \in Nat /\ LongSinceRegistry = RegistryRefresh + 1 + Turn
  BY <1>1, Constants DEF LongSinceRegistry
<1>5. /\ Larger(Unauthorized, RateLimited) \in Nat
      /\ Unauthorized <= Larger(Unauthorized, RateLimited)
      /\ RateLimited <= Larger(Unauthorized, RateLimited)
  BY Constants, LargerFits
<1>6. /\ Larger(WifiTimeout, HttpTimeout) \in Nat
      /\ WifiTimeout <= Larger(WifiTimeout, HttpTimeout)
      /\ HttpTimeout <= Larger(WifiTimeout, HttpTimeout)
  BY Constants, LargerFits
<1> QED BY <1>1, <1>3, <1>4, <1>5, <1>6

LEMMA Apart ==
  ASSUME NEW m \in 0..(Wrap - 1), NEW n \in 0..(Wrap - 1)
  PROVE  (m + Wrap - n) % Wrap = IF n <= m THEN m - n ELSE m + Wrap - n
<1>1. Wrap \in Nat \ {0}
  BY Constants
<1>2. CASE n <= m
  <2>1. m + Wrap - n \in Nat /\ Wrap <= m + Wrap - n /\ m + Wrap - n < 2 * Wrap
    BY <1>1, <1>2
  <2> QED BY <1>1, <1>2, <2>1, AroundOnce
<1>3. CASE ~(n <= m)
  <2>1. m + Wrap - n \in Nat /\ m + Wrap - n < Wrap
    BY <1>1, <1>3
  <2> QED BY <1>1, <1>3, <2>1, Around
<1> QED BY <1>2, <1>3

\* The clock ticks, and may wrap.
LEMMA TickedClock ==
  ASSUME TypeOK, ms' = (ms + 1) % Wrap
  PROVE  ms' = (IF ms + 1 = Wrap THEN 0 ELSE ms + 1) /\ ms' \in 0..(Wrap - 1)
<1>1. ms \in 0..(Wrap - 1) /\ Wrap \in Nat \ {0}
  BY Constants DEF TypeOK
<1>2. CASE ms + 1 = Wrap
  BY <1>1, <1>2, AroundOnce
<1>3. CASE ms + 1 # Wrap
  BY <1>1, <1>3, Around
<1> QED BY <1>2, <1>3

LEMMA TurnGrows ==
  ASSUME TypeOK, ms' = (ms + 1) % Wrap, now' = now
  PROVE  Since \in Nat /\ Since' \in Nat /\ Since' <= Since + 1
<1>1. ms \in 0..(Wrap - 1) /\ now \in 0..(Wrap - 1) /\ Wrap \in Nat \ {0}
  BY Constants DEF TypeOK
<1>2. ms' = (IF ms + 1 = Wrap THEN 0 ELSE ms + 1) /\ ms' \in 0..(Wrap - 1)
  BY TickedClock
<1>3. Since = IF now <= ms THEN ms - now ELSE ms + Wrap - now
  BY <1>1, Apart DEF Since
<1>4. Since' = IF now <= ms' THEN ms' - now ELSE ms' + Wrap - now
  BY <1>1, <1>2, Apart DEF Since
<1> QED BY <1>1, <1>2, <1>3, <1>4

LEMMA TurnStarts ==
  ASSUME TypeOK, ms' = ms, now' = ms
  PROVE  Since' = 0
<1>1. ms \in 0..(Wrap - 1) /\ Wrap \in Nat \ {0}
  BY Constants DEF TypeOK
<1>2. ms' + Wrap - now' = Wrap
  BY <1>1
<1> QED BY <1>1, <1>2, AroundOnce DEF Since

----------------------------------------------------------------------------
(* The loop *)

\* Nothing that says how long to keep off changes.
SameTold == UNCHANGED <<ms, backoffUntil, toldNow, owed, wrapped>>

LEMMA StillInStep ==
  ASSUME InStep, Past, SameTold,
         loc' \in {"top", "backoff"} \/ loc \notin {"top", "backoff"}
  PROVE  InStep' /\ Past'
BY DEF SameTold, InStep, Past

\* A wait is no longer than it can be.
LEMMA GotoTyped ==
  ASSUME NEW place \in {"top", "backoff", "pause", "wifi", "linked", "main", "scan", "scanned",
                        "calling"},
         NEW wait \in {0, 1, WifiTimeout, HttpTimeout}, Goto(place, wait)
  PROVE  /\ loc' = place /\ left' = wait
         /\ loc' \in {"top", "backoff", "pause", "wifi", "linked", "main", "scan", "scanned",
                      "calling"}
         /\ left' \in 0..Larger(WifiTimeout, HttpTimeout)
<1>1. /\ Larger(WifiTimeout, HttpTimeout) \in Nat /\ WifiTimeout <= Larger(WifiTimeout, HttpTimeout)
      /\ HttpTimeout <= Larger(WifiTimeout, HttpTimeout)
  BY Lengths
<1> QED BY <1>1, Constants DEF Goto

\* The rest of the types, when only the place in the loop changes.
LEMMA MovedTyped ==
  ASSUME TypeOK, now' = ms \/ now' = now, toldNow' \in BOOLEAN,
         loc' \in {"top", "backoff", "pause", "wifi", "linked", "main", "scan", "scanned",
                   "calling"},
         left' \in 0..Larger(WifiTimeout, HttpTimeout), call' \in Call, used' \in 0..MaxChanges,
         UNCHANGED <<surroundings, ms, device, backoffUntil, ages, wrapped>>
  PROVE  TypeOK'
BY DEF TypeOK, surroundings, device, ages

LEMMA TickInv == Inv /\ Tick => Inv'
<1> SUFFICES ASSUME Inv, Tick PROVE Inv'
  OBVIOUS
<1>1. TypeOK /\ Waiting /\ Paced /\ InStep /\ Past
  BY DEF Inv
<1>2. /\ loc \in {"backoff", "pause", "wifi", "scan", "calling"} /\ left > 0
      /\ ms' = (ms + 1) % Wrap /\ wrapped' = (wrapped \/ ms + 1 = Wrap)
      /\ sincePost' = Older(sincePost, LongSincePost)
      /\ sinceRegistry' = Older(sinceRegistry, LongSinceRegistry)
      /\ owed' = (IF owed = 0 THEN 0 ELSE owed - 1) /\ left' = left - 1
      /\ UNCHANGED <<running, enabled, net, now, tags, loaded, sessionActive, retryAt,
                     backoffUntil, toldNow, call, used>>
  BY DEF Tick, surroundings, device, told
<1>3. loc' = CASE loc \in {"backoff", "pause"} -> "top" [] loc = "scan" -> "scanned" [] OTHER -> loc
  BY DEF Tick
<1>4. /\ loc \in {"backoff", "pause"} => loc' = "top"
      /\ loc = "scan" => loc' = "scanned"
      /\ loc \in {"wifi", "calling"} => loc' = loc
  BY <1>3
<1>5. ms' = (IF ms + 1 = Wrap THEN 0 ELSE ms + 1) /\ ms' \in 0..(Wrap - 1)
  BY <1>1, <1>2, TickedClock
<1>6. Since \in Nat /\ Since' \in Nat /\ Since' <= Since + 1
  BY <1>1, <1>2, TurnGrows
<1>7. TypeOK'
  <2>1. left \in Nat /\ left' \in 0..Larger(WifiTimeout, HttpTimeout)
    BY <1>1, <1>2, Constants, Lengths DEF TypeOK
  <2>2. /\ sincePost' \in 0..LongSincePost /\ sinceRegistry' \in 0..LongSinceRegistry
        /\ owed' \in 0..Larger(Unauthorized, RateLimited)
    BY <1>1, <1>2, Lengths DEF TypeOK, Older
  <2>3. wrapped' \in BOOLEAN
    BY <1>2
  <2> QED BY <1>1, <1>2, <1>4, <1>5, <2>1, <2>2, <2>3 DEF TypeOK
<1>8. Waiting'
  BY <1>1, <1>2, <1>4 DEF Waiting
<1>9. Paced'
  <2>1. left \in Nat /\ WifiTimeout \in Nat /\ HttpTimeout \in Nat
    BY <1>1, Constants, Lengths DEF TypeOK
  <2>2. left' = left - 1 /\ call' = call
    BY <1>2
  <2>3. ASSUME NEW a \in Nat, NEW b \in Nat, b <= a + 1, NEW most \in Nat
        PROVE  a + left <= most => b + left' <= most
    BY <2>1, <2>2, <2>3
  <2>4. PICK a \in Nat, b \in Nat : a = Since /\ b = Since' /\ b <= a + 1
    BY <1>6
  <2>5. /\ a + left <= WifiTimeout => b + left' <= WifiTimeout
        /\ a + left <= WifiTimeout + HttpTimeout => b + left' <= WifiTimeout + HttpTimeout
    <3>1. WifiTimeout + HttpTimeout \in Nat
      BY <2>1
    <3> QED BY <2>1, <2>3, <2>4, <3>1
  <2>6. /\ loc' = "wifi" => loc = "wifi"
        /\ loc' # "linked"
        /\ loc' = "calling" => loc = "calling"
    BY <1>2, <1>4
  <2>7. /\ loc = "wifi" => a + left <= WifiTimeout
        /\ loc = "calling" /\ call.kind = "registry" => a + left <= WifiTimeout + HttpTimeout
    BY <1>1, <2>4 DEF Paced
  <2> QED BY <2>2, <2>4, <2>5, <2>6, <2>7 DEF Paced
<1>10. InStep'
  <2>1. ms \in Nat /\ owed \in Nat /\ backoffUntil \in Nat /\ Wrap \in Nat
    BY <1>1, Constants, Lengths DEF TypeOK
  <2>2. CASE wrapped'
    BY <2>2 DEF InStep
  <2>3. CASE ~wrapped'
    <3>1. ~wrapped /\ ms' = ms + 1 /\ backoffUntil' = backoffUntil
      BY <1>2, <1>5, <2>3
    <3>2. IF owed = 0 THEN backoffUntil <= ms ELSE backoffUntil = ms + owed
      BY <1>1, <3>1 DEF InStep
    <3>3. owed' = IF owed = 0 THEN 0 ELSE owed - 1
      BY <1>2
    <3> QED BY <2>1, <3>1, <3>2, <3>3 DEF InStep
  <2> QED BY <2>2, <2>3
<1>11. Past'
  <2>1. loc' \notin {"top", "backoff"} => loc \notin {"top", "backoff"}
    BY <1>2, <1>4
  <2> QED BY <1>1, <1>2, <2>1 DEF Past
<1> QED BY <1>7, <1>8, <1>9, <1>10, <1>11 DEF Inv

\* A turn begins.
LEMMA BeginInv == Inv /\ (BackOff \/ Connect) => Inv'
<1> SUFFICES ASSUME Inv, BackOff \/ Connect PROVE Inv'
  OBVIOUS
<1>1. TypeOK /\ Waiting /\ Paced /\ InStep /\ Past
  BY DEF Inv
<1>2. /\ loc = "top" /\ now' = ms /\ toldNow' = FALSE
      /\ UNCHANGED <<surroundings, ms, device, backoffUntil, ages, call, used, wrapped>>
  BY DEF BackOff, Connect
<1>3. \/ Goto("backoff", 1)
      \/ ~(ms < backoffUntil) /\ (Goto("wifi", WifiTimeout) \/ Goto("linked", 0))
  BY DEF BackOff, Connect
<1>4. /\ loc' = "backoff" \/ (loc' = "wifi" /\ left' = WifiTimeout) \/ (loc' = "linked")
      /\ left' \in 0..Larger(WifiTimeout, HttpTimeout)
  BY <1>3, GotoTyped
<1>5. TypeOK'
  BY <1>1, <1>2, <1>4, MovedTyped DEF TypeOK
<1>6. Waiting'
  BY <1>1, <1>2, <1>4 DEF Waiting
<1>7. Paced'
  <2>1. Since' = 0
    BY <1>1, <1>2, TurnStarts
  <2>2. loc' = "wifi" => left' = WifiTimeout
    BY <1>4
  <2>3. loc' # "calling"
    BY <1>4
  <2> QED BY <2>1, <2>2, <2>3, Constants DEF Paced
<1>8. InStep'
  BY <1>1, <1>2 DEF InStep, ages
<1>9. Past'
  <2>1. loc' # "backoff" => ~(ms < backoffUntil)
    BY <1>3 DEF Goto
  <2>2. ms \in Nat /\ owed \in Nat /\ backoffUntil \in Nat
    BY <1>1, Constants, Lengths DEF TypeOK
  <2> QED BY <1>1, <1>2, <2>1, <2>2 DEF Past, InStep, ages
<1> QED BY <1>5, <1>6, <1>7, <1>8, <1>9 DEF Inv

\* Within a turn the time it has taken stays the same but for ticks.
LEMMA StillPaced ==
  ASSUME TypeOK, Paced, ms' = ms, now' = now,
         loc' = "wifi" => loc = "wifi" /\ left' = left,
         loc' = "linked" => loc \in {"linked", "wifi"},
         loc' = "calling" /\ call'.kind = "registry" =>
           \/ loc = "linked" /\ left' = HttpTimeout
           \/ loc = "calling" /\ call.kind = "registry" /\ left' = left
  PROVE  Paced'
<1>1. left \in Nat /\ WifiTimeout \in Nat /\ HttpTimeout \in Nat
  BY Constants, Lengths DEF TypeOK
<1>2. ASSUME NEW b \in Nat
      PROVE  /\ b + left <= WifiTimeout => b <= WifiTimeout
             /\ b <= WifiTimeout => b + HttpTimeout <= WifiTimeout + HttpTimeout
  BY <1>1
<1>3. Since \in Nat
  <2>1. ms \in 0..(Wrap - 1) /\ now \in 0..(Wrap - 1) /\ Wrap \in Nat \ {0}
    BY Constants DEF TypeOK
  <2> QED BY <2>1, Apart DEF Since
<1>4. PICK a \in Nat : a = Since /\ a = Since'
  BY <1>3 DEF Since
<1>5. /\ loc = "wifi" => a + left <= WifiTimeout
      /\ loc = "linked" => a <= WifiTimeout
      /\ loc = "calling" /\ call.kind = "registry" => a + left <= WifiTimeout + HttpTimeout
  BY <1>4 DEF Paced
<1>6. /\ a + left <= WifiTimeout => a <= WifiTimeout
      /\ a <= WifiTimeout => a + HttpTimeout <= WifiTimeout + HttpTimeout
  BY <1>2
<1> QED BY <1>4, <1>5, <1>6 DEF Paced

LEMMA SentCall ==
  ASSUME NEW kind \in {"registry", "events"}, NEW sightings \in SUBSET Tags,
         Send(kind, sightings)
  PROVE  /\ call' \in Call /\ call'.kind = kind /\ call'.kind # "none"
         /\ loc' = "calling" /\ left' = HttpTimeout
         /\ left' \in 0..Larger(WifiTimeout, HttpTimeout)
<1>1. call' \in Call /\ call'.kind = kind
  BY DEF Send, NoCall, Call
<1>2. loc' = "calling" /\ left' = HttpTimeout /\ left' \in 0..Larger(WifiTimeout, HttpTimeout)
  BY GotoTyped DEF Send
<1> QED BY <1>1, <1>2

\* A step of the loop in a turn, at which it learns nothing.
Walks ==
  /\ UNCHANGED <<surroundings, ms, now, device, told, ages, wrapped>>
  /\ used' \in 0..MaxChanges
  /\ left' \in 0..Larger(WifiTimeout, HttpTimeout)
  /\ \/ /\ call' = call /\ loc \notin {"top", "backoff", "calling"}
        /\ \/ loc' \in {"top", "pause", "main", "scan"}
           \/ loc' = "linked" /\ loc = "wifi"
     \/ /\ loc \in {"linked", "main", "scanned"} /\ loc' = "calling" /\ left' = HttpTimeout
        /\ call' \in Call /\ call'.kind # "none"
        /\ call'.kind = "registry" => loc = "linked"

LEMMA WalksInv == Inv /\ Walks => Inv'
<1> SUFFICES ASSUME Inv, Walks PROVE Inv'
  OBVIOUS
<1>1. TypeOK /\ Waiting /\ Paced /\ InStep /\ Past
  BY DEF Inv
<1>2. /\ loc' \in {"top", "pause", "main", "scan", "linked", "calling"} /\ call' \in Call
      /\ loc \notin {"top", "backoff"} /\ loc # "calling"
      /\ loc' = "linked" => loc = "wifi"
  BY <1>1 DEF Walks, TypeOK
<1>3. TypeOK'
  BY <1>1, <1>2, MovedTyped DEF Walks, TypeOK, told
<1>4. Waiting'
  BY <1>1, <1>2 DEF Walks, Waiting
<1>5. Paced'
  <2>1. loc' = "calling" /\ call'.kind = "registry" => loc = "linked" /\ left' = HttpTimeout
    BY <1>1 DEF Walks, Waiting
  <2> QED BY <1>1, <1>2, <2>1, StillPaced DEF Walks
<1>6. SameTold
  BY DEF Walks, SameTold, told, ages
<1>7. InStep' /\ Past'
  BY <1>1, <1>2, <1>6, StillInStep
<1> QED BY <1>3, <1>4, <1>5, <1>7 DEF Inv

LEMMA WaysToWalk ==
  ASSUME TypeOK, \/ Connected \/ AskRegistry \/ SkipRegistry \/ CheckIn \/ Scan \/ Report \/ Silence
  PROVE  Walks
<1>1. tags \subseteq Tags /\ {} \subseteq Tags /\ used \in 0..MaxChanges
  BY DEF TypeOK
<1>2. CASE Connected
  <2>1. Goto("linked", 0) \/ (left = 0 /\ Goto("pause", 1))
    BY <1>2 DEF Connected
  <2>2. loc' \in {"linked", "pause"} /\ left' \in 0..Larger(WifiTimeout, HttpTimeout)
    BY <2>1, GotoTyped
  <2> QED BY <1>1, <1>2, <2>2 DEF Walks, Connected
<1>3. CASE AskRegistry
  <2>1. /\ call' \in Call /\ call'.kind # "none" /\ loc' = "calling" /\ left' = HttpTimeout
        /\ left' \in 0..Larger(WifiTimeout, HttpTimeout)
    BY <1>1, <1>3, SentCall DEF AskRegistry
  <2> QED BY <1>1, <1>3, <2>1 DEF Walks, AskRegistry
<1>4. CASE SkipRegistry
  <2>1. Goto("main", 0) \/ Goto("pause", 1)
    BY <1>4 DEF SkipRegistry
  <2>2. loc' \in {"main", "pause"} /\ left' \in 0..Larger(WifiTimeout, HttpTimeout)
    BY <2>1, GotoTyped
  <2> QED BY <1>1, <1>4, <2>2 DEF Walks, SkipRegistry
<1>5. CASE CheckIn
  <2>1. Send("events", {}) \/ (Goto("pause", 1) /\ UNCHANGED call)
    BY <1>5 DEF CheckIn
  <2>2. CASE Send("events", {})
    <3>1. /\ call' \in Call /\ call'.kind = "events" /\ loc' = "calling" /\ left' = HttpTimeout
          /\ left' \in 0..Larger(WifiTimeout, HttpTimeout)
      BY <1>1, <2>2, SentCall
    <3> QED BY <1>1, <1>5, <3>1 DEF Walks, CheckIn
  <2>3. CASE Goto("pause", 1) /\ UNCHANGED call
    <3>1. loc' = "pause" /\ left' \in 0..Larger(WifiTimeout, HttpTimeout)
      BY <2>3, GotoTyped
    <3> QED BY <1>1, <1>5, <2>3, <3>1 DEF Walks, CheckIn
  <2> QED BY <2>1, <2>2, <2>3
<1>6. CASE Scan
  <2>1. loc' = "scan" /\ left' \in 0..Larger(WifiTimeout, HttpTimeout)
    BY <1>6, GotoTyped DEF Scan
  <2> QED BY <1>1, <1>6, <2>1 DEF Walks, Scan
<1>7. CASE Report
  <2>1. /\ call' \in Call /\ call'.kind = "events" /\ loc' = "calling" /\ left' = HttpTimeout
        /\ left' \in 0..Larger(WifiTimeout, HttpTimeout)
    BY <1>1, <1>7, SentCall DEF Report
  <2> QED BY <1>1, <1>7, <2>1 DEF Walks, Report
<1>8. CASE Silence
  <2>1. used' \in 0..MaxChanges
    BY <1>1, <1>8, Constants DEF Silence
  <2>2. Send("events", {}) \/ (Goto("top", 0) /\ UNCHANGED call)
    BY <1>8 DEF Silence
  <2>3. CASE Send("events", {})
    <3>1. /\ call' \in Call /\ call'.kind = "events" /\ loc' = "calling" /\ left' = HttpTimeout
          /\ left' \in 0..Larger(WifiTimeout, HttpTimeout)
      BY <1>1, <2>3, SentCall
    <3> QED BY <1>8, <2>1, <3>1 DEF Walks, Silence
  <2>4. CASE Goto("top", 0) /\ UNCHANGED call
    <3>1. loc' = "top" /\ left' \in 0..Larger(WifiTimeout, HttpTimeout)
      BY <2>4, GotoTyped
    <3> QED BY <1>8, <2>1, <2>4, <3>1 DEF Walks, Silence
  <2> QED BY <2>2, <2>3, <2>4
<1> QED BY <1>2, <1>3, <1>4, <1>5, <1>6, <1>7, <1>8

----------------------------------------------------------------------------
(* Requests and replies *)

\* The rest of the turn, after a call: nobody waits any more.
LEMMA TurnGoesOn ==
  ASSUME Returns
  PROVE  /\ call' = NoCall /\ call' \in Call /\ call'.kind = "none" /\ call'.state = "sent"
         /\ loc' \in {"top", "pause", "main"} /\ left' \in 0..Larger(WifiTimeout, HttpTimeout)
<1>1. call' = NoCall
  BY DEF Returns
<1>2. Goto("top", 0) \/ Goto("pause", 1) \/ Goto("main", 0)
  BY DEF Returns
<1>3. loc' \in {"top", "pause", "main"} /\ left' \in 0..Larger(WifiTimeout, HttpTimeout)
  BY <1>2, GotoTyped
<1>4. NoCall \in Call /\ NoCall.kind = "none" /\ NoCall.state = "sent"
  BY DEF NoCall, Call
<1> QED BY <1>1, <1>3, <1>4

LEMMA AnsweredWaitingPaced ==
  ASSUME Returns
  PROVE  Waiting' /\ Paced'
BY TurnGoesOn DEF Waiting, Paced

LEMMA HandleInv == Inv /\ Handle => Inv'
<1> SUFFICES ASSUME Inv, Handle PROVE Inv'
  OBVIOUS
<1>1. TypeOK /\ Waiting /\ Paced /\ InStep /\ Past
  BY DEF Inv
<1>2. /\ call.kind # "none"
      /\ UNCHANGED <<surroundings, ms, now, loc, left, device, told, ages, used, wrapped>>
  BY DEF Handle
<1>3. call' \in Call /\ call'.kind = call.kind
  <2> DEFINE heard == IF call.kind = "registry" THEN enabled ELSE call.tags
  <2>1. call \in Call /\ running \in BOOLEAN /\ heard \subseteq Tags
    BY <1>1 DEF TypeOK, Call
  <2>2. call' = [call EXCEPT !.state = "handled", !.active = running, !.tags = heard]
    BY DEF Handle
  <2> HIDE DEF heard
  <2> QED BY <2>1, <2>2 DEF Call
<1>4. TypeOK'
  BY <1>1, <1>2, <1>3 DEF TypeOK, surroundings, device, told, ages
<1>5. Waiting'
  BY <1>1, <1>2, <1>3 DEF Waiting
<1>6. Paced'
  BY <1>1, <1>2, <1>3, StillPaced
<1>7. InStep' /\ Past'
  BY <1>1, <1>2 DEF InStep, Past, told, ages
<1> QED BY <1>4, <1>5, <1>6, <1>7 DEF Inv

\* A list that comes is not older than the turn.
LEMMA ListIsYoung ==
  ASSUME Inv, call.kind = "registry"
  PROVE  Since \in 0..LongSinceRegistry
<1>1. TypeOK /\ Waiting /\ Paced
  BY DEF Inv
<1>2. /\ left \in Nat /\ WifiTimeout \in Nat /\ HttpTimeout \in Nat /\ RegistryRefresh \in Nat
      /\ LongSinceRegistry = RegistryRefresh + 1 + (WifiTimeout + 2 * HttpTimeout + 1)
  BY <1>1, Constants, Lengths DEF TypeOK
<1>3. ASSUME NEW b \in Nat, b + left <= WifiTimeout + HttpTimeout
      PROVE  b \in 0..LongSinceRegistry
  BY <1>2, <1>3
<1>4. Since \in Nat
  <2>1. ms \in 0..(Wrap - 1) /\ now \in 0..(Wrap - 1) /\ Wrap \in Nat \ {0}
    BY <1>1, Constants DEF TypeOK
  <2> QED BY <2>1, Apart DEF Since
<1>5. Since + left <= WifiTimeout + HttpTimeout
  BY <1>1 DEF Waiting, Paced
<1> HIDE DEF Since
<1> QED BY <1>3, <1>4, <1>5

LEMMA ReplyInv == Inv /\ Reply => Inv'
<1> SUFFICES ASSUME Inv, Reply PROVE Inv'
  OBVIOUS
<1>1. TypeOK /\ Waiting /\ Paced /\ InStep /\ Past
  BY DEF Inv
<1>2. /\ call.state = "handled" /\ Returns
      /\ UNCHANGED <<surroundings, ms, now, retryAt, told, owed, used, wrapped>>
  BY DEF Reply
<1>3. /\ call' \in Call /\ loc' \in {"top", "pause", "main"}
      /\ left' \in 0..Larger(WifiTimeout, HttpTimeout)
  BY <1>2, TurnGoesOn
<1>4. /\ tags' \subseteq Tags /\ Cardinality(tags') <= MaxTags
      /\ loaded' \in BOOLEAN /\ sessionActive' \in BOOLEAN
      /\ sincePost' \in 0..LongSincePost /\ sinceRegistry' \in 0..LongSinceRegistry
  <2>1. call.tags \subseteq Tags /\ call.active \in BOOLEAN
    BY <1>1 DEF TypeOK, Call
  <2>2. CASE call.kind = "registry"
    <3>1. Listed \subseteq Tags /\ Cardinality(Listed) <= MaxTags
      BY <2>1, ListedFits
    <3>2. Since \in 0..LongSinceRegistry
      BY <2>2, ListIsYoung
    <3>3. /\ tags' = Listed /\ loaded' = TRUE /\ sinceRegistry' = Since
          /\ sessionActive' = sessionActive /\ sincePost' = sincePost
      BY <2>2 DEF Reply
    <3>4. sessionActive \in BOOLEAN /\ sincePost \in 0..LongSincePost
      BY <1>1 DEF TypeOK
    <3> QED BY <3>1, <3>2, <3>3, <3>4
  <2>3. CASE call.kind # "registry"
    <3>1. /\ sessionActive' = call.active /\ sincePost' = 0
          /\ tags' = tags /\ loaded' = loaded /\ sinceRegistry' = sinceRegistry
      BY <2>3 DEF Reply
    <3>2. 0 \in 0..LongSincePost
      BY Lengths
    <3> QED BY <1>1, <2>1, <3>1, <3>2 DEF TypeOK
  <2> QED BY <2>2, <2>3
<1>5. TypeOK'
  <2> HIDE DEF Returns
  <2> QED BY <1>1, <1>2, <1>3, <1>4 DEF TypeOK, surroundings, told
<1>6. Waiting' /\ Paced'
  BY <1>2, AnsweredWaitingPaced
<1>7. InStep' /\ Past'
  <2>1. loc \notin {"top", "backoff"}
    BY <1>1, <1>2 DEF Waiting
  <2> QED BY <1>1, <1>2, <2>1, StillInStep DEF SameTold, told
<1> QED BY <1>5, <1>6, <1>7 DEF Inv

\* All that a failed call comes to, but for what the device is told.
LEMMA FailsTyped ==
  ASSUME Inv, CallFails, toldNow' \in BOOLEAN, wrapped' \in BOOLEAN,
         backoffUntil' \in 0..(Wrap - 1), owed' \in 0..Larger(Unauthorized, RateLimited),
         used' \in 0..MaxChanges
  PROVE  TypeOK' /\ Waiting' /\ Paced' /\ ms' = ms
<1>1. TypeOK
  BY DEF Inv
<1>2. /\ Returns
      /\ UNCHANGED <<tags, loaded, sessionActive, surroundings, ms, now, sinceRegistry>>
  BY DEF CallFails
<1>3. retryAt' \in 0..(Wrap - 1) /\ sincePost' \in 0..LongSincePost
  <2>1. retryAt' = (now + RegistryRetry) % Wrap \/ retryAt' = retryAt
    BY DEF CallFails
  <2>2. now + RegistryRetry \in Nat
    BY <1>1, Constants DEF TypeOK
  <2>3. (now + RegistryRetry) % Wrap \in 0..(Wrap - 1)
    BY <2>2, Around
  <2>4. sincePost' = sincePost \/ sincePost' = 0
    BY DEF CallFails
  <2>5. sincePost' \in 0..LongSincePost
    BY <1>1, <2>4, Lengths DEF TypeOK
  <2> QED BY <1>1, <2>1, <2>3, <2>5 DEF TypeOK
<1>4. /\ call' \in Call /\ loc' \in {"top", "pause", "main"}
      /\ left' \in 0..Larger(WifiTimeout, HttpTimeout)
  BY <1>2, TurnGoesOn
<1>5. TypeOK'
  BY <1>1, <1>2, <1>3, <1>4 DEF TypeOK, surroundings
<1>6. Waiting' /\ Paced'
  BY <1>2, AnsweredWaitingPaced
<1> QED BY <1>2, <1>5, <1>6

LEMMA KeepsOff ==
  ASSUME Inv, NEW wait \in {Unauthorized, RateLimited}, KeepOff(wait), ms' = ms
  PROVE  /\ backoffUntil' \in 0..(Wrap - 1) /\ owed' \in 0..Larger(Unauthorized, RateLimited)
         /\ toldNow' = TRUE /\ wrapped' \in BOOLEAN
         /\ InStep' /\ Past'
<1>1. ms \in 0..(Wrap - 1) /\ Wrap \in Nat \ {0} /\ wait \in Nat \ {0}
  BY Constants DEF Inv, TypeOK
<1>2. /\ backoffUntil' = (ms + wait) % Wrap /\ owed' = wait /\ toldNow' = TRUE
      /\ wrapped' = (ms + wait >= Wrap)
  BY DEF KeepOff, Deadline
<1>3. ms + wait \in Nat
  BY <1>1
<1>4. (ms + wait) % Wrap \in 0..(Wrap - 1) /\ (ms + wait < Wrap => (ms + wait) % Wrap = ms + wait)
  BY <1>3, Around
<1>5. wait \in 0..Larger(Unauthorized, RateLimited)
  BY <1>1, Lengths
<1>6. wrapped' \in BOOLEAN
  BY <1>2
<1>7. ~wrapped' => ms + wait < Wrap
  <2>1. ~(ms + wait >= Wrap) => ms + wait < Wrap
    BY <1>1
  <2> QED BY <1>2, <2>1
<1>8. InStep'
  BY <1>1, <1>2, <1>4, <1>7 DEF InStep
<1>9. Past'
  BY <1>2 DEF Past
<1> QED BY <1>2, <1>4, <1>5, <1>6, <1>8, <1>9

LEMMA RejectInv == Inv /\ Reject => Inv'
<1> SUFFICES ASSUME Inv, Reject PROVE Inv'
  OBVIOUS
<1>1. PICK wait \in {Unauthorized, RateLimited} : KeepOff(wait)
  BY DEF Reject, NoteFailure
<1>2. CallFails /\ ms' = ms /\ used' = used
  BY DEF Reject, CallFails
<1>3. /\ backoffUntil' \in 0..(Wrap - 1) /\ owed' \in 0..Larger(Unauthorized, RateLimited)
      /\ toldNow' = TRUE /\ wrapped' \in BOOLEAN
      /\ InStep' /\ Past'
  BY <1>1, <1>2, KeepsOff
<1>4. used' \in 0..MaxChanges
  BY <1>2 DEF Inv, TypeOK
<1>5. TypeOK' /\ Waiting' /\ Paced'
  BY <1>2, <1>3, <1>4, FailsTyped
<1> QED BY <1>3, <1>5 DEF Inv

LEMMA NoReplyInv == Inv /\ NoReply => Inv'
<1> SUFFICES ASSUME Inv, NoReply PROVE Inv'
  OBVIOUS
<1>1. TypeOK /\ Waiting /\ InStep /\ Past
  BY DEF Inv
<1>2. CallFails /\ ms' = ms /\ UNCHANGED <<told, owed, wrapped>> /\ call.kind # "none"
  BY DEF NoReply, CallFails
<1>3. used' \in 0..MaxChanges
  BY <1>1, Constants DEF NoReply, TypeOK
<1>4. /\ backoffUntil' \in 0..(Wrap - 1) /\ owed' \in 0..Larger(Unauthorized, RateLimited)
      /\ toldNow' \in BOOLEAN /\ wrapped' \in BOOLEAN
  BY <1>1, <1>2 DEF TypeOK, told
<1>5. TypeOK' /\ Waiting' /\ Paced'
  BY <1>2, <1>3, <1>4, FailsTyped
<1>6. InStep' /\ Past'
  <2>1. loc \notin {"top", "backoff"}
    BY <1>1, <1>2 DEF Waiting
  <2> QED BY <1>1, <1>2, <2>1, StillInStep DEF SameTold, told
<1> QED BY <1>5, <1>6 DEF Inv

----------------------------------------------------------------------------
(* Surroundings *)

LEMMA ChangeTyped ==
  ASSUME TypeOK, Change
  PROVE  used' \in 0..MaxChanges
BY Constants DEF TypeOK, Change

\* What happens around the device does not touch it.
LEMMA AroundInv ==
  ASSUME Inv, running' \in BOOLEAN, enabled' \subseteq Tags,
         net' \in {"ok", "no_wifi", "down", "unauthorized", "limited"},
         used' \in 0..MaxChanges,
         UNCHANGED <<ms, now, loc, left, device, told, ages, call, wrapped>>
  PROVE  Inv'
<1>1. TypeOK'
  BY DEF Inv, TypeOK, device, told, ages
<1>2. Waiting'
  BY DEF Inv, Waiting
<1>3. Paced'
  BY StillPaced DEF Inv
<1>4. InStep' /\ Past'
  BY DEF Inv, InStep, Past, told, ages
<1> QED BY <1>1, <1>2, <1>3, <1>4 DEF Inv

LEMMA SurroundingsInv ==
  Inv /\ (\/ SessionChanges
          \/ \E t \in Tags : TagChanges(t)
          \/ \E to \in {"ok", "no_wifi", "down", "unauthorized", "limited"} : NetChanges(to))
    => Inv'
<1>1. ASSUME Inv, SessionChanges PROVE Inv'
  <2>1. TypeOK /\ used' \in 0..MaxChanges
    BY <1>1, ChangeTyped DEF Inv, SessionChanges
  <2> QED BY <1>1, <2>1, AroundInv DEF SessionChanges, TypeOK
<1>2. ASSUME Inv, NEW t \in Tags, TagChanges(t) PROVE Inv'
  <2>1. TypeOK /\ used' \in 0..MaxChanges
    BY <1>2, ChangeTyped DEF Inv, TagChanges
  <2>2. enabled' \subseteq Tags
    BY <1>2, <2>1 DEF TagChanges, TypeOK
  <2> QED BY <1>2, <2>1, <2>2, AroundInv DEF TagChanges, TypeOK
<1>3. ASSUME Inv, NEW to \in {"ok", "no_wifi", "down", "unauthorized", "limited"}, NetChanges(to)
      PROVE  Inv'
  <2>1. TypeOK /\ used' \in 0..MaxChanges
    BY <1>3, ChangeTyped DEF Inv, NetChanges
  <2> QED BY <1>3, <2>1, AroundInv DEF NetChanges, TypeOK
<1> QED BY <1>1, <1>2, <1>3

\* A device that has just been switched on, as the first time or after a power cut.
LEMMA BootTyped ==
  ASSUME Boot, running' \in BOOLEAN, enabled' \subseteq Tags,
         net' \in {"ok", "no_wifi", "down", "unauthorized", "limited"}, used' \in 0..MaxChanges
  PROVE  Inv'
<1>1. /\ 0 \in 0..(Wrap - 1) /\ 0 \in 0..Larger(WifiTimeout, HttpTimeout)
      /\ 0 \in 0..Larger(Unauthorized, RateLimited)
      /\ LongSincePost \in 0..LongSincePost /\ LongSinceRegistry \in 0..LongSinceRegistry
  BY Constants, Lengths
<1>2. NoCall \in Call /\ NoCall.kind = "none" /\ NoCall.state = "sent"
  BY DEF NoCall, Call
<1>3. /\ ms' = 0 /\ now' = 0 /\ loc' = "top" /\ left' = 0
      /\ tags' = {} /\ loaded' = FALSE /\ sessionActive' = FALSE
      /\ backoffUntil' = 0 /\ retryAt' = 0
      /\ sincePost' = LongSincePost /\ sinceRegistry' = LongSinceRegistry
      /\ call' = NoCall /\ owed' = 0 /\ toldNow' = FALSE /\ wrapped' = FALSE
  BY DEF Boot
<1>4. Cardinality({}) <= MaxTags
  BY FS_EmptySet, Constants
<1>5. /\ {ms', now', backoffUntil', retryAt'} \subseteq 0..(Wrap - 1)
      /\ tags' \subseteq Tags /\ Cardinality(tags') <= MaxTags
      /\ {loaded', sessionActive', toldNow', wrapped'} \subseteq BOOLEAN
      /\ sincePost' \in 0..LongSincePost'
      /\ sinceRegistry' \in 0..LongSinceRegistry'
  BY <1>1, <1>3, <1>4 DEF LongSincePost, LongSinceRegistry, Turn, Larger
<1>6. TypeOK'
  BY <1>1, <1>2, <1>3, <1>5 DEF TypeOK
<1>7. Waiting' /\ Paced' /\ InStep' /\ Past'
  BY <1>2, <1>3 DEF Waiting, Paced, InStep, Past
<1> QED BY <1>6, <1>7 DEF Inv

LEMMA PowerCutInv == Inv /\ PowerCut => Inv'
<1> SUFFICES ASSUME Inv, PowerCut PROVE Inv'
  OBVIOUS
<1>1. used' \in 0..MaxChanges
  BY ChangeTyped DEF Inv, PowerCut
<1>2. Boot /\ UNCHANGED <<running, enabled, net>>
  BY DEF PowerCut, surroundings
<1> QED BY <1>1, <1>2, BootTyped DEF Inv, TypeOK

LEMMA InitInv == Init => Inv
<1> SUFFICES ASSUME Init PROVE Inv
  OBVIOUS
<1>1. /\ 0 \in 0..(Wrap - 1) /\ 0 \in 0..Larger(WifiTimeout, HttpTimeout)
      /\ 0 \in 0..Larger(Unauthorized, RateLimited) /\ 0 \in 0..MaxChanges
      /\ LongSincePost \in 0..LongSincePost /\ LongSinceRegistry \in 0..LongSinceRegistry
  BY Constants, Lengths
<1>2. NoCall \in Call /\ NoCall.kind = "none" /\ NoCall.state = "sent"
  BY DEF NoCall, Call
<1>3. Cardinality({}) <= MaxTags
  BY FS_EmptySet, Constants
<1>4. TypeOK
  BY <1>1, <1>2, <1>3 DEF TypeOK, Init
<1>5. Waiting /\ Paced /\ InStep /\ Past
  BY <1>2 DEF Init, Waiting, Paced, InStep, Past
<1> QED BY <1>4, <1>5 DEF Inv

LEMMA StutterInv == Inv /\ UNCHANGED vars => Inv'
<1> SUFFICES ASSUME Inv, UNCHANGED vars PROVE Inv'
  OBVIOUS
<1>1. running' = running /\ enabled' = enabled /\ net' = net /\ used' = used
  BY DEF vars, surroundings
<1>2. UNCHANGED <<ms, now, loc, left, device, told, ages, call, wrapped>>
  BY DEF vars
<1> QED BY <1>1, <1>2, AroundInv DEF Inv, TypeOK

LEMMA StepInv == Inv /\ [Next]_vars => Inv'
<1> SUFFICES ASSUME Inv, [Next]_vars PROVE Inv'
  OBVIOUS
<1>1. CASE Tick
  BY <1>1, TickInv
<1>2. CASE BackOff \/ Connect
  BY <1>2, BeginInv
<1>3. CASE \/ Connected \/ AskRegistry \/ SkipRegistry \/ CheckIn \/ Scan \/ Report \/ Silence
  <2>1. Walks
    BY <1>3, WaysToWalk DEF Inv
  <2> QED BY <2>1, WalksInv
<1>4. CASE Reply
  BY <1>4, ReplyInv
<1>5. CASE Handle
  BY <1>5, HandleInv
<1>6. CASE Reject
  BY <1>6, RejectInv
<1>7. CASE NoReply
  BY <1>7, NoReplyInv
<1>8. CASE \/ SessionChanges
           \/ \E t \in Tags : TagChanges(t)
           \/ \E to \in {"ok", "no_wifi", "down", "unauthorized", "limited"} : NetChanges(to)
  BY <1>8, SurroundingsInv
<1>9. CASE PowerCut
  BY <1>9, PowerCutInv
<1>10. CASE UNCHANGED vars
  BY <1>10, StutterInv
<1> QED BY <1>1, <1>2, <1>3, <1>4, <1>5, <1>6, <1>7, <1>8, <1>9, <1>10 DEF Next, Loop, Backend

LEMMA Invariance == Init /\ [][Next]_vars => []Inv
BY InitInv, StepInv, PTL

----------------------------------------------------------------------------
(* Theorems *)

\* Whatever is answered, refused or lost, and however often the clock wraps, the state of
\* the device keeps its types: refreshRegistry never fills more than MAX_TAGS places,
\* the clock and its deadlines stay within 32 bits, and the ages of the list and of the
\* last post are those of a turn of loop().
THEOREM TypeCorrect == Spec => []TypeOK
<1>1. Inv => TypeOK
  BY DEF Inv
<1> QED BY <1>1, Invariance, PTL DEF Spec

LEMMA StepSilent ==
  ASSUME Inv, [Next]_vars
  PROVE  [/\ loc' = "backoff" /\ loc # "backoff" => owed > 0 \/ wrapped
          /\ call.kind = "none" /\ call'.kind # "none" => owed = 0 \/ toldNow \/ wrapped]_vars
<1> SUFFICES ASSUME Next
             PROVE  /\ loc' = "backoff" /\ loc # "backoff" => owed > 0 \/ wrapped
                    /\ call.kind = "none" /\ call'.kind # "none" => owed = 0 \/ toldNow \/ wrapped
  OBVIOUS
<1>1. TypeOK /\ Waiting /\ InStep /\ Past
  BY DEF Inv
<1>2. ms \in Nat /\ owed \in Nat /\ backoffUntil \in Nat
  BY <1>1, Constants, Lengths DEF TypeOK
<1>3. CASE Tick
  <2>1. call' = call /\ loc' = CASE loc \in {"backoff", "pause"} -> "top" [] loc = "scan" -> "scanned"
                                 [] OTHER -> loc
    BY <1>3 DEF Tick
  <2> QED BY <2>1
<1>4. CASE BackOff
  <2>1. ms < backoffUntil /\ call' = call
    BY <1>4 DEF BackOff
  <2>2. owed > 0 \/ wrapped
    BY <1>1, <1>2, <2>1 DEF InStep
  <2> QED BY <2>1, <2>2
<1>5. CASE Connect
  BY <1>5 DEF Connect, Goto
<1>6. CASE \/ Connected \/ AskRegistry \/ SkipRegistry \/ CheckIn \/ Scan \/ Report \/ Silence
  <2>1. Walks
    BY <1>1, <1>6, WaysToWalk
  <2>2. loc' # "backoff"
    BY <2>1 DEF Walks
  <2>3. call' = call \/ loc \in {"linked", "main", "scanned"}
    BY <2>1 DEF Walks
  <2> QED BY <1>1, <2>2, <2>3 DEF Past
<1>7. CASE Reply \/ Reject \/ NoReply
  <2>1. Returns
    BY <1>7 DEF Reply, Reject, NoReply, CallFails
  <2> QED BY <2>1, TurnGoesOn
<1>8. CASE Handle
  BY <1>8 DEF Handle
<1>9. CASE \/ SessionChanges
           \/ \E t \in Tags : TagChanges(t)
           \/ \E to \in {"ok", "no_wifi", "down", "unauthorized", "limited"} : NetChanges(to)
  <2>1. loc' = loc /\ call' = call
    BY <1>9 DEF SessionChanges, TagChanges, NetChanges
  <2> QED BY <2>1
<1>10. CASE PowerCut
  BY <1>10 DEF PowerCut, Boot, NoCall
<1> QED BY <1>3, <1>4, <1>5, <1>6, <1>7, <1>8, <1>9, <1>10 DEF Next, Loop, Backend

LEMMA KeepsOffAsTold == Init /\ [][Next]_vars => SilentAsTold
<1>1. Inv /\ [Next]_vars =>
        [/\ loc' = "backoff" /\ loc # "backoff" => owed > 0 \/ wrapped
         /\ call.kind = "none" /\ call'.kind # "none" => owed = 0 \/ toldNow \/ wrapped]_vars
  BY StepSilent
<1> QED BY <1>1, Invariance, PTL DEF SilentAsTold

\* noteFailure's deadline, compared with a clock that wraps, is kept to: a turn of loop()
\* backs off only while the device is to keep off, and in that time no request is sent by
\* a turn that begins in it, for any durations and any width of the clock.
THEOREM DeviceKeepsOff == Spec => SilentAsTold
BY KeepsOffAsTold, PTL DEF Spec

----------------------------------------------------------------------------
(* With the watch *)

LEMMA ClockStep == [ClockNext]_allVars => [Next]_vars
<1>1. ASSUME TimePasses PROVE Next
  BY <1>1 DEF TimePasses, Next, Loop
<1>2. ASSUME Request PROVE Next
  BY <1>2 DEF Request, Next, Backend
<1>3. ASSUME OtherStep PROVE Next
  BY <1>3 DEF OtherStep, Next, Loop, Backend
<1>4. ASSUME RunPickupWatch PROVE UNCHANGED vars
  BY <1>4 DEF RunPickupWatch
<1>5. ASSUME UNCHANGED allVars PROVE UNCHANGED vars
  BY <1>5 DEF allVars
<1> QED BY <1>1, <1>2, <1>3, <1>4, <1>5 DEF ClockNext

\* Beside the watch the device does what it does alone: requireGateway's touch of the row
\* and the run of the watch take no part in its steps, and it keeps off as it was told.
THEOREM WatchLeavesGatewayAlone == ClockSpec => [][Next]_vars /\ []TypeOK /\ SilentAsTold
<1>1. ClockInit => Init
  BY DEF ClockInit
<1>2. Inv => TypeOK
  BY DEF Inv
<1> QED BY <1>1, <1>2, ClockStep, Invariance, KeepsOffAsTold, PTL DEF ClockSpec

\* The row never claims that the gateway was heard from later than it was.
RowNotAhead ==
  /\ sinceTouch \in 0..LongSinceTouch /\ sinceHeard \in 0..LongSinceTouch
  /\ sinceHeard <= sinceTouch

LEMMA OlderFits ==
  ASSUME NEW most \in Nat, NEW a \in 0..most, NEW b \in 0..most, a <= b
  PROVE  /\ Older(a, most) \in 0..most /\ Older(b, most) \in 0..most
         /\ Older(a, most) <= Older(b, most)
BY DEF Older

\* IsGatewayOnline looks at lastSeenAt, which is not touched by every request: it may be
\* too old, and then the clock restarts without an outage, but it is never too young.  So
\* a run of the watch in an outage restarts the clock of silence.
THEOREM RunsSeeOutages ==
  ASSUME Touch \in Nat, Online \in Nat
  PROVE  ClockSpec => OutagesRestartTheClock
<1>1. LongSinceTouch \in Nat
  <2>1. Larger(Touch, Online) \in Nat
    BY LargerFits
  <2> QED BY <2>1 DEF LongSinceTouch
<1>2. ClockInit => RowNotAhead
  BY <1>1 DEF ClockInit, RowNotAhead
<1>3. RowNotAhead /\ [ClockNext]_allVars => RowNotAhead'
  <2> SUFFICES ASSUME RowNotAhead, [ClockNext]_allVars PROVE RowNotAhead'
    OBVIOUS
  <2>1. LongSinceTouch' = LongSinceTouch
    BY DEF LongSinceTouch, Larger
  <2>2. CASE TimePasses
    <3>1. /\ sinceTouch' = Older(sinceTouch, LongSinceTouch)
          /\ sinceHeard' = Older(sinceHeard, LongSinceTouch)
      BY <2>2 DEF TimePasses
    <3> QED BY <1>1, <2>1, <3>1, OlderFits DEF RowNotAhead
  <2>3. CASE Request
    <3>1. sinceTouch' \in {0, sinceTouch} /\ sinceHeard' = 0
      BY <2>3 DEF Request, HeardFrom
    <3> QED BY <1>1, <2>1, <3>1 DEF RowNotAhead
  <2>4. CASE OtherStep \/ RunPickupWatch \/ UNCHANGED allVars
    <3>1. sinceTouch' = sinceTouch /\ sinceHeard' = sinceHeard
      BY <2>4 DEF OtherStep, RunPickupWatch, allVars, clock
    <3> QED BY <2>1, <3>1 DEF RowNotAhead
  <2> QED BY <2>2, <2>3, <2>4 DEF ClockNext
<1>4. RowNotAhead /\ [ClockNext]_allVars =>
        [RunPickupWatch /\ sinceHeard >= Online => sinceUnhealthy' = 0]_allVars
  <2> SUFFICES ASSUME RowNotAhead, RunPickupWatch, sinceHeard >= Online
               PROVE  sinceUnhealthy' = 0
    OBVIOUS
  <2>1. ~(sinceTouch < Online)
    BY <1>1 DEF RowNotAhead
  <2> QED BY <2>1 DEF RunPickupWatch, IsGatewayOnline
<1> QED BY <1>2, <1>3, <1>4, PTL DEF ClockSpec, OutagesRestartTheClock
=============================================================================
