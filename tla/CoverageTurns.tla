----------------------------- MODULE CoverageTurns -----------------------------
(***************************************************************************)
(* The coverage of every lane in an update, in turns, and what a rate      *)
(* limit met in it does to that update and to later ones                   *)
(* (_async_cover_lanes and what it calls in coordinator.py).               *)
(*                                                                         *)
(* A lane here is how many windows it still asks for; which dates they     *)
(* are, and how they are imported, is Lane's subject.  A walk is whether   *)
(* it lets its lane ask.  The entry is not reloaded.                       *)
(***************************************************************************)
EXTENDS Integers, Sequences, FiniteSets

CONSTANTS
  Lanes,            \* the units, as their places in the order of an update
  PropertyOf,       \* [Lanes -> properties]
  CoverageWindows,  \* windows a lane asks for in one update
  Most,             \* windows each lane has to ask for
  Interval,         \* time between two updates
  LongestUpdate,    \* time an update's requests take at most
  RateLimitWaits,   \* the waits Meridian may ask for
  LongestRateLimit, \* which a rate limit's wait never exceeds
  Trials            \* bound: how often each of Faults may befall a behaviour

\* Walks and windows that fail, and updates; rate limits; time budgets that
\* end; updates somebody asks for.
Faults == {"failures", "limits", "budgets", "refreshes"}

ASSUME TurnsAssumption ==
  /\ Lanes \subseteq Nat /\ IsFiniteSet(Lanes) /\ Lanes # {}
  /\ CoverageWindows \in Nat \ {0} /\ Interval \in Nat \ {0}
  /\ LongestRateLimit \in Nat \ {0}
  /\ Most \in Nat /\ LongestUpdate \in Nat
  /\ RateLimitWaits \subseteq Nat \ {0}
  /\ Trials \subseteq [Faults -> Nat]

VARIABLES
  phase,      \* of the update
  elapsed,    \* time since it began
  due,        \* time until the next one
  complete,   \* _initial_refresh_complete
  left,       \* per lane: the windows it may ask for
  back,       \* per lane: those that failed and wait
  retry,      \* per lane: how long they wait
  active,     \* the lanes taking turns
  round,      \* those of them whose turn of this round is still to come
  asked,      \* per lane: windows asked for in this update
  stopped,    \* properties cooling down after a gateway timeout
  limit,      \* _coverage_rate_limit: the wait Meridian asked for, or 0
  hold,       \* _coverage_not_before: time until then, in an update from its start
  rateLimits, \* _rate_limits, as far as its doubling goes
  wait,       \* history: what is left of the last rate limit's wait
  inCoverage, \* history: a lane met it
  refreshed,  \* history: somebody asked for an update in that wait
  timeouts,   \* history: per property, timeouts in this update's coverage
  spare       \* what is left of each bound

lanes == <<left, back, retry>>
turns == <<active, round, asked, stopped, timeouts>>
limits == <<limit, hold, rateLimits, wait, inCoverage, refreshed>>
vars == <<phase, elapsed, due, complete, lanes, turns, limits, spare>>

Properties == {PropertyOf[l] : l \in Lanes}

Use(fault) == /\ spare[fault] > 0
              /\ spare' = [spare EXCEPT ![fault] = @ - 1]

Larger(m, n) == IF m > n THEN m ELSE n
Smaller(m, n) == IF m < n THEN m ELSE n

\* How long a rate limit is waited out: twice as long for each in a row.
Doublings == <<1, 2, 4, 8, 16, 32>>
RateLimitWait(asks) == Smaller(LongestRateLimit, asks * Doublings[rateLimits + 1])
OneMoreLimit == Smaller(5, rateLimits + 1)

\* Meridian asks for a wait, and the integration means to keep it.
Waits(asks, covering) == /\ wait' = RateLimitWait(asks)
                         /\ inCoverage' = covering /\ refreshed' = FALSE

NoneAsked == [l \in Lanes |-> 0]

\* Mutant: what an update has asked for counts in the next.
TurnsOverCounted == /\ active' = {} /\ round' = {} /\ stopped' = {}
                    /\ timeouts' = [p \in Properties |-> 0]
                    /\ UNCHANGED asked

\* The turns of an update are its own.
TurnsOver == /\ active' = {} /\ round' = {} /\ stopped' = {}
             /\ asked' = NoneAsked /\ timeouts' = [p \in Properties |-> 0]

-------------------------------------------------------------------------------
Init ==
  /\ phase = "waiting" /\ elapsed = 0 /\ due = 0 /\ complete = FALSE
  /\ left = [l \in Lanes |-> Most]
  /\ back = [l \in Lanes |-> 0] /\ retry = [l \in Lanes |-> 0]
  /\ active = {} /\ round = {} /\ stopped = {}
  /\ asked = NoneAsked /\ timeouts = [p \in Properties |-> 0]
  /\ limit = 0 /\ hold = 0 /\ rateLimits = 0
  /\ wait = 0 /\ inCoverage = FALSE /\ refreshed = FALSE
  /\ spare \in Trials

\* An update begins, and its walks ask Meridian.
Begin ==
  /\ phase = "waiting"
  /\ phase' = "walking"
  /\ limit' = 0
  /\ UNCHANGED <<elapsed, due, complete, lanes, turns, hold, rateLimits, wait, inCoverage>>

UpdateDue == /\ due = 0
             /\ Begin
             /\ UNCHANGED <<refreshed, spare>>

\* Somebody asks for an update before the next is due.
Refresh == /\ due > 0 /\ Use("refreshes")
           /\ Begin
           /\ refreshed' = TRUE

\* How an update ends, when the next is due, and until when no lane asks.
Ends(next, held) == /\ phase' = "waiting" /\ due' = next /\ elapsed' = 0
                    /\ hold' = Larger(0, held - elapsed)
                    /\ TurnsOver
                    /\ UNCHANGED lanes

\* It fails otherwise: the next is the hourly one, or a first sync's retry.
UpdateFails ==
  /\ phase = "walking"
  /\ Use("failures")
  /\ \E next \in (IF complete THEN Interval ELSE 1) .. Interval : Ends(next, hold)
  /\ UNCHANGED <<complete, limit, rateLimits, wait, inCoverage, refreshed>>

WalksLimited ==
  /\ phase = "walking"
  /\ Use("limits")
  /\ \E asks \in RateLimitWaits : Ends(RateLimitWait(asks), hold) /\ Waits(asks, FALSE)
  /\ rateLimits' = OneMoreLimit
  /\ UNCHANGED <<complete, limit>>

\* _covers: of the units whose walk went through, those whose lane may ask.
Covers(went, cooling) ==
  IF ~ complete \/ hold > 0 THEN {} ELSE {l \in went : PropertyOf[l] \notin cooling}

\* The walks went through, or some: the lanes of those take turns.
WalksEnd ==
  /\ phase = "walking"
  /\ \E went \in SUBSET Lanes, cooling \in SUBSET Properties :
       /\ cooling \subseteq {PropertyOf[l] : l \in Lanes \ went}
       /\ IF went = Lanes THEN UNCHANGED spare ELSE Use("failures")
       /\ active' = {l \in Covers(went, cooling) : left[l] > 0}
  /\ round' = active'
  /\ complete' = TRUE
  /\ phase' = "covering"
  /\ UNCHANGED <<elapsed, due, lanes, asked, stopped, timeouts, limits>>

-------------------------------------------------------------------------------
(***************************************************************************)
(* The turns.                                                              *)
(***************************************************************************)
Turn(l) == /\ phase = "covering"
           /\ l \in round
           /\ \A k \in round : l <= k

\* Mutant: a lane that goes on keeps its turn.
KeepsTurn(l) == UNCHANGED <<active, round>>

\* The lane goes on, at its next turn; or takes no part in the next round.
GoesOn(l) == /\ active' = active
             /\ round' = IF round = {l} THEN active ELSE round \ {l}
GivesUp(l) == /\ active' = active \ {l}
              /\ round' = IF round = {l} THEN active' ELSE round \ {l}

\* Mutant: a property that timed out is asked on behalf of its other lane.
AsksAnyway(l) == left[l] > 0 /\ asked[l] < CoverageWindows

\* Mutant: an update asks for all a lane is missing.
AsksForAll(l) == left[l] > 0 /\ PropertyOf[l] \notin stopped

\* Whether the lane asks for one window more.
Asks(l) == left[l] > 0 /\ asked[l] < CoverageWindows /\ PropertyOf[l] \notin stopped

NothingToAsk(l) ==
  /\ Turn(l) /\ ~ Asks(l)
  /\ GivesUp(l)
  /\ UNCHANGED <<phase, elapsed, due, complete, lanes, asked, stopped, timeouts, limits, spare>>

Asking(l) == /\ Turn(l) /\ Asks(l)
             /\ asked' = [asked EXCEPT ![l] = @ + 1]
             /\ UNCHANGED <<elapsed, due, complete>>

\* It is imported, and may have shown where the history starts.
WindowImported(l) ==
  /\ Asking(l)
  /\ \E rest \in {0, left[l] - 1} : left' = [left EXCEPT ![l] = rest]
  /\ GoesOn(l)
  /\ UNCHANGED <<phase, back, retry, stopped, timeouts, limits, spare>>

\* It fails, and waits for the next hourly update, with those that wait already.
WindowWaits(l) ==
  /\ left' = [left EXCEPT ![l] = @ - 1]
  /\ back' = [back EXCEPT ![l] = @ + 1]
  /\ retry' = [retry EXCEPT ![l] = Interval]

WindowFails(l) ==
  /\ Asking(l)
  /\ Use("failures")
  /\ WindowWaits(l) /\ GivesUp(l)
  /\ UNCHANGED <<phase, stopped, timeouts, limits>>

WindowTimesOut(l) ==
  /\ Asking(l)
  /\ Use("failures")
  /\ WindowWaits(l) /\ GivesUp(l)
  /\ stopped' = stopped \cup {PropertyOf[l]}
  /\ timeouts' = [timeouts EXCEPT ![PropertyOf[l]] = @ + 1]
  /\ UNCHANGED <<phase, limits>>

BudgetEnds(l) ==
  /\ Asking(l)
  /\ Use("budgets")
  /\ phase' = "covered"
  /\ UNCHANGED <<lanes, active, round, stopped, timeouts, limits>>

\* A rate limit ends every lane's coverage, and fails nothing.
WindowLimited(l) ==
  /\ Asking(l)
  /\ Use("limits")
  /\ \E asks \in RateLimitWaits : limit' = asks /\ Waits(asks, TRUE)
  /\ phase' = "covered"
  /\ UNCHANGED <<lanes, active, round, stopped, timeouts, hold, rateLimits>>

NoneActive ==
  /\ phase = "covering" /\ active = {}
  /\ phase' = "covered"
  /\ UNCHANGED <<elapsed, due, complete, lanes, turns, limits, spare>>

-------------------------------------------------------------------------------
(***************************************************************************)
(* The billing of the update, and its end.                                 *)
(***************************************************************************)
\* Mutant: a period that has ended is asked for, whatever the coverage met.
AsksAlways == phase = "covered"

\* A period that is a day old, or has ended, is asked for again.
AsksBilling == phase = "covered" /\ limit = 0

BillingAsked ==
  /\ AsksBilling
  /\ phase' = "ending"
  /\ UNCHANGED <<elapsed, due, complete, lanes, turns, limits, spare>>

\* It is cached, or withheld.
BillingKept ==
  /\ phase = "covered"
  /\ phase' = "ending"
  /\ UNCHANGED <<elapsed, due, complete, lanes, turns, limits, spare>>

\* A rate limit there fails the update after all.
BillingLimited ==
  /\ AsksBilling
  /\ Use("limits")
  /\ \E asks \in RateLimitWaits : Ends(RateLimitWait(asks), hold) /\ Waits(asks, FALSE)
  /\ rateLimits' = OneMoreLimit
  /\ UNCHANGED <<complete, limit>>

\* The totals cannot be read: the update fails, and honours no rate limit.
TotalsFail ==
  /\ phase = "ending"
  /\ Use("failures")
  /\ Ends(Interval, hold)
  /\ wait' = IF limit = 0 THEN wait ELSE 0
  /\ UNCHANGED <<complete, limit, rateLimits, inCoverage, refreshed>>

\* Mutant: the next update is the hourly one, however long the wait.
NextHourly(waits) == Interval

NextAfter(waits) == Larger(Interval, waits)

\* _honour_coverage_rate_limit: the wait counts from the update's start, and
\* the next update is due that long after its end.
UpdateEnds ==
  /\ phase = "ending"
  /\ IF limit = 0
     THEN Ends(Interval, hold) /\ rateLimits' = 0
     ELSE /\ Ends(NextAfter(RateLimitWait(limit)), RateLimitWait(limit))
          /\ rateLimits' = OneMoreLimit
  /\ UNCHANGED <<complete, limit, wait, inCoverage, refreshed, spare>>

-------------------------------------------------------------------------------
Less(n) == Larger(0, n - 1)

\* Windows whose wait is over may be asked for again.
Ripens == /\ retry' = [l \in Lanes |-> Less(retry[l])]
          /\ left' = [l \in Lanes |-> IF retry[l] = 1 THEN left[l] + back[l] ELSE left[l]]
          /\ back' = [l \in Lanes |-> IF retry[l] = 1 THEN 0 ELSE back[l]]

TimePasses ==
  /\ \/ /\ phase = "waiting" /\ due > 0
        /\ due' = due - 1 /\ hold' = Less(hold) /\ UNCHANGED elapsed
     \/ /\ phase \in {"walking", "covering"} /\ elapsed < LongestUpdate
        /\ elapsed' = elapsed + 1 /\ UNCHANGED <<due, hold>>
  /\ Ripens
  /\ wait' = Less(wait)
  /\ IF wait > 1 THEN UNCHANGED <<inCoverage, refreshed>>
     ELSE inCoverage' = FALSE /\ refreshed' = FALSE
  /\ UNCHANGED <<phase, complete, turns, limit, rateLimits, spare>>

AsksWindow ==
  \E l \in Lanes : \/ WindowImported(l) \/ WindowFails(l) \/ WindowTimesOut(l)
                   \/ BudgetEnds(l) \/ WindowLimited(l)

\* What goes on by itself: all but what somebody asks for.
Steps ==
  \/ UpdateDue \/ UpdateFails \/ WalksLimited \/ WalksEnd
  \/ AsksWindow \/ (\E l \in Lanes : NothingToAsk(l)) \/ NoneActive
  \/ BillingAsked \/ BillingKept \/ BillingLimited \/ TotalsFail \/ UpdateEnds
  \/ TimePasses

Next == Steps \/ Refresh

Spec == Init /\ [][Next]_vars

\* Home Assistant starts updates that are due, requests end one way or
\* another, and time passes.
FairSpec == Spec /\ WF_vars(Steps)

-------------------------------------------------------------------------------
\* The state of the coordinator, as the code keeps it.
TypeOK ==
  /\ phase \in {"waiting", "walking", "covering", "covered", "ending"}
  /\ elapsed \in 0 .. LongestUpdate /\ due \in Nat
  /\ complete \in BOOLEAN
  /\ left \in [Lanes -> 0 .. Most] /\ back \in [Lanes -> 0 .. Most]
  /\ retry \in [Lanes -> 0 .. Interval]
  /\ \A l \in Lanes : left[l] + back[l] <= Most
  /\ active \subseteq Lanes /\ round \subseteq active
  /\ asked \in [Lanes -> 0 .. CoverageWindows]
  /\ stopped \subseteq Properties /\ timeouts \in [Properties -> Nat]
  /\ limit \in RateLimitWaits \cup {0} /\ rateLimits \in 0 .. 5
  /\ hold \in 0 .. LongestRateLimit /\ wait \in 0 .. LongestRateLimit
  /\ inCoverage \in BOOLEAN /\ refreshed \in BOOLEAN
  /\ spare \in [Faults -> Nat]

\* While a rate limit's wait lasts nothing is asked of Meridian, by a walk, a
\* lane or the billing, in the update that met it or in a later one, unless
\* somebody asks for an update.  Even then no lane asks if a lane met it, but
\* that the wait counts from the start of that update (_coverage_not_before).
LimitIsObeyed ==
  [][/\ UpdateDue \/ BillingAsked \/ BillingLimited => wait = 0 \/ refreshed
     /\ AsksWindow => \/ wait = 0
                      \/ refreshed /\ (inCoverage => wait <= LongestUpdate)]_vars

\* Lanes that still ask have had as many turns as one another, or one more
\* (_async_cover_lanes: "a window each, so each gets some of the time budget").
TurnsAreEven ==
  phase = "covering" =>
    \A l, k \in active : asked[l] <= asked[k] + 1

\* A property that timed out in the coverage is not asked again in it, by
\* another of its lanes either: it times out once (_STOP_PROPERTY).
OneTimeoutEach == \A p \in Properties : timeouts[p] <= 1

\* Every lane gets all its windows in the end, whichever lane or walk failed,
\* met a rate limit or ran out of time before.
AllLanesCovered == <>[](\A l \in Lanes : left[l] + back[l] = 0)
===============================================================================
