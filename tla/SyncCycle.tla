------------------------------ MODULE SyncCycle ------------------------------
(***************************************************************************)
(* The coordinator's updates: when each runs, in which mode, which units   *)
(* it reaches, and what it remembers of each unit for the next.            *)
(*                                                                         *)
(* An update plans every unit, asks for every unit's newest window, then   *)
(* walks each unit on and imports it.  A unit's failure is its own; a rate *)
(* limit, a rejected session and a topology error stop the update.  What a *)
(* walk fetches, and how it is written, are other modules'.                *)
(***************************************************************************)
EXTENDS UnitState

CONSTANTS
  Units,             \* the directions of every property
  PropertyOf,        \* [Units -> properties]
  TargetedInterval,  \* hours between two daily reconciliations
  FullInterval,      \* hours between two weekly ones
  RateLimitWaits,    \* the waits Meridian may ask for, in hours
  LongestRateLimit,  \* hours a rate limit's wait never exceeds
  Readings,          \* what a walk may bring: "none", "usage", or with its "cost"
  MaxFaults,         \* bound: walks and imports that fail
  MaxLate,           \* bound: units an update's time budget does not reach
  MaxAborts,         \* bound: updates ended by a rate limit or a rejected session
  MaxReplans,        \* bound: updates planned again after a topology error
  MaxReloads         \* bound: reloads and restarts

ASSUME SyncAssumption ==
  /\ IsFiniteSet(Units) /\ Units # {}
  /\ TargetedInterval \in Nat \ {0}
  /\ FullInterval \in Nat \ {0}
  /\ RateLimitWaits \subseteq Nat
  /\ LongestRateLimit \in Nat \ {0}
  /\ {MaxFaults, MaxLate, MaxAborts, MaxReplans, MaxReloads} \subseteq Nat
  /\ Readings \subseteq {"none", "usage", "cost"} /\ Readings # {}

VARIABLES
  phase,      \* "waiting", "ready" for an update, "syncing", or "rejected"
  due,        \* hours until the next update, while waiting
  units,      \* _unit_states
  known,      \* units with stored energy (_known_statistics)
  costed,     \* units with a stored cost
  stale,      \* of those known, the ones whose newest hour was 14 days old
  attempted,  \* _backfill_attempted
  pending,    \* _pending_backfill
  bySetup,    \* whether setup handed over its memory (_reconciled_at)
  complete,   \* _initial_refresh_complete
  sinceTargeted, sinceFull, \* hours since the last reconciliations, or None
  firstFailures, \* _first_sync_failures, as far as its schedule goes
  rateLimits,    \* _rate_limits, as far as its doubling goes
  mode,       \* the update's mode
  asked,      \* the mode it asks of each unit
  unitMode,   \* the mode each unit runs in
  walk,       \* how far each unit's walk is
  outcome,    \* how each unit ended
  cooling,    \* the properties cooling down after a gateway timeout
  sent,       \* whether a measurements request went out
  fresh,      \* whether the topology was refreshed in this update
  behind,     \* history: what the cadence counts as done, and a unit has not
  used        \* how much of each bound has been used

cadence == <<bySetup, complete, sinceTargeted, sinceFull>>
history == <<known, costed, stale, attempted, pending>>
run == <<mode, asked, unitMode, walk, outcome, cooling, sent, fresh>>
vars == <<phase, due, units, history, cadence, firstFailures, rateLimits, run,
          behind, used>>

Walks == {"none", "planned", "begun", "failed", "late", "done"}
Outcomes == {"ok", "failed", "degraded", "deferred", None}

Bounds == [faults |-> MaxFaults, late |-> MaxLate, aborts |-> MaxAborts,
           replans |-> MaxReplans, reloads |-> MaxReloads]
Use(bound) == /\ used[bound] < Bounds[bound]
              /\ used' = [used EXCEPT ![bound] = @ + 1]

-------------------------------------------------------------------------------
(***************************************************************************)
(* Which mode an update and each of its units run in.                      *)
(***************************************************************************)
Due(since, interval) == since = None \/ since >= interval

CadenceMode ==
  IF Due(sinceFull, FullInterval) THEN "full"
  ELSE IF Due(sinceTargeted, TargetedInterval) THEN "targeted" ELSE "tip"

SearchedBySetup(u) == bySetup /\ u \in attempted

StartupMode ==
  IF \E u \in Units : u \notin known /\ ~ SearchedBySetup(u) THEN "initial"
  ELSE IF bySetup THEN CadenceMode ELSE "restart"

SyncMode == IF complete THEN CadenceMode ELSE StartupMode

DirectionMode(u, requested) ==
  IF u \in pending \/ (u \notin known /\ u \notin attempted) THEN "initial"
  ELSE IF complete THEN requested
  ELSE IF (bySetup /\ u \in known) \/ SearchedBySetup(u) THEN CadenceMode
  ELSE IF u \notin known \/ u \in stale THEN "initial" ELSE "restart"

\* Waits count once a first sync has succeeded: every attempt before tries all.
WaitsWhole(u) == complete /\ Deferred(units[u])
WaitsInPart(u) == complete /\ ReconciliationWaits(units[u])

PlannedMode(u, requested) ==
  IF WaitsInPart(u) THEN "tip"
  ELSE LargerMode(DirectionMode(u, requested), units[u].owed)

\* Mutant: a unit that waits whole does not owe what it misses.
PlannedForgiven(u, requested) ==
  IF WaitsInPart(u) THEN Owe(units[u], DirectionMode(u, requested)) ELSE units[u]

\* What a unit whose reconciliation is passed over owes, each in its turn.
PlannedUnit(u, requested) ==
  LET inPart == IF WaitsInPart(u) THEN Owe(units[u], DirectionMode(u, requested))
                ELSE units[u]
  IN IF WaitsWhole(u) THEN Owe(inPart, PlannedMode(u, requested)) ELSE inPart

\* Plan every unit (_async_plan_unit).
Plan(requested) ==
  /\ asked' = [u \in Units |-> DirectionMode(u, requested)]
  /\ unitMode' = [u \in Units |-> PlannedMode(u, requested)]
  /\ units' = [u \in Units |-> PlannedUnit(u, requested)]
  /\ walk' = [u \in Units |-> IF WaitsWhole(u) THEN "none" ELSE "planned"]
  /\ outcome' = [u \in Units |-> IF WaitsWhole(u) THEN "deferred" ELSE None]

NoRun ==
  /\ mode' = None
  /\ asked' = [u \in Units |-> None]
  /\ unitMode' = [u \in Units |-> None]
  /\ walk' = [u \in Units |-> "none"]
  /\ outcome' = [u \in Units |-> None]
  /\ cooling' = {}
  /\ sent' = FALSE
  /\ fresh' = FALSE

-------------------------------------------------------------------------------
(***************************************************************************)
(* The coordinators an entry starts with.                                  *)
(***************************************************************************)

\* What the setup import hands over of a unit, by how it ended for that unit.
SetupUnit(how) ==
  CASE how = "ok" -> Succeed(NewUnit)
    [] how = "degraded" -> NoteDegraded(NewUnit, "initial", FALSE)
    [] how = "failed" -> NoteFailure(NewUnit, "initial", FALSE)
    [] OTHER -> [Owe(NewUnit, "initial") EXCEPT !.notReached = 1]

\* A setup import succeeds when every unit imported, or all of one property's
\* with readings for one of them (_settle_run).
SetupSucceeds(imported, found) ==
  \/ imported = Units
  \/ \E p \in {PropertyOf[u] : u \in found} :
       {u \in Units : PropertyOf[u] = p} \subseteq imported

\* A coordinator that goes on from the setup import: the units it found readings
\* for have statistics, and any may have kept those of an earlier entry.
FromSetup ==
  \E how \in [Units -> {"ok", "degraded", "failed", "late"}] :
    LET imported == {u \in Units : how[u] \in {"ok", "degraded"}}
    IN \E found \in SUBSET imported :
         /\ SetupSucceeds(imported, found)
         /\ units = [u \in Units |-> SetupUnit(how[u])]
         /\ known \in SUBSET Units /\ found \subseteq known
         /\ attempted = {u \in Units : how[u] = "ok" \/ u \in found}
         /\ sinceTargeted = 0 /\ sinceFull = 0
         /\ behind = [u \in Units |-> units[u].owed]

\* One that starts afresh.
Afresh ==
  /\ units = [u \in Units |-> NewUnit]
  /\ known \in SUBSET Units
  /\ attempted = {}
  /\ sinceTargeted = None /\ sinceFull = None
  /\ behind = [u \in Units |-> "full"]

Init ==
  /\ phase = "ready" /\ due = 0
  /\ \/ bySetup = TRUE /\ FromSetup /\ stale = {}
     \/ bySetup = FALSE /\ Afresh /\ stale \in SUBSET known
  /\ costed \in SUBSET known
  /\ pending = {}
  /\ complete = FALSE
  /\ firstFailures = 0 /\ rateLimits = 0
  /\ mode = None
  /\ asked = [u \in Units |-> None]
  /\ unitMode = [u \in Units |-> None]
  /\ walk = [u \in Units |-> "none"]
  /\ outcome = [u \in Units |-> None]
  /\ cooling = {} /\ sent = FALSE /\ fresh = FALSE
  /\ used = [bound \in DOMAIN Bounds |-> 0]

-------------------------------------------------------------------------------
(***************************************************************************)
(* An update starts.                                                       *)
(***************************************************************************)
Older(since, interval) ==
  IF since = None THEN None
  ELSE IF since + due < interval THEN since + due ELSE interval

\* The wait until the next update passes, and every other wait with it.
TimePasses ==
  /\ phase = "waiting"
  /\ phase' = "ready" /\ due' = 0
  /\ units' = [u \in Units |-> Aged(units[u], due)]
  /\ sinceTargeted' = Older(sinceTargeted, TargetedInterval)
  /\ sinceFull' = Older(sinceFull, FullInterval)
  /\ UNCHANGED <<history, bySetup, complete, firstFailures, rateLimits, run, behind, used>>

StartSync ==
  /\ phase = "ready"
  /\ phase' = "syncing"
  /\ mode' = SyncMode
  /\ Plan(SyncMode)
  /\ UNCHANGED <<due, history, cadence, firstFailures, rateLimits, cooling, sent,
                 fresh, behind, used>>

-------------------------------------------------------------------------------
(***************************************************************************)
(* Each unit's newest window, in the order _next_newest gives.             *)
(***************************************************************************)
Ready == {u \in Units : walk[u] = "planned" /\ PropertyOf[u] \notin cooling}

\* Mutant: the newest windows go in any order.
NewestInAnyOrder(u) ==
  /\ phase = "syncing"
  /\ u \in Ready
  /\ UNCHANGED <<phase, due, units, history, cadence, firstFailures, rateLimits,
                 mode, asked, unitMode, outcome, fresh, behind>>

\* Those not reached in the most updates first; of those, in any order.
Newest(u) ==
  /\ phase = "syncing"
  /\ u \in Ready
  /\ \A v \in Ready : units[v].notReached <= units[u].notReached
  /\ UNCHANGED <<phase, due, units, history, cadence, firstFailures, rateLimits,
                 mode, asked, unitMode, outcome, fresh, behind>>

ReachNewest(u) ==
  /\ Newest(u)
  /\ walk' = [walk EXCEPT ![u] = "begun"]
  /\ sent' = TRUE
  /\ UNCHANGED <<cooling, used>>

\* A gateway timeout makes its property cool down; any failure ends the walk.
NewestFails(u) ==
  /\ Newest(u)
  /\ Use("faults")
  /\ walk' = [walk EXCEPT ![u] = "failed"]
  /\ sent' = TRUE
  /\ cooling' \in {cooling, cooling \cup {PropertyOf[u]}}

\* Too little of the time budget is left; a first request always goes out.
NewestTooLate(u) ==
  /\ Newest(u)
  /\ sent
  /\ Use("late")
  /\ walk' = [walk EXCEPT ![u] = "late"]
  /\ UNCHANGED <<cooling, sent>>

\* A cooldown passes while other units' newest windows are asked for.
CooldownPasses ==
  /\ phase = "syncing"
  /\ Ready # {}
  /\ \E p \in cooling : cooling' = cooling \ {p}
  /\ UNCHANGED <<phase, due, units, history, cadence, firstFailures, rateLimits, mode,
                 asked, unitMode, walk, outcome, sent, fresh, behind, used>>

-------------------------------------------------------------------------------
(***************************************************************************)
(* Each unit's walk on, its import, and what is recorded of it.            *)
(***************************************************************************)

\* A walk goes on, a unit that cooled down waiting for its newest window first.
Walking(u) ==
  /\ phase = "syncing"
  /\ Ready = {}
  /\ walk[u] \notin {"none", "done"}

\* What an import that went through records (_record_direction_fetch).
RecordFetch(u, ended, readings) ==
  LET usage == readings # "none"
      cost == readings = "cost"
      initial == unitMode[u] = "initial" /\ (ended \/ usage)
      news == (usage /\ u \notin known) \/ (cost /\ u \notin costed)
  IN /\ attempted' = IF initial THEN attempted \cup {u} ELSE attempted
     /\ pending' = IF initial THEN pending \ {u}
                   ELSE IF news THEN pending \cup {u} ELSE pending
     /\ known' = IF usage THEN known \cup {u} ELSE known
     /\ costed' = IF cost THEN costed \cup {u} ELSE costed
     /\ stale' = IF usage THEN stale \ {u} ELSE stale

Finish(u, how, unit) ==
  /\ walk' = [walk EXCEPT ![u] = "done"]
  /\ outcome' = [outcome EXCEPT ![u] = how]
  /\ units' = [units EXCEPT ![u] = unit]
  /\ UNCHANGED <<phase, due, cadence, firstFailures, rateLimits, mode, asked,
                 unitMode, cooling, fresh>>

Reached(u) == [units[u] EXCEPT !.notReached = 0]

FinishAll(u) ==
  /\ Walking(u)
  /\ walk[u] \in {"planned", "begun"}
  /\ Finish(u, "ok", NoteSuccess(Reached(u), unitMode[u]))
  /\ sent' = TRUE
  /\ \E readings \in Readings : RecordFetch(u, TRUE, readings)
  /\ behind' = [behind EXCEPT ![u] = IF Span(unitMode[u]) >= Span(@) THEN None ELSE @]
  /\ UNCHANGED used

\* The walk stopped after its newest windows, and those were imported.
FinishNewer(u) ==
  /\ Walking(u)
  /\ walk[u] \in {"planned", "begun"}
  /\ Use("faults")
  /\ Finish(u, "degraded", NoteDegraded(Reached(u), unitMode[u], complete))
  /\ sent' = TRUE
  /\ \E readings \in Readings : RecordFetch(u, FALSE, readings)
  /\ UNCHANGED behind

\* Nothing was imported: no window came back, or the import was not confirmed.
FinishNone(u) ==
  /\ Walking(u)
  /\ walk[u] # "late"
  /\ IF walk[u] = "failed" THEN UNCHANGED used ELSE Use("faults")
  /\ Finish(u, "failed", NoteFailure(Reached(u), unitMode[u], complete))
  /\ sent' = TRUE
  /\ UNCHANGED <<history, behind>>

\* Mutant: a unit the time budget did not reach owes nothing.
FinishLateForgiven(u) ==
  /\ Walking(u)
  /\ \/ walk[u] = "late" /\ UNCHANGED used
     \/ walk[u] = "planned" /\ sent /\ Use("late")
  /\ Finish(u, "deferred", [units[u] EXCEPT !.notReached = @ + 1])
  /\ UNCHANGED <<history, sent, behind>>

\* The time budget ended before its first request: it did not fail, but owes.
FinishLate(u) ==
  /\ Walking(u)
  /\ \/ walk[u] = "late" /\ UNCHANGED used
     \/ walk[u] = "planned" /\ sent /\ Use("late")
  /\ Finish(u, "deferred", [Owe(units[u], unitMode[u]) EXCEPT !.notReached = @ + 1])
  /\ UNCHANGED <<history, sent, behind>>

\* A missing account or property, of a topology not refreshed yet: refresh it
\* and plan every unit again, those done included.
Replan ==
  /\ phase = "syncing"
  /\ ~ fresh
  /\ \E u \in Units : walk[u] \in {"planned", "begun"}
  /\ Use("replans")
  /\ fresh' = TRUE
  /\ sent' = TRUE
  /\ Plan(mode)
  /\ UNCHANGED <<phase, due, history, cadence, firstFailures, rateLimits, mode,
                 cooling, behind>>

-------------------------------------------------------------------------------
(***************************************************************************)
(* An update ends.                                                         *)
(***************************************************************************)

\* How long polling waits after a rate limit: doubled for each one in a row.
RateLimitWait(wait) ==
  LET doubled == wait * Doubled[rateLimits + 1]
  IN IF doubled < LongestRateLimit THEN doubled ELSE LongestRateLimit

OneMoreLimit == rateLimits' = IF rateLimits < 5 THEN rateLimits + 1 ELSE 5

\* The next attempt at a first sync, after 10 and 30 minutes, then hourly.
FirstSyncRetry ==
  /\ due' = IF ~ complete /\ firstFailures < 2 THEN 0 ELSE 1
  /\ firstFailures' = IF ~ complete /\ firstFailures < 2 THEN firstFailures + 1
                      ELSE firstFailures

Ends == phase' = "waiting" /\ NoRun /\ UNCHANGED history
Failing == Ends /\ UNCHANGED <<units, cadence, behind>>

\* A rate limit: of the update's own requests, not those of its coverage.
RateLimited ==
  /\ phase \in {"ready", "syncing"}
  /\ phase = "syncing" => \E u \in Units : walk[u] \in {"planned", "begun"}
  /\ Use("aborts")
  /\ \E wait \in RateLimitWaits : due' = RateLimitWait(wait)
  /\ OneMoreLimit
  /\ Failing
  /\ UNCHANGED firstFailures

\* A rejected session, at any request: no update follows before a new sign-in.
Rejected ==
  /\ phase \in {"ready", "syncing"}
  /\ Use("aborts")
  /\ phase' = "rejected" /\ due' = 0 /\ NoRun
  /\ UNCHANGED <<units, history, cadence, firstFailures, rateLimits, behind>>

\* The accounts did not come back, or the recorder was still busy.
NotStarted ==
  /\ phase = "ready"
  /\ Use("faults")
  /\ \/ FirstSyncRetry
     \/ ~ complete /\ due' = 0 /\ UNCHANGED firstFailures
  /\ Failing
  /\ UNCHANGED rateLimits

Ended == phase = "syncing" /\ \A u \in Units : outcome[u] # None
Imported == \E u \in Units : outcome[u] \in {"ok", "degraded"}

\* No unit imported: the first failure, a refusal last, fails the update.
EndFails ==
  /\ Ended
  /\ ~ Imported
  /\ IF \E u \in Units : walk[u] = "done"
     THEN \/ FirstSyncRetry
          \/ /\ \A u \in Units : walk[u] = "done" => outcome[u] = "failed"
             /\ due' = 1 /\ UNCHANGED firstFailures
     ELSE due' = 1 /\ UNCHANGED firstFailures
  /\ Failing
  /\ UNCHANGED <<rateLimits, used>>

\* Each unit's reconciliation counts as done, whether it ran or is owed.
Counted(u) ==
  IF outcome[u] = "ok" /\ Span(unitMode[u]) >= Span(asked[u]) THEN behind[u]
  ELSE LET counted == OwedReconciliation(asked[u])
       IN IF behind[u] = None THEN counted ELSE LargerMode(behind[u], counted)

Succeeds ==
  /\ Ended
  /\ Imported
  /\ complete' = TRUE
  /\ sinceFull' = IF Span(mode) >= 2 THEN 0 ELSE sinceFull
  /\ sinceTargeted' = IF Span(mode) >= 1 THEN 0 ELSE sinceTargeted
  /\ behind' = [u \in Units |-> Counted(u)]
  /\ Ends
  /\ UNCHANGED <<units, bySetup, firstFailures>>

EndSync ==
  /\ Succeeds
  /\ due' = 1 /\ rateLimits' = 0
  /\ UNCHANGED used

\* It succeeds, but its coverage met a rate limit: the next one waits as long,
\* and never less than the hour; or its billing did, which fails it after all.
EndLimited ==
  /\ Succeeds
  /\ Use("aborts")
  /\ \E wait \in RateLimitWaits :
       due' \in {RateLimitWait(wait)} \cup {IF RateLimitWait(wait) > 1 THEN RateLimitWait(wait) ELSE 1}
  /\ OneMoreLimit

\* A new coordinator: Home Assistant restarts, or the entry is reloaded.
NewCoordinator ==
  /\ phase' = "ready" /\ due' = 0
  /\ units' = [u \in Units |-> NewUnit]
  /\ stale' \in SUBSET known
  /\ attempted' = {} /\ pending' = {}
  /\ bySetup' = FALSE /\ complete' = FALSE
  /\ sinceTargeted' = None /\ sinceFull' = None
  /\ firstFailures' = 0 /\ rateLimits' = 0
  /\ behind' = [u \in Units |-> "full"]
  /\ NoRun
  /\ UNCHANGED <<known, costed>>

Reload == Use("reloads") /\ NewCoordinator

SignedIn == phase = "rejected" /\ NewCoordinator /\ UNCHANGED used

-------------------------------------------------------------------------------
Newly(u) == ReachNewest(u) \/ NewestFails(u) \/ NewestTooLate(u)
Finishes(u) == FinishAll(u) \/ FinishNewer(u) \/ FinishNone(u) \/ FinishLate(u)

Next ==
  \/ TimePasses \/ StartSync \/ CooldownPasses \/ Replan
  \/ \E u \in Units : Newly(u) \/ Finishes(u)
  \/ RateLimited \/ Rejected \/ NotStarted \/ EndFails \/ EndSync \/ EndLimited
  \/ Reload \/ SignedIn

Spec == Init /\ [][Next]_vars

\* Home Assistant schedules each update, and an update's requests all end.
Fairness ==
  /\ WF_vars(TimePasses) /\ WF_vars(StartSync) /\ WF_vars(EndFails)
  /\ WF_vars(EndSync) /\ WF_vars(SignedIn)
  /\ \A u \in Units : WF_vars(ReachNewest(u)) /\ WF_vars(FinishAll(u))
                      /\ WF_vars(FinishNone(u)) /\ WF_vars(FinishLate(u))
FairSpec == Spec /\ Fairness

-------------------------------------------------------------------------------
(***************************************************************************)
(* Properties.                                                             *)
(***************************************************************************)

\* Every variable holds a value of its kind.
TypeOK ==
  /\ phase \in {"waiting", "ready", "syncing", "rejected"}
  /\ due \in Nat
  /\ units \in [Units -> UnitRecord]
  /\ costed \subseteq known /\ known \subseteq Units /\ stale \subseteq known
  /\ attempted \subseteq Units /\ pending \subseteq Units
  /\ bySetup \in BOOLEAN /\ complete \in BOOLEAN
  /\ sinceTargeted \in 0 .. TargetedInterval \cup {None}
  /\ sinceFull \in 0 .. FullInterval \cup {None}
  /\ firstFailures \in 0 .. 2 /\ rateLimits \in 0 .. 5
  /\ mode \in Modes \cup {None}
  /\ asked \in [Units -> Modes \cup {None}]
  /\ unitMode \in [Units -> Modes \cup {None}]
  /\ walk \in [Units -> Walks]
  /\ outcome \in [Units -> Outcomes]
  /\ cooling \subseteq {PropertyOf[u] : u \in Units}
  /\ sent \in BOOLEAN /\ fresh \in BOOLEAN
  /\ behind \in [Units -> {"targeted", "full", None}]
  /\ used \in [DOMAIN Bounds -> Nat]
  /\ \A bound \in DOMAIN Bounds : used[bound] <= Bounds[bound]

\* What a unit's status says is what it waits for: one that works waits for
\* nothing; a degraded one for a reconciliation at most, so its hourly update
\* is never held; a failed one for its whole sync or its hourly update, never
\* for both, and never for nothing (units.UnitState, and the status and the
\* times to retry that diagnostics report).
TellsWaits(unit) ==
  /\ unit.status \in {"pending", "ok"} =>
       unit.retry = None /\ unit.hourlyRetry = None /\ ~ unit.whole
  /\ unit.status = "degraded" =>
       unit.retry # None /\ unit.hourlyRetry = None /\ ~ unit.whole
  /\ unit.status = "failed" =>
       unit.retry # None /\ (unit.whole <=> unit.hourlyRetry = None)

\* Each unit's status tells what it waits for, after every step of an update.
StatusTellsWaits == \A u \in Units : TellsWaits(units[u])

\* A reconciliation the cadence counts as done is one each unit ran in full,
\* or still owes, whatever failed, waited, was not reached or was planned
\* again (_record_sync_cadence, and what _async_plan_unit and
\* _async_finish_unit owe).
ReconciledOrOwed ==
  complete => \A u \in Units :
    outcome[u] = None => Span(behind[u]) <= Span(units[u].owed)

\* No unit is passed over by the time budget more often in a row than there
\* are other units to go first, but for updates that were cut short, once
\* each, and those planned again, which may reach nobody first after that
\* either, twice (_next_newest's order by not_reached).
NoneStarves ==
  \A u \in Units : units[u].notReached
                     <= Cardinality(Units) - 1 + used.aborts + 2 * used.replans

\* Once Meridian answers every request in time, every unit comes to work
\* again, and owes nothing, for good: no wait or debt outlives its cause.
UnitsRecover ==
  <>[](\A u \in Units : units[u].status = "ok" /\ units[u].owed = None)

===============================================================================
