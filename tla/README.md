# A verification of ha-meridian-energy

TLA+ models of the Meridian Energy integration for Home Assistant, the TLC
configurations that check them on small instances, and proofs that TLAPS checks
for every instance. Paths below are relative to
`src/custom_components/meridian_energy/`.

- [The system](#the-system)
- [The modules](#the-modules)
- [What the runs check](#what-the-runs-check)
- [Where the code and its documentation disagree](#where-the-code-and-its-documentation-disagree)
- [What is proved](#what-is-proved)
- [What is left out](#what-is-left-out)
- [The plan](#the-plan)

## The system

The integration signs in to Meridian, fetches hourly readings of each
*direction* (grid import or export) of each *property*, and writes them into
Home Assistant's long-term statistics. A direction of a property is a *unit*.
Everything runs on one event loop, except the recorder, a thread of its own with
a queue of tasks; so the concurrency is that of tasks which interleave at each
`await`, and of the recorder.

| Part | State it keeps | Operations | What makes it correct |
|---|---|---|---|
| **Statistics replay** (`statistics.py`) | a lock per statistic, the statistics marked unsettled; the stored rows are the recorder's | `async_replay`: lock, settle, read, build, queue, confirm | running sums that follow on, whatever is interleaved, lost or retried; what was not confirmed is known and waited for |
| **Recorder** (Home Assistant) | tables of hourly rows, a queue of tasks | import, adjust, clear, retry on a lock error | external: modelled from how `statistics.py` uses it |
| **Unit memory** (`units.py`) | status, two counters and two waits, the reconciliation owed, what the size ladder learned | `succeed`, `fail`, `fail_hourly`, `degrade`, `defer_reconciliation`, `recover_hourly`, `owe` | the status tells the waits; no debt is forgotten or kept for ever |
| **Update cycle** (`coordinator.py`) | the cadence of reconciliations, which units have statistics or were searched, retry and rate-limit counters | `async_fetch_and_import`, hourly | every unit is reached, reconciled when due, and recovers after failures |
| **Walks and windows** (`coordinator.py`, `windows.py`) | the windows still to fetch, the size ladder, refused dates | newest window first, then older ones; resend, cool down, split | what is imported is one block back from today; a failure keeps what came back |
| **Lanes** (`lanes.py`, `coordinator.py`) | dates fetched, empty, failed, unsaved, revised | coverage after each update; a revision pass each month | every date is asked for until it is there or known not to exist, and never too often |
| **Topology and billing** (`coordinator.py`) | cached accounts and billing periods | 12-hourly refresh, forced refresh on a topology error | no stale account is synced for ever |
| **Setup flow** (`config_flow.py`) | the step, the attempt, which statistics it created | sign-in, selection, import with rollback, retries | a failed attempt leaves nothing behind; one submission is handled at a time |
| **Entry life cycle** (`__init__.py`) | setup's hand-over, what outlives a reload | set up, unload, remove, migrate | memory handed over once, and matching what is stored |
| **Session, transport** (`api.py`, `transport.py`) | tokens, a tally of requests | renew, retry once, time out | a session is renewed once at a time and stored |
| **Parsing, sensors, diagnostics** | none | convert, show | single-step conversions, left to unit tests |

They interact as follows. Home Assistant calls the coordinator once an hour.
The coordinator plans each unit from its memory, walks the unit's windows
through the client, and hands the readings to a replay; the replay awaits
executor reads and recorder barriers, so several replays (of the setup flow and
of entries) interleave, and the recorder runs between any two of their steps.
How each replay ended goes back into the unit's memory, which decides what the
next update does with that unit. A replay that was not confirmed leaves a mark in
`hass.data` for the next replay, and the caller keeps its rows as not yet
written. The setup flow runs the same coordinator and replay, and hands the
coordinator's memory to the entry.

The hard parts: reads that are acted on after an await; confirmation of a
queue that can reorder (a lock error sends a task to its back), lose a task, or
be cut off by a restart; cancellation anywhere; two separate backoffs per unit
with a debt between them; a time budget, rate limits and topology errors that
cut an update short after part of it was recorded. `PROJECT.json` lists these
hazards with the lines where they bite and the properties that cover them.

## The modules

| Module | Models | Uses |
|---|---|---|
| `Recorder` | the recorder's tables and tasks (external) | |
| `StatisticsReplay` | `async_replay` and everything it calls | `Recorder` |
| `StatisticsReplayProofs` | its theorems about the queue, the locks and the reads | `StatisticsReplay` |
| `ReplaySumsProofs` | its theorems about rows and running sums | `StatisticsReplayProofs` |
| `UnitState` | `units.UnitState` and the coordinator's `_note_success`, `_note_failure` | |
| `SyncCycle` | the coordinator's updates | `UnitState` |
| `SyncCycleProofs` | its theorems | `SyncCycle` |
| `Windows` | `windows.py`: planned windows, what may be imported, costs, refused dates | |
| `WindowsProofs` | lemmas about them | `Windows` |
| `Lane` | `lanes.py` and the coverage of one lane | `Windows`, `UnitState` |
| `LaneProofs` | its theorems | `Lane`, `WindowsProofs` |
| `CoverageTurns` | the turns of several lanes, rate limits and the hold they put on later updates | |
| `CoverageTurnsProofs` | its theorems | `CoverageTurns` |
| `Walk` | one walk: `_UnitWalk`, `_Walk`, `_async_walk_unit`; the ladder and the quiet frontier of `UnitState` | `Windows` |
| `WalkProofs` | its theorems | `Walk`, `WindowsProofs` |
| `FetchedBlock` | abstract: what a walk promises | |
| `SetupFlow` | `config_flow.py`: a setup, beside others for the email, over the recorder's queue | |
| `SetupFlowProofs` | its theorems | `SetupFlow` |
| `MCReplay`, `MCSync`, `MCLane`, `MCTurns`, `MCWalk`, `MCSetup` | small instances for TLC | the module they are named for |

`Walk` implements `FetchedBlock`: `Block == INSTANCE FetchedBlock WITH` maps the
dates fetched to those from the oldest window taken to the date the walk started
on, and the rows to those the walk holds.

### `Recorder` and `StatisticsReplay`

A *table* maps each of a few consecutive hours to a row (a state, the hour's
reading, and a running sum, which another writer may have left out) or to
nothing. A *seam* is a row whose sum is not its state more than the sum before
it: what a user sees as a spike. The recorder runs its oldest task; it may
instead send a write to the back of its queue, as it does on MySQL and MariaDB
on a lock error, or lose it for good, and a user may queue an "Adjust sum".

Each *writer* replays one offer of hours at a time. One action stands for the
code between two awaits:

| Location `pc` | Code | Actions |
|---|---|---|
| `lock` | `_async_write_locks` | `TakeLock`: one lock, in the order of the IDs; the last one goes straight on to settle or read |
| `settle`, `settled` | `_async_settle` | `Settle`, `SettleTimesOut` |
| `read`, `far`, `older` | `_async_read_for_replay` | `ReadNear`, `ReadFar`, `ReadOlder`, with `Refuse` for `StatisticsAnchorError` |
| `build` | `_build_rows`, `_queue_writes` | `BuildAndQueue`, one step: no await lies between |
| `confirm`, `confirmed`, `tail` | `_async_confirm_replay`, `_async_joins_hold` | `ReadHead`, `ReadTailHolds`, `ReadTailFails`, `ConfirmTimesOut` |
| any | cancellation, restart | `Cancel`, `Restart` |

A location ending in *-ed* is a barrier that has run while the event loop has not
resumed its waiter yet: the recorder runs on in between. `asyncio.Lock` serves its
waiters in order; the model lets any of them go first, which allows more.
`unconfirmed` is a history variable: the hours of replays that ended without
being confirmed, which their callers offer again; it constrains nothing.
Sums are integers; the code's tolerance for float rounding is left out. Only the
hours and states of a reading matter, so units, names and metadata are too.

### `UnitState` and `SyncCycle`

`UnitState` has one operator for each method of the class. Times are whole hours:
a wait is the hours left of it. The minute by which an update may start early, and
the time an update itself takes, are rounded away.

`SyncCycle` runs updates: `StartSync` plans every unit (`_async_plan_unit`);
`ReachNewest`, `NewestFails`, `NewestTooLate` are the newest windows, in the order
of `_next_newest`; `FinishAll`, `FinishNewer`, `FinishNone`, `FinishLate` end a
unit's walk and record it as `_async_finish_unit` does; `Replan` is a topology
error with its refresh; `EndSync`, `EndLimited`, `EndFails`, `RateLimited`,
`Rejected`, `NotStarted` are the ways an update ends, each with the wait before
the next; `TimePasses` lets it pass; `Reload` and `SignedIn` start a new
coordinator. An entry starts afresh or from what a setup import handed over, every
combination of how that ended included.

Abstracted, each time to allow more than the code does:

- A walk is its outcome: everything, the newer windows only, nothing, or not
  reached in time. Which windows it asked for is the subject of `Walk`.
- Whether the time budget reaches a unit is any choice, once a first request has
  gone out; the code's arithmetic of seconds decides it there. So is when a
  property's cooldown passes.
- Of the newest windows, those missed most often go first, as in the code; the
  order among equals, which depends on which properties returned readings, is any.
  So is the order of the walks that follow.
- A rate limit in a billing request, which fails an update that had succeeded, is
  one of the waits of `EndLimited`; a rejected session in a billing request comes
  to the same as one before, since a new coordinator follows either.
- The units are a fixed, nonempty set: accounts that come and go are not modelled.

`behind` is a history variable: for each unit, the deepest reconciliation the
cadence has counted as done and that unit has not run. Nothing reads it but a
property.

### `Windows` and `Lane`

Hours are integers, a date is `hour \div HoursPerDay`, and a window is its first and
last date. `Windows` has the pure operators both walks and lanes use: `PlanWindows`
(`plan_windows`), `Importable` (`importable`: what may be written without a hole),
`WrittenCosts` (`cost_plan`), `ReplayedDates` (`_replayed_days`) and, for a window
Meridian refuses, `StartAfter` (`_async_fetch_refused_days`,
`_async_confirm_refused_day`).

`Lane` is one lane over several updates. An update walks (`Update`: only what its
walk leaves the lane), reads what is stored (`PlanLane`), asks for a few windows
(`FetchWindow`, `CoverWindowFails`), imports each (`ImportWindow`, `ImportUnsaved`),
may be stopped by a rate limit or the budget (`CoverStops`), and settles the lane
(`CoverDone`, `SettleLane`, `EndUpdate`). Between updates the entry reloads, time
passes, a billing period becomes known and moves the target, and Meridian publishes,
revises or withdraws an hour. Meridian is a record: the hours it has, the dates it
refuses, and how it reads a window's ends; a *trial* gives the ones a behaviour may
start with, and how much may go wrong in it. `torn`, `late`, `owed` and `calm` are
history variables.

### `CoverageTurns`

The round-robin of `_async_cover_lanes`, and what its rate limits do to the update
around it. `Lane` has one lane in detail; here a lane is a count of windows it still
asks for, and a walk is whether its lane may ask. `NothingToAsk`, `WindowImported`,
`WindowFails`, `WindowTimesOut`, `BudgetEnds` and `WindowLimited` are one pass of the
loop each; `round` holds the lanes of `list(active)` still to come. `WalksEnd` is
`_lanes_to_cover`; `BillingAsked`, `BillingKept` and `BillingLimited` are
`_async_billing_period`; `UpdateEnds` is `_honour_coverage_rate_limit`, and
`UpdateFails`, `WalksLimited` and `TotalsFail` are the other ways an update ends. Home
Assistant starts an update that is due (`UpdateDue`), or one that somebody asks for
before (`Refresh`). `hold` is `_coverage_not_before` as time left, counted from the
update's start, as an update compares and sets it by the time it began. `wait`,
`inCoverage`, `refreshed` and `timeouts` are history variables.

Abstracted: failed windows of a lane wait together and come back together, an hour
each; an import not confirmed is one of them. The accounts are one, with one billing
period, which an update may or may not have to ask for. The entry is not reloaded.

### `Walk` and `FetchedBlock`

A walk's queue holds windows with their share of the progress. `TakeWindow`,
`RefuseWindow`, `TimesOut`, `OverLimits`, `RequestFails` and `BudgetEnds` are the ways
one of its requests ends; `Finish` imports what was kept, whole or in part
(`_walk_result`), and notes whether the direction is quiet. A window that timed out
is split by its days at once in a setup import; an update ends there and remembers
what to probe (`Defer`), which the next one splits, and once a probe came back the
days are kept for `LadderDays`. The checks of `_Walk.check` are `Checked` and
`Passes`; empty windows go through `TakenEmpty`.

Shares are integers: `WholeShare` is divisible by every split, where the code adds
floats and allows for their rounding. A window comes back at once: the pages of a
window, the resends of a request and the waits between requests are left out. Each
import is confirmed; what an unconfirmed one does is `StatisticsReplay`'s and `Lane`'s
subject. Setup's walks use the same code with no stored hours.

### `SetupFlow`

Each dialog has a step, the submission being handled, one sent again that waits for
it, and the attempt running. The recorder has a queue: imports of an attempt or of
the entry, removals, and barriers, which are removals of nothing. A row is only who
wrote it.

| In the model | In the code |
|---|---|
| `SubmitEmail` … `SubmitLast` | `_async_submit` with each form's handler, up to its first await |
| `CodeSent`, `CodeChecked`, `AccountsFound` | what Meridian answers, any of the outcomes the form tells apart |
| `Prepares`, `RollsBack`, `PassEnds`, `WaitTimesOut` | `async_wait_for_recorder` in passes, after the removal where there is one |
| `StartAttempt`, `FinishWithout` | the checks after the wait, then the attempt, or the entry without history |
| `FetchFails`, `QueueImport`, `ImportConfirmed`, `ConfirmAgain`, `ImportUnconfirmed` | `_async_initial_import`, one direction's replay |
| `RollbackEnds` | `_async_initial_import_with_rollback` |
| `SubmitAgain`, `AnswerRepeat` | a submission sent again, and `_current_step` or `_answer_after_entry` |
| `CloseDialog`, `Stop`, `Restart` | the flow removed; the stop event, which cancels attempts; the recorder's last write |
| `UpdateBegins` … `UpdateImports` | the entry's first update: `_async_wait_for_recorder`, its reads, its import |

One property with one direction: an attempt imports everything or fails. When
enough time has passed for a retry is the user's choice, as are the answers of a
form. What setup remembers of the direction is only whether it left hours half
saved. Reauthentication and reconfiguration are left out.

## What the runs check

All properties are stated, with the code they are about, at the end of their
module. Every one of them fails when a single definition is changed the way a
plausible bug would change it; `PROJECT.json` names that mutant, and the mutated
definitions stand beside the ones they replace, marked "Mutant".

### The replay

Four hours, two writers, an energy and a cost statistic whose IDs sort cost first.
Four hours are enough for a row before a span, a span of two, and a row
after it, with a hole; the predecessor is looked for one hour back, then two, so
every read and each of the refusals happens. Two settle barriers and three
confirm barriers, as in the code.

| Run | Replays | Faults | Shows |
|---|---|---|---|
| `replay_faults` | 3 | a write queued again, a lost task, a timeout, a cancellation, a restart | `ReadsStayCurrent`: what a replay read is what is stored, with no write of a replay queued, until it queues its own. `QueuedIsMarked`: queued writes are marked. `SeamsAreUnconfirmed`: once nothing is in progress, each seam left belongs to hours some caller still offers; one write queued again is kept behind by the second settle barrier |
| `replay_heals` | 2 | a timeout, an "Adjust sum", a restart; tables with seams, rows without a sum, rows far back | `ConfirmedIsStored`: a confirmed replay is stored row by row. `ConfirmedIsSeamless`: whatever was there before, what it covers and the first row after has no seam. `LaterStepsAreKept`: a step later than the first row after a span is never touched |
| `replay_ends` | 2 | a write queued again, a lost task, a timeout, a cancellation | `ReplayEnds`: every replay ends |

Three replays are what it takes for one to leave writes queued, a second to
wait for them and itself end unconfirmed, and a third to meet what both left. The
replay runs do not check deadlock: when the bounded number of replays is used up
the model stops, as the system stops when nobody calls it.

`replay_ends` is the only one with fairness: the event loop resumes a task that can
go on, the recorder works off its queue, and a barrier that was lost times out
(`asyncio.timeout` of 30 s in `_async_run_removal`). No fairness is assumed of a
timeout while the recorder is merely busy, of cancellations or of faults.

How far the seam property goes is part of what the runs show. It holds with one
write queued again, as two barriers promise. With two in a row, or one beside a
lost task, it does not: `async_wait_for_recorder` says so itself ("An import
retried twice in a row can still be saved after it").

### The update cycle

Reconciliations every 2 and 4 hours in place of 24 and 168, waits up to 2 hours
(3 in `sync_recovers`) in place of 24, a rate limit of 1 hour up to 2. What the
properties tell apart is which of a wait, a cadence and an update comes first,
and each order occurs with these. Deadlock is checked: an entry never stops. `sync_units`
takes its two units as symmetric: nothing the model looks at tells them apart.

| Run | Units | Faults | Shows |
|---|---|---|---|
| `sync_units` | 2, of two properties | 2 failures, 2 late units, a replan, a reload; walks may bring usage without cost | `StatusTellsWaits`: an ok unit waits for nothing, a degraded one never holds its hourly update, a failed one waits for exactly one of its whole sync and its hourly update. `ReconciledOrOwed`: a reconciliation that the cadence counts as done was run by each unit or is owed by it. `NoneStarves`: nobody is passed over by the time budget more often in a row than there are others to go first, an update cut short counting once and one planned again twice |
| `sync_recovers` | 2, of one property | 2 failures, a late unit, an aborted update | `UnitsRecover`: with faults over, every unit is ok and owes nothing, for good |

Two late units are the fewest with which an unfair order passes the same one of two
over once too often; with two properties a cooldown passes while the other is asked,
and with one it stops both units. `sync_recovers` assumes that Home Assistant starts
each update when its wait is over, that a unit's requests end one way or another (each has a
time limit), and that a user asked to sign in does. It assumes nothing of the
order of units, nor that failures stop other than by their bound.

### Lanes

Windows of two dates, a history start after two empty ones, and a lane that reaches
four dates back, or six for a billing period. A refusal, a pause, a gap within a
window and one at a boundary then all lie between two targets. Two updates a date
apart; the second date is a revision day. `lane_safety` counts two hours a date, so
that an hour can be missing while its date is there. Its four trials take one family
of faults each: failing windows, stops, unconfirmed imports and reloads; readings
that change under a reached lane; misread windows; and supplies that begin or pause.
Deadlock is checked: there is always another update.

| Run | Shows |
|---|---|
| `lane_safety` | `TornIsUnsaved`: an hour the recorder may have wrong is remembered and replayed. `PassAsksAll`: a revision pass asks for every stored date. `ReportsTruth`: a lane that says it is complete is, misread windows included. `StartIsShown`: a history starts where Meridian showed it. `WaitsAreCounted`: waits, failures in a row and unsaved dates agree. `ReportsHold`: a revision pass does not make a complete lane say otherwise |
| `lane_covered` | `Covered`: every lane reaches its target, and stays there |

`lane_covered` assumes that an update goes on once begun, and that time passes again
and again where it could (an update may wait for what is due at its start,
hence strong fairness). Nothing is assumed of reloads, changes or faults.

### Lanes in turn

Three lanes, two of them of one property, with three windows each of which an update
asks for two (6 in the code), so that each lane needs several updates. Updates are 2
apart and take up to 1; rate limits ask for 1 or 3, less and more than an update's
interval, and doubled reach the most, 5. The three trials are what stops lanes one by
one (three failures and a budget that ends), what stops them all (three rate limits
and two updates asked for early), and a little of each. Deadlock is checked.

| Property of `turns` | Shows |
|---|---|
| `LimitIsObeyed` | while a rate limit's wait lasts nothing is asked of Meridian: not the rest of the coverage, the billing, nor a later update, unless somebody asks for it; even then no lane asks when a lane met the limit, up to an update's length |
| `TurnsAreEven` | lanes that still ask have had as many windows as one another, or one more |
| `OneTimeoutEach` | a property that timed out is not asked again on behalf of its other lane |
| `AllLanesCovered` | every lane gets all its windows, whichever lane or update was stopped before |

`AllLanesCovered` assumes that an update that is due starts, that requests end one way
or another, and that time passes; nothing of faults, nor of updates somebody asks
for. It needs faults to end by their bound: a lane whose dates time out in every
update stops the other lane of its property whenever its turn comes first.

### Walks

Windows of three dates, an hourly update of two dates, an initial import of three
windows and a date, twelve dates in all, two of them still to come, so that the
ladder's memory (two dates) runs out. The four trials split what Meridian may be
(supplies that began, ended or paused, refusals of four kinds, eight ways to read a
window, and three sizes of window it answers) from what may fail.

| Property of `walk` | Shows |
|---|---|
| `FetchesOneBlock` | the refinement: dates fetched are one block that grows back from today, and the rows held are what Meridian has for it |
| `EachDateOnce` | windows, split or not, cover each date once, newest first |
| `MisreadingIsFound` | windows read a day off, or without an end, fail the walk once three in a row have readings |
| `StartIsShown` | a history starts after a refusal or enough empty dates, never before a stored hour |
| `NewerIsStored` | a complete walk leaves no newer hour behind, readings published late included |
| `LadderClimbs` | on one date the size of a window ends two walks of a window or more (`Long`) at most |

Two windows in a row do not suffice for `MisreadingIsFound`: the code lets one
missing date, or edge, pass, as a meter may have a gap there.

### Setup

Two dialogs, opened one after the other, with two attempts each (5 in the code): the
first failure is followed by a retry and the second by the last form. Each trial
takes two kinds of fault, which cover their pairs that interact: a recorder that
queues an import again while waits time out, or while the dialog is closed or Home
Assistant stops; one that drops an import while waits time out; submissions sent
again while the dialog is closed or Home Assistant stops; and a dialog closed while a
wait times out. What is stored before is nothing, usage alone, or both. The dialogs
are symmetric. Deadlock is not checked: the setups end.

| Property of `setup` | Shows |
|---|---|
| `ImportsAreOwned` | one import at most, shown by its dialog; none begins in a removed flow or after the stop event |
| `EntryOnce` | one entry, whatever is sent again while it is set up |
| `StartsClean` | attempts and the first update start with nothing of a failed attempt stored or queued, an import queued again included |
| `RowsAreKept` | nothing stored before, nor by a success or the entry, is removed |
| `HalfSavedIsKnown` | an entry knows of hours half saved in statistics that existed before |
| `NothingIsLeft` | once all has ended and the queue is empty, nothing of a failed attempt is left |

`NothingIsLeft` leaves out an import that was queued again. With one, a closed
dialog's import can land behind the removal that was to undo it; nothing removes its
rows then, and the next setup takes them for history. `StartsClean` still holds: they
are stored before anything reads.

## Where the code and its documentation disagree

Two runs are expected to find a violation. Each states a sentence of the source
and shows a behaviour that contradicts it.

- `replay_stored`, `ConfirmedIsStored`. `statistics.py:11-12`: "Its writes are
  confirmed before it returns". The confirmation reads the joins only
  (`statistics.py:756-788`). When the recorder sends an import to the back of its
  queue and its first row, its last row and its total equal what is stored, the
  joins read back as written, and the replay returns confirmed before the rows
  between are stored. Normally they are stored a moment later; a restart just then
  would lose them, unknown to anyone.
- `lane_refusal`, `OneDateLeftOut`. `coordinator.py:3981-3983`: a walk's cutoff or a
  lane's target "needs no confirmation: it leaves out that one date at most." The
  refused date is kept as the start of the history while the target moves back (a
  billing period that becomes known, an import not confirmed): then every date from
  the new target on is left out, until a revision pass forgets the refusal.

Four more were met while modelling. No run states them; the first two are written into
`CoverageTurns` (`LimitIsObeyed` allows an update's length, and `TotalsFail` ends the
history of the wait):

- `coordinator.py:1886-1889` and `docs/architecture.md:122`: no coverage runs until
  Meridian's wait has passed. The wait is counted from the start of the update that
  met the limit (`data.synced_at + wait`, `coordinator.py:911`), not from when it was
  met: an update that somebody asks for may let lanes ask that much before it has
  passed. The hourly updates do not, as the next is due that long after the end.
- The same sentences: `async_fetch_and_import` says it of an update that succeeded
  only (`coordinator.py:811-813`), and so it is. One that fails after its coverage, as
  when the recorder cannot be read for the period totals, does not honour the limit
  (`coordinator.py:891-892`): neither the next update nor its lanes wait.

- `coordinator.py:903-904`: "An update that met no rate limit starts the doubling
  again." Only one that succeeded does (`coordinator.py:891-892`, `906-908`): an
  update in which every unit timed out met no rate limit, and the next rate limit is
  still counted as one in a row.
- `config_flow.py:1467`, `_async_discover_reconfigure_accounts`, is to "preserve any
  credentials rotated during refresh". It keeps the client's tokens in
  `_reconfigure_tokens` when the accounts were found, and the form stores those when it
  is submitted (`config_flow.py:1420-1426`), however much later: tokens an hourly
  update renewed and stored meanwhile are replaced by the older ones.

## What is proved

TLAPS checks the following for every value of the constants: any number of
writers, units, dialogs, hours and offers, and any number of each fault but those named.

**`StatisticsReplayProofs`**, with no assumption beyond those the modules declare. Both
properties hold until a write is queued again or a user adjusts a sum
(`Undisturbed`, part of their statement, and read from the state): a write queued
again can outlive the replay that queued it, as in `replay_stored`.

- `ReadsCurrent`: `Spec => []ReadsStayCurrent`
- `QueuedMarked`: `Spec => []QueuedIsMarked`
- `Invariance`: `Spec => [](Undisturbed => IInv)`, which both follow from.

`ReadsStayCurrent` is not inductive by itself: it says nothing of a replay that
waits. `IInv` adds that a replay past its locks holds them all (`Exclusive`), that
a barrier someone waits for stands in the queue behind every write of that writer's
statistics (`Behind`), and that a replay which waits for nothing has no such write
queued (`NothingQueued`). So once its barrier has run no write of the replay's
statistics is left, and while it holds the locks no one can queue another.

**`ReplaySumsProofs`**, from the same assumptions. `TypeCorrect` holds whatever is lost,
cancelled, queued again or adjusted; the others in a behaviour that is `Reliable`: no
write is queued again, no user adjusts a sum, and the recorder drops no import. Shifts
and barriers may be dropped, and anything may time out, be cancelled or be cut off by a
restart, as often as it likes.

- `TypeCorrect`: `Spec => []TypeOK`
- `ConfirmedStored`: `Spec /\ Reliable => ConfirmedIsStored`
- `ConfirmedSeamless`: `Spec /\ Reliable => ConfirmedIsSeamless`
- `SeamsKnown`: `Spec /\ Reliable => []SeamsAreUnconfirmed`, for tables that have no
  seam at first
- `LaterStepsKept`: `Spec /\ Reliable /\ []NoneForsaken => LaterStepsAreKept`

Why `Reliable`: a confirmation reads back the first and the last row of a span and the
row after it, not those between. An import that is dropped, or has still to run, is
noticed if one of the three differs from what was built; where all three happen to be
as built, as in `replay_stored`, it is not. A user's "Adjust sum" can make them so, too.
TLC tries dropped imports, adjustments and writes queued again, within the bounds below,
for the two properties of seams. A seam that the tables held at first, made by another
program, is nobody's unconfirmed hour, which is why `SeamsKnown` excludes it;
`ConfirmedSeamless` does not, as a replay heals what it covers.

`RInv` adds to `IInv` what is known of the rows:

- what a replay found to continue from is the newest row with a sum before its span, or
  there is none; while it still searches, none lies as far back as it has read
  (`Anchors`). That the next read has to start where the one before ended is part of it;
- the rows that a replay queued follow on from that row of the stored table, one from
  another, and fill its span, whose other hours hold nothing, once its import has run;
  what follows the span is what was read there (`Plans`);
- an import is queued before the shift that belongs to it, and there is one at most
  (`Orders`).

All three survive another replay's steps because the locks keep its writes off the
statistic (`IInv`), and those of the recorder because an import changes nothing outside
its span (`ImportKeeps`) and a shift no row of it (`AdjustKeeps`). A confirmation shows
that the import ran, and that the row after the span follows on (`ConfirmedSpan`);
`SpanIsSeamless` has the rest. For `SeamsKnown`, `Excuses` says that every seam is at an
hour that is being replayed or was and is not confirmed, and that it would be after each
task in the queue: an import can leave a seam only right after its span
(`ImportIsExcused`), a shift only where it starts (`AdjustIsExcused`), whichever of the
two is lost. A confirmation takes hours off that set, and `NoSeamIsLost` that no seam
needs them.

`LaterStepsKept` needs `RInv` and no more: a write that runs belongs to a replay whose
plan it is part of. An import changes no step before its span or past the first row
after it (`ImportStepsAre`), a shift only that row's (`ShiftStepsAre`). `NoneForsaken`:
no replay is cancelled, or gives up after its last barrier, with its writes still queued.
The property names `plan`, which is gone with the replay.
A user's
adjustment from before is a table the system may start with; one made during a replay is
left to TLC.

A running sum is a recursive function of the hours. What it does for every number of
hours needs an induction, which the library's theorems, with an operator for their
hypothesis, do not give this prover; `LeastNatural` gives it instead: a set of naturals
that is not empty has a least element, from the well-foundedness of their order as a
set of pairs. `RunningSumsAre`, `NewestHour`, `OldestHour` and `SumsFollowOn` rest on it.

**`SyncCycleProofs`**, with no assumption beyond those the modules declare:

- `StatusTells`: `Spec => []StatusTellsWaits`
- `ReconciliationKept`: `Spec => []ReconciledOrOwed`
- `NobodyStarves`: `Spec => []NoneStarves`
- `TypeCorrect`: `Spec => []TypeOK`
- `Invariance`: `Spec => []IInv`.

`ReconciledOrOwed` speaks of the time between updates; the steps of an update
need what holds in their midst. `IInv` adds, per unit: it runs what the update
asks of it, or owes it and runs its hourly update (`Asks`); once done, it ran it or
owes it (`Answers`); while at work it covers everything it owes, or runs only its
hourly update (`Works`), so a success that clears the debt has reached as far back;
and what was counted before is still owed (`NothingLost`). A plan made anew in the
middle of an update keeps all four, as planning only ever adds to a debt.

`NoneStarves` bounds a count by the number of units, so its argument counts units:
`Spread` says that of n units at most n - k have been passed over k times or more.
An update keeps it because those passed over most go first: either nobody is passed
over more often than before, or one of the most passed over is reached, and counts
from nothing. Updates cut short, and those planned again, may pass over everyone and
reach nobody first; they count as slack. The proof corrected the property: a
topology error after the newest windows leaves the counts of an update to be made
twice, so each adds two, where the property had said one. TLC finds the
counterexample with six late units, more than the run's two.

**`CoverageTurnsProofs`**, with no assumption beyond those the module declares:

- `LimitObeyed`: `Spec => LimitIsObeyed`
- `EvenTurns`: `Spec => []TurnsAreEven`
- `OneTimeout`: `Spec => []OneTimeoutEach`
- `TypeCorrect`: `Spec => []TypeOK`
- `Invariance`: `Spec => []IInv`.

The wait is remembered in three places: in what the next update is due by, in the hold
on the lanes, and, until the update ends, in the limit itself. `WaitIsDue` says that a
wait ends before the next update is due and is over while one asks; `WaitIsHeld`, that
a lane's wait outlasts the hold by no more than the time its update had taken. `Even`
counts the turn a lane has still to come in this round; `Fresh`, that an update begins
with no turns taken; `TimeoutsStop`, that each property that timed out is stopped.

**`WalkProofs`**, from assumptions on the constants that `Walk` states: no walk reaches
back before date 0, nor further than a whole history; a share divides by the dates of
any window. Any lengths of dates and windows, any supply, any readings:

- `FetchesBlock`: `Spec => FetchesOneBlock`, the refinement of `FetchedBlock`
- `DatesOnce`: `Spec => []EachDateOnce`
- `NewerStored`: `Spec => []NewerIsStored`
- `StartShown`: `Spec => []StartIsShown`, if `EmptyWindows >= 2`
  (`EMPTY_WINDOWS_AT_HISTORY_START` is 2)
- `LadderClimbed`: `Spec => []LadderClimbs`
- `MisreadingFound`: `Spec => []MisreadingIsFound`
- `TypeCorrect`: `Spec => []TypeOK`
- `Invariance`: `Spec => []IInv`.

The argument is that of a chain: what the queue holds covers the dates from the next
one to the walk's oldest, newest first, each once (`Chain`), and what was kept covers
those from the walk's date to the next (`Kept`). Taking a window moves the border;
splitting one by its days, or to probe it, or starting after a refused date, leaves
both what they were (`ChainSplit`, `ChainDays`, `PlanIsChain`; `WindowsProofs` has what
`PlanWindows`, `Importable` and `StartAfter` return).
`HeldAll` says that the rows held are all Meridian has of the dates fetched, which is
what the refinement's `honest` promises; `Ends` and `Streaks` bound what may end a walk
before its cutoff, and with `Bounded` give `NewerIsStored`. The proof
corrected two definitions: the cases of `TakenEmpty` overlapped where TLC took the
first and the prover may not, and `Honest`, under which a walk holds all that Meridian
has, had to leave out a supply that pauses within a window of a refused date, where
the code takes the pause for the start.

A history starts once the shares of the windows found empty in a row add up to two
whole windows, and windows may be split into days, or be short. `SInv` says what a share
stands for: every window left to ask for has the same share for each of its dates, u
of a whole window's and v of the oldest one's, if that is shorter (`Evenly`, `Shares`);
so a streak is at most u for each whole window's date and v for each of the others
since the oldest reading (`Counts`), and v's dates together make one share: two shares
are of more dates than a window has (`CountShows`). With one window's share the oldest
window, of a date perhaps, would do, which is why `StartShown` supposes two.

`LadderClimbs` counts walks over several updates, and walks of less than a window are
not among them: they leave a probe of a short window, which a longer one takes for its
own. `CInv` says where on the ladder the unit is. After one long walk that timed out, a
probe is owed, or the window's size is known to be the lever, or its days are asked for
(`OnLadder`); after two, the newest window of the next walk is asked for by its days
(`HeldDays`). The step needs what a walk under way still does (`Climbing`): where it
asks for its newest window whole and times out, it owed no probe; where it is past that
window, its answer came by days, and what that showed is remembered.

`MisreadingIsFound` is of a meter with no gaps, so how Meridian reads a window says
which of its edges come back (`WholeShows`): read a date or an hour short, the first or
the last hour is missing while the other one is there, however short the window, and
whether it came whole or, once refused, by its dates; where a date has one hour, no row
of a window of one date comes back at all. `FInv` says what the checks hold of the
oldest window kept, and what they have counted of the two oldest with readings: one
edge, or one date, already (`PairIs`). Each pair disagrees where they meet
(`PairShows`), a window read a date early at once, and a third one would be counted
twice, or, read a date late, has rows after its end, as only the two newest windows
may hide (`TakenFound`).

**`LaneProofs`**, from assumptions on the constants that `Lane` states: the days a
revision asks for again are within those it covers, these within the longest target a
lane may have, and that before today (`REVISION_OVERLAP`, `INITIAL_BACKFILL` and the
longest billing period: 14, 90 and 400 days). Any supply, any failures, stops, reloads,
changes and billing periods:

- `WaitsCounted`: `Spec => []WaitsAreCounted`
- `TornUnsaved`: `Spec => []TornIsUnsaved`
- `PassAsks`: `Spec => []PassAsksAll`
- `ReportedSteps`: `Spec => []StepsRight`, the part of `ReportsTruth` about sums
- `Truth`: `Spec /\ []Honest => []ReportsTruth`
- `LaneStartShown`: `Spec /\ []Honest => []StartIsShown`, where a history starts after
  two empty days in a row or more (`EMPTY_DAYS_AT_HISTORY_START`, 14)
- `TypeCorrect`: `Spec => []TypeOK`
- `Invariance`: `Spec => []IInv`.

`TornIsUnsaved` speaks of a lane between its updates, and an update removes dates from
the unsaved ones as it imports them. `IInv` adds that the target of an update is before
every date not confirmed (`Aimed`), that what it read is what is stored from there on
until an import fails (`HasRead`), that a window fetched lies in the lane and brings no
row of before its history (`Rows`), and that the entry is handed every such date
(`KeptOK`): so an import that confirms a date has written on to the last hour a step
could be wrong at. `Owed` does the same for a pass: what it owes is stored, not asked
for since, and beyond what a walk fetches. It showed that a pass may end with a date
owed that has come to lie before the target, as when a billing period passes;
`PassAsksAll` had not said so, and now does.

`Truth` supposes that Meridian answers the dates it is asked for, and refuses only
dates before its supply, whose readings go on for a window at least (`Honest`). A
supply that pauses, or windows read otherwise, could leave hours out that the checks of
`importable` cannot see in general; that the lane still reports the truth for those
TLC tries rests on how far it looks, and is only model-checked.

`LaneStartShown` supposes the same. Its invariant, `NoneShown`, says of every date the
lane was shown to be before its history that Meridian has no reading of it, but hours
published since the lane last looked (`late`), or stored since and known to the update
under way (`Seen`). What shows it is a refusal, and a refusal is of dates before every
reading (`WalkStarts` for the walk's, `CoverStarts` for a window's), or a gap of empty
days, which `GapIs` finds before every reading too; forgetting a start, restoring or
noting one leaves no other dates shown (`OverKeeps`, `ShownKeeps`). It needs that every
hour stored is over (`IsOver`), or a walk's newest date could be after today: so `Init`
says it of the hours stored at the start.

**`SetupFlowProofs`**, from the assumptions that `None` is neither an entry nor
an attempt and that attempts and passes are positive:

- `ImportsOwned`: `Spec => []ImportsAreOwned`
- `OneEntry`: `Spec => []EntryOnce`
- `RowsKept`: `Spec => RowsAreKept`
- `HalfSavedKnown`: `Spec => HalfSavedIsKnown`
- `NothingLeft`: `Spec => []NothingIsLeft`, where the recorder queues one import again
  at most (`OneRequeue`)
- `StartsCleanly`: `Spec => StartsClean`, where it does and a wait has more passes than
  one (`_RECORDER_PASSES`, 2)
- `TypeCorrect`: `Spec => []TypeOK`, whose bound on the attempts is the part that
  takes an argument
- `Invariance`: `Spec => []IInv`.

That two imports never run at once is no matter of one flow: a new dialog may open
while another imports. `IInv` adds that at most one flow holds the email, that is,
has passed its first step and is not gone (`Holds`); that a flow which holds it and
has not created the entry finds none created; and which steps a submission, an
attempt or a created entry may stand at (`FlowOK`). Most steps change one flow, which
`OneFlow` reduces to `Keeps`, a fact about its record; submitting an email, which
replaces the parked flows, the stop event and a restart have lemmas of their own.

A form that was submitted before a failure could start one attempt too many; `TInv`
relates a flow's attempts to its step: none before the first import (`Early`), at
least one once it failed, and fewer than allowed while the form for a retry is
shown. What a submission waits for fits the form it came from, so that one which
times out comes back to a form the attempts allow (`TriedGivesUp`).

`RowsKept` is about removals queued long before they run: the recorder may be behind,
and a dialog, an attempt or an entry may come in between. `RInv` says what is known
of the queue meanwhile:

- while an attempt runs, once one has succeeded, and once there is an entry, no
  removal is queued (`Erased`); a success has no import of its own queued either;
- a flow that waits for the recorder has a task behind every removal (`Behind`),
  so that none is left when the wait ends, however many passes are cut short;
- what a flow may still have removed (`Owns`, `CreatedBy`) holds no rows of before and
  none of another flow's success: it saw what was stored after such a wait, and no
  other flow succeeds while it holds the email;
- so no removal that is queued names a statistic with rows to keep.

A step is plain when it neither starts an attempt nor brings one to success
(`Plain`): `PlainSteps` does those at once, whatever removal they queue, and the start,
the import, the success, the entry and its first update have lemmas of their own. The
stop event queues what each flow's cancellation does, in any order; of these at most
one is not empty (`FlatPair`), since at most one attempt runs.

`HalfSavedKnown` has to know what an import left in statistics that are not removed,
though the recorder may write it, drop it or queue it again at any time, before or
after the flow gave up on it. `HInv` tells it from what the flow remembers:

- a flow that keeps a statistic it did not create, remembers nothing half saved, and
  has no import sent and none confirmed (`Quiet`) has no trace of an attempt, stored or
  queued (`Absent`), unless Home Assistant stops; so whoever gives up on an import
  that was sent must remember it, and whoever forgets must have removed all of it;
- a flow whose import is confirmed, until it ends (`Wrote`), has the rows of its last
  attempt in both statistics: no removal is queued meanwhile, by `RInv`.

An entry is created by the second, or by a flow that is `Quiet` or remembers, or after
its removals emptied both statistics. No bound on the imports queued again is needed.

What attempts leave does need one: an import queued again is behind the removal or the
wait that was to follow it, and the two passes of a wait are for one such import, as
`_async_rollback_complete` says. TLC finds `StartsClean` violated with two of them, and
with one where a wait has one pass, so neither hypothesis can go. The trials of `setup`
keep to both; attempts, dialogs and other faults are any number.

Both theorems rest on `StepEffects`: whatever a step does, unless it is the recorder's,
it queues at the end; each flow keeps its attempts, or stops one and queues a
removal of all it created, or succeeds, or starts the next after a wait (`Became`); a
wait is kept, or queues a task of its own (`WaitsAs`); and only the flow that runs queues
an import (`Queued`). Over it there are three invariants:

- `LInv`, until the recorder queues an import again: an attempt that neither runs nor
  has succeeded has nothing in a statistic its flow created, stored or queued
  (`Absence`), or a removal of that statistic is behind all of its imports (`Doomed`).
  With the queue empty, that is `NothingIsLeft`.
- `WInv`: while an import of an attempt is queued, a wait has a pass left for each one
  the recorder may queue again, and one more if the import is behind every task of the
  wait (`InTime`). So none is queued once a wait is over (`OverWaited`).
- `FInv`: a flow that runs an attempt, has succeeded or has created an entry has
  nothing of its other attempts, stored or queued (`OnlyFinal`): it found its statistics
  empty once a wait was over, or none was made before. `Absence` lasts, whatever the
  recorder does. What the first update reads is what its flow left.

The arguments go action by action; lemmas about queues (`AppendTask`,
`TailTasks`, `ConcatTasks`) and about how far back modes reach (`Spans`,
`LargerReaches`) carry the steps.

**Only model-checked.** Liveness (`ReplayEnds`, `UnitsRecover`, `Covered`,
`AllLanesCovered`), which the prover
does not reach. What `LaterStepsAreKept` says of replays that end
with their writes queued or beside a user's adjustment, and what the two
properties of seams say beyond `Reliable`. What Meridian shows by its answers:
`ReportsTruth` and `StartIsShown` of a lane hold, without `Honest`, for the supplies
and the readings the runs try. `ReportsHold` compares two updates, and what comes due
between them: dates apart from each other take a window each, so it holds where few
dates pass between updates, as in the run, and is no fact of every lane.

## What is left out

Not modelled, though it could be: the topology cache and the billing periods (their
effects on an update and on a lane are steps of `SyncCycle`, `CoverageTurns` and
`Lane`), reauthentication and reconfiguration, the session's renewals, period totals,
entry removal and migration.

Not to be modelled: parsing, GraphQL text and the data classes
(`parsers.py`, `graphql.py`, `models.py`), stateless conversions of one response;
`sensor.py` and `diagnostics.py`, which show what others computed; `const.py`;
translations, logging and redaction; tests and the scripts for releases. Time in
seconds (pacing, resends after 2 to 5 s, request time limits, 4 minutes for a setup
import) is a choice of outcomes, not a clock.

## The plan

Done: the write path (`StatisticsReplay`), the hourly update (`SyncCycle`), lanes
(`Lane`, `CoverageTurns`), walks (`Walk`) and setup (`SetupFlow`), with proofs for
each.
Next, in order:

1. Proofs: a lane's reports beyond `Honest`, and `ReportsHold` for updates a date apart.
2. The session: tokens renewed, stored and rejected, with concurrent requests and a
   reconfiguration open beside them.
3. Topology and billing caches, accounts added and removed.
4. `PeriodTotals` as operators over tables, against a reference sum.
5. An abstract replay, one atomic write of a span, which `StatisticsReplay` refines
   without faults; and an abstract update, which `SyncCycle` refines by `behind` and
   `owed`.
