--------------------------------- MODULE Lane ---------------------------------
(***************************************************************************)
(* One lane: how far back a direction's stored history reaches, and the    *)
(* coverage that completes it, a few windows at each update, back to a     *)
(* target that moves (lanes.py and the coverage in coordinator.py).        *)
(*                                                                         *)
(* Meridian is a record: the hours it has a reading for, the dates a       *)
(* request may not start on, how it reads a window's two dates, and the    *)
(* stored hours it has revised.  It may publish an hour late, stop         *)
(* returning one, or revise it.  The update's own walk is here only by     *)
(* what it leaves the lane, and its imports are all confirmed; the turns   *)
(* lanes take, and the walks, are other modules'.                          *)
(***************************************************************************)
EXTENDS Windows, Sequences

CONSTANTS
  None,
  LongestBackoff,   \* hours a wait never exceeds
  MostFailures,     \* bound: failures in a row counted, past the longest wait
  FirstToday,       \* the date the behaviour starts on
  LastToday,        \* bound: the last date of it
  Depth,            \* dates back a lane reaches without a billing period
  Longest,          \* dates back it never reaches past
  Overlap,          \* dates back the reconciliations revise
  EmptyDays,        \* dates in a row with no reading that start a history
  CoverageWindows,  \* windows a lane asks for in one update
  RevisionDates,    \* the lane's revision day of each month
  Grace,            \* dates after it on which its pass may still start
  BillingStarts,    \* the first dates a billing period may have
  Trials            \* bound: how behaviours begin, and what may befall them

Memory == INSTANCE UnitState

Dates == 0 .. LastToday
Hours == Midnight(0) .. Midnight(LastToday + 1) - 1

Readings == {"asked", "no last date", "no first date", "no last hour", "no first hour"}

\* Windows that fail; coverages a rate limit or the budget ends; imports not
\* confirmed; hours Meridian publishes late, revises or withdraws; reloads and
\* restarts; initial imports and walks after an outage; and billing periods.
Faults == {"faults", "stops", "unsaved", "changes", "reloads", "deep", "billing"}

MeridianRecord ==
  [has : SUBSET Hours, refuses : SUBSET Dates, reads : Readings, revised : SUBSET Hours]

ASSUME LaneAssumption ==
  /\ None \notin Int
  /\ LongestBackoff \in 1 .. Memory!Doubled[6] /\ MostFailures \in 1 .. 6
  /\ {FirstToday, LastToday, Depth, Longest, Overlap, Grace} \subseteq Nat
  /\ EmptyDays \in Nat \ {0} /\ CoverageWindows \in Nat \ {0}
  /\ FirstToday <= LastToday
  /\ 0 < Overlap /\ Overlap <= Depth /\ Depth <= Longest /\ Longest <= FirstToday
  /\ RevisionDates \subseteq Nat
  /\ \A trial \in Trials :
       /\ trial.meridians \subseteq MeridianRecord
       /\ \A hours \in trial.stored : hours \subseteq Hours
       /\ trial.spare \in [Faults -> Nat]
  /\ BillingStarts \subseteq Dates \cup {None}

VARIABLES
  today,
  billing,   \* the first date of the current billing period, or None
  meridian,
  stored,    \* hours with usage in the recorder
  lane,      \* LaneState
  kept,      \* what the entry keeps across a reload: [date -> wait or None]
  phase,     \* of the update
  run,       \* what the update read, and how far its coverage is
  torn,      \* history: hours the step after which may be wrong
  late,      \* history: hours published since their date was last asked for
  owed,      \* history: stored dates a revision pass has not asked for yet, but
             \* those before the target when it ended
  calm,      \* history: nothing waits, and nothing has gone wrong since
  spare      \* how much of each bound is left

history == <<torn, late, owed, calm>>
vars == <<today, billing, meridian, stored, lane, kept, phase, run, history, spare>>

Use(fault) == /\ spare[fault] > 0
              /\ spare' = [spare EXCEPT ![fault] = @ - 1]

-------------------------------------------------------------------------------
(***************************************************************************)
(* LaneState.                                                              *)
(***************************************************************************)
LaneRecord ==
  [fetched : SUBSET Dates, empty : SUBSET Dates, refusedThrough : Dates \cup {None},
   bad : [Dates -> Memory!Waits \cup {None}], tries : [Dates -> 0 .. MostFailures],
   unsaved : SUBSET Dates, revisionOn : Nat \cup {None}, revising : BOOLEAN,
   revised : SUBSET Dates, knownFetched : SUBSET Dates, knownEmpty : SUBSET Dates,
   knownRefused : Dates \cup {None}, reaches : BOOLEAN]

NewLane ==
  [fetched |-> {}, empty |-> {}, refusedThrough |-> None,
   bad |-> [d \in Dates |-> None], tries |-> [d \in Dates |-> 0], unsaved |-> {},
   revisionOn |-> None, revising |-> FALSE, revised |-> {}, knownFetched |-> {},
   knownEmpty |-> {}, knownRefused |-> None, reaches |-> FALSE]

Bad(l) == {d \in Dates : l.bad[d] # None}
WaitsOn(l, d) == Memory!Pending(l.bad[d])

\* Mutant: a date imported in full stays among those not confirmed.
SettleWaits(l, dates) ==
  [l EXCEPT !.bad = [d \in Dates |-> IF d \in dates THEN None ELSE @[d]],
            !.tries = [d \in Dates |-> IF d \in dates THEN 0 ELSE @[d]]]

\* Dates imported in full and confirmed.
Settle(l, dates) ==
  [l EXCEPT !.bad = [d \in Dates |-> IF d \in dates THEN None ELSE @[d]],
            !.tries = [d \in Dates |-> IF d \in dates THEN 0 ELSE @[d]],
            !.unsaved = @ \ dates]

\* Dates fetched in full and imported, and which of them returned nothing.
Took(l, dates, empty, revised) ==
  Settle([l EXCEPT !.fetched = @ \cup dates, !.empty = (@ \ dates) \cup empty,
                   !.knownFetched = @ \ dates, !.knownEmpty = @ \ dates,
                   !.revised = IF revised THEN @ \cup dates ELSE @], dates)

\* Dates whose request or import failed.
Fail(l, dates, unsaved) ==
  LET tries == [d \in Dates |-> IF d \in dates THEN Memory!OneMore(l.tries[d])
                                ELSE l.tries[d]]
  IN  [l EXCEPT !.tries = tries,
                !.bad = [d \in Dates |-> IF d \in dates THEN Memory!Backoff(tries[d])
                                         ELSE @[d]],
                !.unsaved = IF unsaved THEN @ \cup dates ELSE @]

RestoreUnsaved(l, retries) ==
  LET dates == {d \in Dates : retries[d] # None}
  IN  [l EXCEPT !.bad = [d \in Dates |-> IF d \in dates THEN retries[d] ELSE @[d]],
                !.tries = [d \in Dates |-> IF d \in dates /\ @[d] = 0 THEN 1 ELSE @[d]],
                !.unsaved = @ \cup dates]

UnsavedRetries(l) ==
  [d \in Dates |-> IF d \notin l.unsaved THEN None
                   ELSE IF l.bad[d] = None THEN 0 ELSE l.bad[d]]

ForgetBadBefore(l, day) == Settle(l, {d \in Dates : d < day})

ForgetBefore(l, day) ==
  ForgetBadBefore(
    [l EXCEPT !.fetched = {d \in @ : d >= day}, !.empty = {d \in @ : d >= day},
              !.revised = {d \in @ : d >= day},
              !.knownFetched = {d \in @ : d >= day},
              !.knownEmpty = {d \in @ : d >= day}], day)

\* The lane's revision day whose pass may start today, or None.
RevisionDue(date) ==
  LET passed == {r \in RevisionDates : r <= date}
  IN  IF passed = {} \/ date - Greatest(passed) > Grace THEN None ELSE Greatest(passed)

Starts(l, date) == RevisionDue(date) \notin {None, l.revisionOn}

\* Mutant: what a pass forgets is not kept apart for what the lane reports.
StartRevisionAfresh(l, date) ==
  IF ~ Starts(l, date) THEN l
  ELSE [l EXCEPT !.revisionOn = RevisionDue(date), !.revising = TRUE, !.revised = {},
                 !.fetched = {}, !.empty = {}, !.refusedThrough = None]

StartRevision(l, date) ==
  IF ~ Starts(l, date) THEN l
  ELSE [l EXCEPT !.revisionOn = RevisionDue(date), !.revising = TRUE, !.revised = {},
                 !.knownFetched = @ \cup (l.fetched \ Bad(l)),
                 !.knownEmpty = @ \cup l.empty,
                 !.knownRefused = IF l.refusedThrough # None THEN l.refusedThrough ELSE @,
                 !.fetched = {}, !.empty = {}, !.refusedThrough = None]

\* Mutant: as many empty dates anywhere before the oldest stored one.
StartGuessed(refusedThrough, empty, oldest) ==
  IF refusedThrough # None /\ (oldest = None \/ refusedThrough < oldest)
  THEN refusedThrough + 1
  ELSE IF oldest # None /\ Cardinality({d \in empty : d < oldest}) >= EmptyDays
  THEN oldest ELSE None

\* The first date of the history that a refusal or empty dates show, or None.
StartShown(refusedThrough, empty, oldest) ==
  IF refusedThrough # None /\ (oldest = None \/ refusedThrough < oldest)
  THEN refusedThrough + 1
  ELSE IF oldest # None /\ \A k \in 1 .. EmptyDays : oldest - k \in empty
  THEN oldest ELSE None

OldestDay(hours) == IF hours = {} THEN None ELSE DayOf(Least(hours))

HistoryStart(l, oldest) == StartShown(l.refusedThrough, l.empty, oldest)

\* With what a running pass forgot, until it has found a start again.
KnownStart(l, oldest) ==
  IF HistoryStart(l, oldest) # None THEN HistoryStart(l, oldest)
  ELSE StartShown(IF l.refusedThrough # None THEN l.refusedThrough ELSE l.knownRefused,
                  l.empty \cup l.knownEmpty, oldest)

-------------------------------------------------------------------------------
(***************************************************************************)
(* Which dates a lane asks for.  target is a date, whose midnight is the   *)
(* lane's target; end the first date it does not ask for.                  *)
(***************************************************************************)
\* Mutant: the target moves on past dates not confirmed.
TargetMovesOn(date, start, unsaved) ==
  Larger(Least({date - Depth} \cup ({start} \ {None})), date - Longest + 1)

Target(date, start, unsaved) ==
  Larger(Least({date - Depth} \cup ({start} \ {None}) \cup unsaved), date - Longest + 1)

Frontier == IF stored = {} THEN None ELSE Greatest(stored)

CoverageEnd(date, frontier, fetchedFrom) ==
  Least({date - Overlap + 1} \cup (IF frontier = None THEN {} ELSE {DayOf(frontier) + 1})
        \cup ({fetchedFrom} \ {None}))

FirstDay(l, energy, target) ==
  LET start == HistoryStart(l, OldestDay(energy))
  IN  IF start = None THEN target ELSE Larger(target, start)

FirstKnownDay(l, energy, target) ==
  LET start == KnownStart(l, OldestDay(energy))
  IN  IF start = None THEN target ELSE Larger(target, start)

HasMissingHour(d, energy, target, frontier) ==
  \E h \in HoursOf(d) \ energy : h >= Midnight(target) /\ (frontier = None \/ h < frontier)

\* Mutant: dates whose hours are all stored are not asked for again.
MissingUnlessStored(l, energy, target, end, frontier) ==
  {d \in FirstDay(l, energy, target) .. end - 1 :
     ~ WaitsOn(l, d) /\ d \notin l.fetched /\ HasMissingHour(d, energy, target, frontier)}

MissingDays(l, energy, target, end, frontier) ==
  {d \in FirstDay(l, energy, target) .. end - 1 :
     /\ ~ WaitsOn(l, d)
     /\ d \in Bad(l) \/ (d \notin l.fetched /\ HasMissingHour(d, energy, target, frontier))}

RevisionDays(l, energy, target, end) ==
  IF ~ l.revising THEN {}
  ELSE {d \in DaysOf(energy) : FirstDay(l, energy, target) <= d /\ d < end}
         \ (l.revised \cup l.fetched \cup Bad(l))

ReachesTarget(l, energy, target, end, frontier) ==
  \A d \in FirstKnownDay(l, energy, target) .. end - 1 :
    /\ d \notin l.unsaved
    /\ HasMissingHour(d, energy, target, frontier)
         => d \in l.knownFetched \cup (l.fetched \ Bad(l))

\* The newest of dates, with the dates in a row before it that join its window.
NewestSpan(l, dates) ==
  LET last == Greatest(dates)
      Joins(first) == first = last \/ first .. last \cap Bad(l) = {}
  IN  Window(Least({first \in dates : first .. last \subseteq dates /\ Joins(first)
                                      /\ last - first < WindowDays}), last)

-------------------------------------------------------------------------------
(***************************************************************************)
(* What Meridian returns for a window, and how the coverage takes it.      *)
(***************************************************************************)
Now == Midnight(today) + HoursPerDay \div 2

\* The hours of a window as Meridian reads it that are over.
Read(w) ==
  CASE meridian.reads = "asked" -> InWindow(Hours, w)
    [] meridian.reads = "no last date" -> InWindow(Hours, Window(w.first, w.last - 1))
    [] meridian.reads = "no first date" -> InWindow(Hours, Window(w.first + 1, w.last))
    [] meridian.reads = "no last hour" -> InWindow(Hours, w) \ {Midnight(w.last + 1) - 1}
    [] meridian.reads = "no first hour" -> InWindow(Hours, w) \ {Midnight(w.first)}

Returned(w) == {h \in Read(w) \cap meridian.has : h < Now}
Refuses(w) == w.first \in meridian.refuses

\* A refusal counts only for a window older than every stored hour's date.
MayBeRefusal(w) == w.last <= OldestDay(run.energy)

DatesReturned(dates) == {d \in dates : Returned(Window(d, d)) # {}}

CoverStart(w) ==
  IF ~ Refuses(w) THEN AllCame
  ELSE IF ~ MayBeRefusal(w) THEN RefusalFails
  ELSE StartAfter(w, run.target, TRUE, FALSE,
                  DatesReturned(w.first - 1 .. w.last), meridian.refuses)

\* The rows kept of a window, from the lane's target on: those of the dates
\* that came back alone, when it was refused.
CoverRows(w) ==
  {h \in (IF Refuses(w) THEN UNION {Returned(Window(d, d)) : d \in KeptDates(w, CoverStart(w))}
          ELSE Returned(w)) : h >= Midnight(run.target)}

\* A date of the window's edge, asked for with the date after it, shows rows
\* of that date the window did not return.
EdgeShowsMore(w, first, date) ==
  LET edge == Window(first, first + 1)
  IN  IF Refuses(edge) THEN ~ MayBeRefusal(edge)
      ELSE {h \in Returned(edge) \cap HoursOf(date) : h >= Midnight(run.target)}
             \ CoverRows(w) # {}

\* _async_check_cover_edge: its last date, while the history goes on after it.
EndMisread(w) ==
  LET rows == CoverRows(w)
      after == Midnight(w.last + 1)
  IN  /\ after - 1 \notin rows
      /\ Frontier # None /\ after <= Frontier
      /\ after \in run.energy
         \/ (w.last \notin DaysOf(rows) /\ w.last + 1 \notin lane.empty)
      /\ EdgeShowsMore(w, w.last, w.last)

\* Mutant: a window is not checked against the date before it.
StartUnchecked(w) == FALSE

\* _async_check_cover_start: its first date, while it may go on before it.
StartMisread(w) ==
  LET rows == CoverRows(w)
      start == HistoryStart(lane, OldestDay(run.energy))
  IN  /\ rows # {} \/ w.first = w.last
      /\ Midnight(w.first) \notin rows
      /\ \/ Midnight(w.first) - 1 \in run.energy
         \/ /\ start = None \/ w.first - 1 >= start
            /\ w.first - 1 \notin lane.empty
      /\ EdgeShowsMore(w, w.first - 1, w.first)

CoverFails(w) ==
  \/ CoverStart(w) = RefusalFails
  \/ /\ CoverStart(w) = AllCame
     /\ EndMisread(w) \/ StartMisread(w)
  \/ /\ CoverStart(w) \notin {AllCame, RefusalFails}
     /\ \E h \in run.energy : DayOf(h) <= CoverStart(w)

-------------------------------------------------------------------------------
(***************************************************************************)
(* What an imported window writes and shows (_async_import_coverage,       *)
(* _note_cover_window).                                                    *)
(***************************************************************************)
StoredIn == InWindow(run.energy, run.window)
Days == WindowDates(run.window)

\* A window holding a date not confirmed is replayed in full.
Whole == lane.unsaved \cap Days # {}

Changes ==
  LET rows == Importable(run.rows, StoredIn)
  IN  IF Whole THEN rows ELSE rows \ (stored \ meridian.revised)

LeftOut ==
  LET out == LeftOutDates(run.rows, StoredIn, Days) \cup (DaysOf(StoredIn) \ DaysOf(run.rows))
  IN  IF Whole /\ Changes # {}
      THEN out \cup (Days \ ReplayedDates(Days, Changes, StoredIn, {}, {}))
      ELSE out

\* Mutant: a date the rules left out counts as fetched.
NoRetries(out, energy) == {}

\* Of the dates left out, those that wait again.
Retries(out, energy) ==
  {d \in out : d \in Bad(lane) \/ HasMissingHour(d, energy, run.target, Frontier)}

Noted(l, out, retry) ==
  LET taken == Days \ retry
  IN  Took(Fail(l, retry, FALSE), taken, taken \ (DaysOf(run.rows) \cup out),
           run.kind = "revision")

\* What the recorder holds after an import of changes, and which steps may be
\* wrong: a replay shifts the rows after it to follow on, and one not
\* confirmed may have been saved without that shift.
Span(changes) == IF changes = {} THEN {} ELSE Least(changes) .. Greatest(changes)
Confirmed(changes) ==
  /\ stored' = stored \cup changes
  /\ torn' = torn \ Span(changes)
  /\ meridian' = [meridian EXCEPT !.revised = @ \ changes]
SavedUnshifted(changes) ==
  /\ stored' = stored \cup changes
  /\ torn' = (torn \ Span(changes))
               \cup {h \in {Greatest(changes)} : \E later \in stored : later > h}
  /\ meridian' = [meridian EXCEPT !.revised = @ \ changes]
Unconfirmed(changes) ==
  \/ UNCHANGED <<stored, torn, meridian>>
  \/ Confirmed(changes)
  \/ SavedUnshifted(changes)

-------------------------------------------------------------------------------
(***************************************************************************)
(* The update's own walk, by what it leaves the lane (_note_lane_walk,     *)
(* _note_lane_failure).  Walks check their windows against each other, so  *)
(* what one keeps is what Meridian has.                                    *)
(***************************************************************************)
Cutoff(initial) ==
  LET since == Now - (IF initial THEN Depth ELSE Overlap) * HoursPerDay
  IN  IF ~ initial /\ Frontier # None /\ Frontier < since
      THEN Larger(Now - Depth * HoursPerDay, Frontier) ELSE since

Has(w) == {h \in InWindow(meridian.has, w) : h < Now}

\* A walk: its cutoff, the windows it kept, the rows of the dates kept of one
\* refused after them, the date the history starts after, and the window that
\* failed.
Walk(since, windows, n, refused, start, failing) ==
  [since |-> since, kept |-> {windows[k] : k \in 1 .. n}, start |-> start,
   rows |-> {h \in refused \cup UNION {Has(windows[k]) : k \in 1 .. n} : h >= since},
   completed |-> IF start # None THEN windows[n + 1].first
                 ELSE IF n = 0 THEN None ELSE windows[n].first,
   failing |-> IF failing THEN WindowDates(windows[n + 1]) ELSE {},
   fault |-> failing /\ ~ Refuses(windows[n + 1])]

\* It ends at its cutoff or at an empty window, at a refused one that shows
\* where the history starts, or at one that fails.
Walks(since) ==
  LET windows == PlanWindows(since, today)
      Answered(n) == \A k \in 1 .. n : ~ Refuses(windows[k])
      Fetched(n) == UNION {Has(windows[k]) : k \in 1 .. n}
      Start(n) == StartAfter(windows[n + 1], DayOf(since), Fetched(n) # {}, stored = {},
                    {d \in Dates : Has(Window(d, d)) # {}}, meridian.refuses)
      counts == 1 .. Len(windows)
  IN  {Walk(since, windows, n, {}, None, FALSE) :
         n \in {k \in counts : Answered(k) /\ (k = Len(windows) \/ Has(windows[k]) = {})}}
      \cup {Walk(since, windows, n - 1,
                 UNION {Has(Window(d, d)) : d \in KeptDates(windows[n], Start(n - 1))},
                 Start(n - 1), FALSE) :
         n \in {k \in counts : Answered(k - 1) /\ Refuses(windows[k])
                  /\ Start(k - 1) \in Dates
                  /\ \A h \in stored : h < since - 1 \/ DayOf(h) > Start(k - 1)}}
      \cup {Walk(since, windows, n - 1, {}, None, TRUE) :
              n \in {k \in counts : Answered(k - 1)}}

WalkStored(walk) == {h \in stored : h >= walk.since - 1}

\* The newest date whose rows the import left out, or None.
LeftOutThrough(walk) ==
  LET fetched == walk.rows
      hours == WalkStored(walk)
  IN  IF fetched = {} \/ hours = {} THEN None
      ELSE IF TailNotReturned(fetched, hours) THEN today
      ELSE IF Holes(fetched, hours) = {} THEN None ELSE DayOf(Greatest(Holes(fetched, hours)))

WalkImports(walk) == Importable(walk.rows, WalkStored(walk))

\* The dates it fetched in full, older than the newest stored hour's.
WalkDates(walk, newest) ==
  {d \in UNION {WindowDates(w) : w \in {w \in walk.kept :
       Has(w) # {} \/ InWindow(WalkStored(walk), w) = {}}} :
     /\ d < newest /\ Midnight(d) >= walk.since
     /\ LeftOutThrough(walk) = None \/ d > LeftOutThrough(walk)}

NoteWalk(l, walk, frontier) ==
  LET started == IF walk.start = None THEN l ELSE [l EXCEPT !.refusedThrough = walk.start]
      dates == WalkDates(walk, DayOf(frontier))
      returned == dates \cap DaysOf(walk.rows)
      gap == dates \ (DaysOf(walk.rows) \cup DaysOf(WalkStored(walk)))
      revised == {d \in returned \cup gap : d < today - Overlap}
      noted == [started EXCEPT !.empty = (@ \ returned) \cup gap,
                               !.knownEmpty = @ \ returned,
                               !.fetched = @ \cup revised]
  IN  IF frontier = None THEN started
      ELSE Settle(noted, ReplayedDates(revised, WalkImports(walk), WalkStored(walk), {}, {}))

NoteWalkFailure(l, walk) == Fail(l, {d \in walk.failing : d < today - Overlap}, FALSE)

\* The first date the walk fetched in full.
FetchedFrom(walk) ==
  LET first == IF Midnight(walk.completed) < walk.since THEN walk.completed + 1
               ELSE walk.completed
  IN  IF LeftOutThrough(walk) = None THEN first ELSE Larger(first, LeftOutThrough(walk) + 1)

-------------------------------------------------------------------------------
Idle == [energy |-> {}, target |-> 0, fetchedFrom |-> None, asked |-> 0, ok |-> FALSE,
         covers |-> FALSE, complete |-> FALSE, cancelled |-> FALSE,
         window |-> Window(0, 0), kind |-> "coverage", rows |-> {}]

Init ==
  /\ today = FirstToday
  /\ billing = None
  /\ \E trial \in Trials :
       /\ meridian \in trial.meridians
       /\ stored \in trial.stored /\ stored \subseteq {h \in meridian.has : h < Now}
       /\ spare = trial.spare
  /\ lane = NewLane
  /\ kept = [d \in Dates |-> None]
  /\ phase = "waiting"
  /\ run = Idle
  /\ torn = {} /\ late = {} /\ owed = {} /\ calm = FALSE

UseBoth(fault, deep) ==
  /\ fault => spare.faults > 0
  /\ deep => spare.deep > 0
  /\ spare' = [spare EXCEPT !.faults = IF fault THEN @ - 1 ELSE @,
                            !.deep = IF deep THEN @ - 1 ELSE @]

\* An update: the target and what is stored, then its walk and its import.
Update ==
  /\ phase = "waiting"
  /\ \E initial \in BOOLEAN : \E walk \in Walks(Cutoff(initial)) :
       LET target == Target(today, billing, lane.unsaved)
           imports == walk.completed # None
           ok == walk.failing = {}
           energy == {h \in stored' : h >= Midnight(target)}
           noted == IF imports THEN NoteWalk(lane, walk, Frontier') ELSE lane
           after == IF ok THEN noted ELSE NoteWalkFailure(noted, walk)
       IN  /\ stored = {} => initial
           /\ UseBoth(walk.fault, initial /\ stored # {})
           /\ Confirmed(IF imports THEN WalkImports(walk) ELSE {})
           /\ lane' = [after EXCEPT !.reaches = @ \/ (ok /\ energy = {})]
           /\ run' = [run EXCEPT
                !.energy = energy, !.target = target, !.asked = 0, !.ok = ok,
                !.fetchedFrom = IF imports THEN FetchedFrom(walk) ELSE None,
                !.covers = run.complete /\ ok /\ energy # {} /\ ~ initial]
           /\ late' = late \ UNION {HoursOf(d) : d \in after.fetched \ lane.fetched}
           /\ owed' = {d \in owed : ~ imports \/ d < FetchedFrom(walk)}
           /\ calm' = (calm /\ ok)
  /\ phase' = "walked"
  /\ UNCHANGED <<today, billing, kept>>

End == CoverageEnd(today, Frontier, run.fetchedFrom)
Missing(l) == MissingDays(l, run.energy, run.target, End, Frontier)
Revision(l) == RevisionDays(l, run.energy, run.target, End)

\* The lane forgets dates before its target, and its pass may start.
PlanLane ==
  /\ phase = "walked" /\ run.covers
  /\ LET planned == ForgetBefore(lane, run.target)
     IN  /\ lane' = StartRevision(planned, today)
         /\ owed' = IF Starts(planned, today) THEN {d \in DaysOf(run.energy) : d < End}
                    ELSE owed
  /\ phase' = "covering"
  /\ UNCHANGED <<today, billing, meridian, stored, kept, run, torn, late, calm, spare>>

\* The window the lane asks for next, and whether it is its pass's.
Asks == run.asked < CoverageWindows /\ Missing(lane) \cup Revision(lane) # {}
NextWindow == NewestSpan(lane, IF Missing(lane) # {} THEN Missing(lane) ELSE Revision(lane))
NextKind == IF Missing(lane) # {} THEN "coverage" ELSE "revision"

\* Meridian answers for the next window.
FetchWindow ==
  /\ phase = "covering" /\ Asks
  /\ \E w \in {NextWindow} :
       /\ ~ CoverFails(w)
       /\ run' = [run EXCEPT !.asked = @ + 1, !.window = w, !.kind = NextKind,
                             !.rows = CoverRows(w)]
       /\ lane' = IF CoverStart(w) = AllCame THEN lane
                  ELSE [lane EXCEPT !.refusedThrough = CoverStart(w)]
  /\ phase' = "fetched"
  /\ UNCHANGED <<today, billing, meridian, stored, kept, history, spare>>

CoverWindowFails ==
  /\ phase = "covering" /\ Asks
  /\ \E w \in {NextWindow} :
       /\ IF CoverFails(w) THEN UNCHANGED spare ELSE Use("faults")
       /\ lane' = Fail(lane, WindowDates(w), FALSE)
  /\ run' = [run EXCEPT !.asked = @ + 1]
  /\ phase' = "settling" /\ calm' = FALSE
  /\ UNCHANGED <<today, billing, meridian, stored, kept, torn, late, owed>>

\* Its import is confirmed, and the lane goes on to the next window.
ImportWindow ==
  /\ phase = "fetched"
  /\ Confirmed(Changes)
  /\ run' = [run EXCEPT !.energy = @ \cup Changes, !.rows = {}]
  /\ \E out \in {LeftOut} :
       LET retry == Retries(out, run'.energy)
       IN  /\ lane' = Noted(lane, out, retry)
           /\ late' = late \ UNION {HoursOf(d) : d \in Days \ retry}
           /\ owed' = owed \ (Days \ retry)
  /\ phase' = "covering"
  /\ UNCHANGED <<today, billing, kept, calm, spare>>

\* An import not confirmed in time, or cancelled as its entry is unloaded.
ImportUnsaved ==
  /\ phase = "fetched" /\ Changes # {}
  /\ Use("unsaved")
  /\ Unconfirmed(Changes)
  /\ lane' = Fail(lane, Days, TRUE)
  /\ \E cancelled \in BOOLEAN : run' = [run EXCEPT !.cancelled = cancelled, !.rows = {}]
  /\ phase' = "settling" /\ calm' = FALSE
  /\ UNCHANGED <<today, billing, kept, late, owed>>

\* A rate limit, the end of the time budget or an unload while Meridian is
\* asked stops the coverage; a limit's wait keeps it from starting at all.
CoverStops ==
  /\ phase = "covering"
  /\ Use("stops")
  /\ \E cancelled \in BOOLEAN : run' = [run EXCEPT !.cancelled = cancelled]
  /\ phase' = "settling" /\ calm' = FALSE
  /\ UNCHANGED <<today, billing, meridian, stored, lane, kept, torn, late, owed>>

CoverDone ==
  /\ phase = "covering" /\ ~ Asks
  /\ phase' = "settling"
  /\ UNCHANGED <<today, billing, meridian, stored, lane, kept, run, history, spare>>

\* Mutant: a pass ends with its first update.
SettledEarly(l) ==
  LET left == ForgetBadBefore(l, FirstDay(l, run.energy, run.target))
  IN  [left EXCEPT
         !.revising = FALSE,
         !.reaches = ReachesTarget(left, run.energy, run.target, End, Frontier)]

\* _settle_lane: dates before the history no longer wait, a pass with nothing
\* left to ask for has ended, and the lane reports what it covers.
Settled(l) ==
  LET left == ForgetBadBefore(l, FirstDay(l, run.energy, run.target))
  IN  [left EXCEPT
         !.revising = @ /\ Revision(left) # {},
         !.reaches = ReachesTarget(left, run.energy, run.target, End, Frontier)]

SettleLane ==
  /\ phase = "settling"
  /\ lane' = Settled(lane)
  /\ owed' = {d \in owed : lane'.revising \/ d >= run.target}
  /\ phase' = "settled" /\ calm' = (Bad(lane') = {} /\ late = {})
  /\ UNCHANGED <<today, billing, meridian, stored, kept, run, torn, late, spare>>

\* The dates not confirmed are handed to the owner, however the update ended.
EndUpdate ==
  /\ phase = "settled" \/ (phase = "walked" /\ (~ run.covers \/ spare.stops > 0))
  /\ IF phase = "walked" /\ run.covers THEN Use("stops") ELSE UNCHANGED spare
  /\ kept' = UnsavedRetries(lane)
  /\ run' = [Idle EXCEPT !.complete = run.complete \/ run.ok]
  /\ phase' = IF run.cancelled THEN "gone" ELSE "waiting"
  /\ UNCHANGED <<today, billing, meridian, stored, lane, history>>

\* The entry's next coordinator, after a reload, or with nothing kept after a
\* restart, which also forgets what the steps of those dates may be.
Reload ==
  /\ \/ phase = "waiting" /\ Use("reloads")
     \/ phase = "gone" /\ UNCHANGED spare
  /\ \/ UNCHANGED <<kept, torn>>
     \/ kept' = [d \in Dates |-> None] /\ torn' = {}
  /\ lane' = RestoreUnsaved(NewLane, kept')
  /\ run' = Idle
  /\ phase' = "waiting" /\ owed' = {} /\ calm' = FALSE
  /\ UNCHANGED <<today, billing, meridian, stored, late>>

Aged(retries) == [d \in Dates |-> Memory!Left(retries[d], 1)]
Tried(retries) == [d \in Dates |-> Memory!Left(retries[d], LongestBackoff)]

\* An hour passes; or the rest of a date, as long as the longest wait.
TimePasses ==
  /\ phase = "waiting"
  /\ \/ /\ lane' = [lane EXCEPT !.bad = Aged(@)] /\ kept' = Aged(kept)
        /\ lane' # lane \/ kept' # kept
        /\ UNCHANGED today
     \/ /\ today < LastToday /\ today' = today + 1
        /\ lane' = [lane EXCEPT !.bad = Tried(@)] /\ kept' = Tried(kept)
  /\ UNCHANGED <<billing, meridian, stored, phase, run, history, spare>>

\* A billing period becomes known, or the next one begins.
BillingMoves ==
  /\ phase = "waiting" /\ Use("billing")
  /\ billing' \in BillingStarts \ {billing}
  /\ billing' # None => billing' <= today /\ (billing # None => billing < billing')
  /\ calm' = FALSE
  /\ UNCHANGED <<today, meridian, stored, lane, kept, phase, run, torn, late, owed>>

\* Meridian publishes an hour late, revises one, or returns one no longer.
MeridianChanges ==
  /\ phase = "waiting" /\ Use("changes")
  /\ \E h \in Hours :
       /\ h < Now
       /\ \/ /\ h \notin meridian.has /\ DayOf(h) \notin meridian.refuses
             /\ meridian' = [meridian EXCEPT !.has = @ \cup {h}]
             /\ late' = late \cup {h}
          \/ /\ h \in meridian.has \cap stored
             /\ meridian' = [meridian EXCEPT !.revised = @ \cup {h}]
             /\ UNCHANGED late
          \/ /\ h \in meridian.has \cap stored
             /\ meridian' = [meridian EXCEPT !.has = @ \ {h}, !.revised = @ \ {h}]
             /\ UNCHANGED late
  /\ calm' = FALSE
  /\ UNCHANGED <<today, billing, stored, lane, kept, phase, run, torn, owed>>

Next ==
  \/ Update \/ PlanLane \/ FetchWindow \/ CoverWindowFails
  \/ ImportWindow \/ ImportUnsaved \/ CoverStops \/ CoverDone
  \/ SettleLane \/ EndUpdate \/ Reload \/ TimePasses
  \/ BillingMoves \/ MeridianChanges

Spec == Init /\ [][Next]_vars

\* Updates go on by themselves, hour after hour; dates pass and faults come
\* when they do.
Steps == \/ Update \/ PlanLane \/ FetchWindow \/ ImportWindow
         \/ CoverWindowFails \/ CoverDone \/ SettleLane \/ EndUpdate
         \/ (phase = "gone" /\ Reload)
FairSpec == Spec /\ WF_vars(Steps) /\ SF_vars(TimePasses)

-------------------------------------------------------------------------------
\* The state of the lane and its update, as LaneState and _Unit hold it.
TypeOK ==
  /\ today \in Dates /\ billing \in Dates \cup {None}
  /\ meridian \in MeridianRecord /\ stored \subseteq Hours
  /\ lane \in LaneRecord
  /\ kept \in [Dates -> Memory!Waits \cup {None}]
  /\ phase \in {"waiting", "walked", "covering", "fetched", "settling", "settled", "gone"}
  /\ torn \subseteq Hours /\ late \subseteq Hours /\ owed \subseteq Dates
  /\ calm \in BOOLEAN

\* A date waits exactly while its failures in a row count, and one whose
\* import was not confirmed is among those that wait (took, settle, fail,
\* forget_bad_before and restore_unsaved move all three together).
WaitsAreCounted ==
  /\ Bad(lane) = {d \in Dates : lane.tries[d] > 0}
  /\ lane.unsaved \subseteq Bad(lane)

\* A stored step an import may have left wrong belongs to a date that is
\* replayed in full: the lane remembers it as unsaved or, between two
\* coordinators, the entry does.
TornIsUnsaved ==
  \A h \in torn : \/ DayOf(h) \in lane.unsaved
                  \/ phase = "gone" /\ kept[DayOf(h)] # None
                  \/ DayOf(h) < today - Longest + 1

\* A lane that says it reaches its target has stored every hour Meridian had
\* when the date was last asked for, with every step right.
ReportsTruth ==
  phase = "settled" /\ lane.reaches =>
    \A d \in FirstKnownDay(lane, run.energy, run.target) .. End - 1 :
      /\ HoursOf(d) \cap torn = {}
      /\ \A h \in HoursOf(d) \cap meridian.has :
           h < Frontier => h \in stored \cup late

\* A lane that takes its history to start after its target's first dates was
\* shown so: Meridian had no reading on the dates just before it, as many as
\* start a history, or as confirm a refused date.  One date, its target's own,
\* may be left out on a refusal alone.
StartIsShown ==
  phase = "settled" /\ KnownStart(lane, OldestDay(run.energy)) # None =>
    LET start == KnownStart(lane, OldestDay(run.energy))
    IN  start > run.target + 1 =>
          \A d \in {start - 1, start - 2} : HoursOf(d) \cap meridian.has \subseteq late

\* A refusal taken for the start of the history without confirmation, as that
\* of the oldest date asked for, leaves out that one date at most.
OneDateLeftOut ==
  phase = "settled" /\ lane.refusedThrough # None =>
    Cardinality({d \in run.target .. lane.refusedThrough :
                   HoursOf(d) \cap meridian.has # {}}) <= 1

\* A pass that has ended has asked again for every date stored when it began
\* that its lane still reached back to, but for those that wait.
PassAsksAll ==
  phase = "settled" /\ ~ lane.revising => owed \subseteq Bad(lane)

\* Once a lane reaches its target with nothing waiting it goes on to, while
\* nothing fails and Meridian changes nothing: a revision pass does not change
\* what it reports.
ReportsHold ==
  [][phase = "settling" /\ calm /\ lane.reaches => lane'.reaches]_vars

\* Every lane reaches its target in the end.
Covered == <>[](phase = "settled" => lane.reaches) /\ []<>(phase = "settled")
==============================================================================
