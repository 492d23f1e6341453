--------------------------------- MODULE Walk ---------------------------------
(***************************************************************************)
(* The walk of one direction back through its history: the windows it asks *)
(* for, newest first, and what each answer leads to (coordinator.py,       *)
(* _UnitWalk, _Walk and _async_walk_unit).                                 *)
(*                                                                         *)
(*   - a window that times out is asked for by its days, at once in a      *)
(*     setup import and at the next update otherwise, and what that showed *)
(*     is remembered for a week: the size ladder;                          *)
(*   - each window is checked against the newer ones, in case Meridian     *)
(*     reads their dates otherwise than asked;                             *)
(*   - a refused window, or empty ones, may show where the history starts; *)
(*   - however the walk ends, the windows it kept are imported.            *)
(*                                                                         *)
(* One walk is under way at a time.  Hours still to come are not returned, *)
(* and every import is confirmed.                                          *)
(***************************************************************************)
EXTENDS Windows, Sequences, SequencesExt

CONSTANTS
  None,
  FirstToday,    \* the date the behaviour starts on
  LastToday,     \* bound: the last date of it
  SpanOf,        \* hours each mode reaches back: [Modes -> Nat]
  LongestSpan,   \* hours the frontier moves a walk back, at most
  LadderDays,    \* dates the size ladder is remembered for
  EmptyWindows,  \* windows in a row with no reading that start a history
  WholeShare,    \* a window's share of the progress
  Trials         \* bound: how behaviours begin, and what may befall them

Modes == DOMAIN SpanOf
Dates == 0 .. LastToday
Hours == Midnight(0) .. Midnight(LastToday + 1) - 1

Readings == {"asked", "a day early", "a day late", "no first date", "no last date",
             "no first hour", "no last hour", "no start"}

\* Hours with a reading, dates a request may not start on, whether it refuses
\* them with a GraphQL error, how it reads a window's dates, and the longest
\* window it answers in time, and the longest within its query limits.
MeridianRecord ==
  [has : SUBSET Hours, refuses : SUBSET Dates, coded : BOOLEAN, reads : Readings,
   answers : 1 .. WindowDays, allows : 1 .. WindowDays]

\* Failed and unanswered requests, ends of the time budget, restarts, and
\* dates whose readings are published late.
Faults == {"failures", "timeouts", "budgets", "restarts", "published"}

\* What may stop a walk at a window.
Errors == {"budget", "failure", "timeout", "misread", "refused"}

NowOn(date) == Midnight(date) + HoursPerDay \div 2

\* No walk reaches back before the first of Dates; a share is in equal parts
\* for the dates of any window.
ASSUME WalkAssumption ==
  /\ None \notin Int \cup Errors \cup [first : Int, firstHour : BOOLEAN, inside : BOOLEAN]
  /\ FirstToday \in Nat /\ LastToday \in Nat /\ FirstToday <= LastToday
  /\ {"tip", "initial"} \subseteq Modes
  /\ {SpanOf[mode] : mode \in Modes} \cup {LongestSpan} \subseteq 0 .. NowOn(FirstToday)
  /\ LadderDays \in Nat \ {0} /\ EmptyWindows \in Nat \ {0}
  /\ WholeShare \in Nat \ {0} /\ \A n \in 1 .. WindowDays : WholeShare % n = 0
  /\ \A trial \in Trials :
       /\ trial.meridians \subseteq MeridianRecord
       /\ \A hours \in trial.stored : hours \subseteq Hours
       /\ trial.spare \in [Faults -> Nat] /\ trial.setup \in BOOLEAN

VARIABLES
  today,
  meridian,
  stored,   \* hours with usage in the recorder
  memory,   \* what the unit's state remembers of its walks
  setup,    \* whether the setup import walks, rather than an update
  phase,    \* "idle", "walking" or "ended"
  walk,     \* _UnitWalk and _Walk
  missed,   \* history: long walks in a row a window's size alone ended, today
  spare     \* how much of each bound is left

vars == <<today, meridian, stored, memory, setup, phase, walk, missed, spare>>

Use(fault) == /\ spare[fault] > 0
              /\ spare' = [spare EXCEPT ![fault] = @ - 1]

-------------------------------------------------------------------------------
(***************************************************************************)
(* What the unit remembers (units.UnitState).                              *)
(***************************************************************************)
NewMemory ==
  [probeOn |-> None, probeDays |-> 0, ladderedOn |-> None, ladderedAt |-> None,
   daysOn |-> None, daysAt |-> None, quiet |-> None]

Recent(day, learned, date) ==
  IF day = None \/ date - learned >= LadderDays THEN None ELSE day

DaysKept(date) == Recent(memory.daysOn, memory.daysAt, date)
RecentLadder(date) == Recent(memory.ladderedOn, memory.ladderedAt, date)

KeepDays(day, date) ==
  [memory EXCEPT !.daysOn = IF DaysKept(date) = None THEN day
                            ELSE Larger(DaysKept(date), day),
                 !.daysAt = date]

\* Mutant: the window that timed out, and not the newer one before it.
DeferOlder(w, date) ==
  IF RecentLadder(date) = None
  THEN [memory EXCEPT !.probeOn = w.last, !.probeDays = Cardinality(WindowDates(w))]
  ELSE KeepDays(w.last, date)

\* An update leaves a window that timed out to the next one: its newest day is
\* then the probe, or its days are kept, as those of the one probed before.
Defer(w, date) ==
  IF RecentLadder(date) = None
  THEN [memory EXCEPT !.probeOn = w.last, !.probeDays = Cardinality(WindowDates(w))]
  ELSE KeepDays(Larger(RecentLadder(date), w.last), date)

-------------------------------------------------------------------------------
(***************************************************************************)
(* A walk, and which windows it asks for.                                  *)
(***************************************************************************)
Days(w) == w.last - w.first + 1
Part(w, share) == [window |-> w, share |-> share]

\* Mutant: the oldest date first.
ByDaysOldestFirst(part) ==
  [k \in 1 .. Days(part.window) |->
     Part(Window(part.window.first + k - 1, part.window.first + k - 1),
          part.share \div Days(part.window))]

\* A window's dates, newest first, each with its part of the window's share.
ByDays(part) ==
  [k \in 1 .. Days(part.window) |->
     Part(Window(part.window.last - k + 1, part.window.last - k + 1),
          part.share \div Days(part.window))]

Split(wk, part, probe) ==
  [wk EXCEPT !.queue = ByDays(part) \o @, !.probe = probe]

Frontier(hours) == IF hours = {} THEN None ELSE Greatest(hours)

\* The cutoff of a mode; the frontier moves it back.
ModeSince(mode, date) == NowOn(date) - SpanOf[mode]
Since(mode, date) ==
  IF stored # {} /\ Frontier(stored) < ModeSince(mode, date)
  THEN Larger(NowOn(date) - LongestSpan, Frontier(stored))
  ELSE ModeSince(mode, date)

\* Whether a walk may stop at an empty newest window.
Quiet(mode, date) ==
  /\ mode = "tip"
  /\ stored # {} /\ memory.quiet = Frontier(stored)
  /\ Frontier(stored) < ModeSince(mode, date)

NewWalk(mode, date) ==
  LET since == Since(mode, date)
  IN  [mode |-> mode, today |-> date, since |-> since, quiet |-> Quiet(mode, date),
       queue |-> [k \in DOMAIN PlanWindows(since, date) |->
                    Part(PlanWindows(since, date)[k], WholeShare)],
       stored |-> {h \in stored : h >= since - 1}, statistics |-> stored # {},
       frontier |-> Frontier(stored),
       probe |-> FALSE, probed |-> FALSE, laddered |-> 0, daysOnly |-> FALSE,
       querySplit |-> FALSE, ended |-> FALSE, error |-> None,
       kept |-> <<>>, completed |-> None, rows |-> {}, oldest |-> None, streak |-> 0,
       gap |-> FALSE, start |-> FALSE, startAfter |-> None,
       before |-> {}, newer |-> None, missingLast |-> 0, oneSided |-> 0]

Forgotten == [NewWalk("tip", 0) EXCEPT !.queue = <<>>]

\* Whether the newest window of a walk is a whole one: a shorter one leaves a
\* probe that is owed to the next update.
Long(wk) == OldestAsked(wk.since, wk.today) <= wk.today - WindowDays + 1

Done(wk) == wk.ended \/ wk.error # None \/ wk.queue = <<>>
Complete(wk) == wk.error = None /\ Done(wk)

\* The window an earlier update left to be probed: as long as that one.
Due(w) ==
  /\ ~ walk.probed /\ memory.probeOn # None
  /\ w.first <= memory.probeOn /\ Days(w) >= memory.probeDays

\* The walk with its next window split by days, where it is to be.
Planned ==
  LET part == Head(walk.queue)
      w == part.window
      kept == DaysKept(walk.today) # None /\ w.first <= DaysKept(walk.today)
      rest == [walk EXCEPT !.queue = Tail(@)]
  IN  IF Days(w) > 1 /\ (Due(w) \/ kept \/ walk.daysOnly)
      THEN [Split(rest, part, walk.probe \/ Due(w)) EXCEPT !.probed = @ \/ Due(w)]
      ELSE walk

NextPart == Head(Planned.queue)
Asked == NextPart.window
IsProbe == Planned.probe

\* The walk once that window's request has gone out, and what the unit's state
\* remembers then: a probe an earlier update left is no longer owed.
Sent == [Planned EXCEPT !.queue = Tail(@), !.probe = FALSE]
Unowed(mem) == IF IsProbe /\ Planned.probed THEN [mem EXCEPT !.probeOn = None] ELSE mem

\* A probe that came back shows that the window's size was the lever.
Shown(mem) ==
  IF IsProbe /\ ~ setup
  THEN [mem EXCEPT !.ladderedOn = Asked.last, !.ladderedAt = walk.today] ELSE mem

-------------------------------------------------------------------------------
(***************************************************************************)
(* What Meridian returns for a window (windows.WindowRows).                *)
(***************************************************************************)
Heard(w) ==
  CASE meridian.reads = "asked" -> InWindow(Hours, w)
    [] meridian.reads = "a day early" -> InWindow(Hours, Window(w.first - 1, w.last - 1))
    [] meridian.reads = "a day late" -> InWindow(Hours, Window(w.first + 1, w.last + 1))
    [] meridian.reads = "no first date" -> InWindow(Hours, Window(w.first + 1, w.last))
    [] meridian.reads = "no last date" -> InWindow(Hours, Window(w.first, w.last - 1))
    [] meridian.reads = "no first hour" -> InWindow(Hours, w) \ {Midnight(w.first)}
    [] meridian.reads = "no last hour" -> InWindow(Hours, w) \ {Midnight(w.last + 1) - 1}
    [] meridian.reads = "no start" -> InWindow(Hours, Window(0, w.last))

Received(w) == {h \in Heard(w) \cap meridian.has : h < NowOn(walk.today)}

\* A page with the rows of some windows: those inside, and those before.
Page(windows) ==
  [received |-> UNION {Received(w) : w \in windows},
   inside |-> UNION {InWindow(Received(w), w) : w \in windows},
   before |-> UNION {{h \in Received(w) : DayOf(h) < w.first} : w \in windows}]

\* Past rows after a window's end: it was not read as asked.
RowsAfter(w) == \E h \in Received(w) : DayOf(h) > w.last

Refuses(w) == w.first \in meridian.refuses
ReadingDays == {d \in Dates : InWindow(Received(Window(d, d)), Window(d, d)) # {}}

\* Where a refusal says the history starts, AllCame, or RefusalFails.
Start(w) ==
  StartAfter(w, OldestAsked(walk.since, walk.today), walk.oldest # None,
             meridian.coded /\ ~ walk.statistics, ReadingDays, meridian.refuses)

\* A start leaves no stored hour before it.
Starts(w) ==
  /\ Start(w) \notin {AllCame, RefusalFails}
  /\ \A h \in walk.stored : DayOf(h) > Start(w)

\* The page of a window, by its dates when it was refused.
Answer(w) ==
  Page(IF Refuses(w) THEN {Window(d, d) : d \in KeptDates(w, Start(w))} ELSE {w})

-------------------------------------------------------------------------------
(***************************************************************************)
(* A complete window's checks against the newer ones (_Walk.check).        *)
(***************************************************************************)
FirstHour(w, page) == Midnight(w.first) \in page.inside
LastHour(w, page) == Midnight(w.last + 1) - 1 \in page.inside
NextTo(wk, w) == wk.newer # None /\ wk.newer.first = w.last + 1

\* No reading for its last date, though the newer window has its first hour.
MissesLast(wk, w, page) ==
  /\ page.inside # {} /\ InWindow(page.inside, Window(w.last, w.last)) = {}
  /\ wk.newer.firstHour

\* Of two windows with readings, one without its hour at their boundary.
OneSided(wk, w, page) ==
  /\ page.inside # {} /\ wk.newer.inside
  /\ LastHour(w, page) # wk.newer.firstHour

\* The walk with the window checked: how often in a row each has been met.
Checked(wk, w, page) ==
  LET next == NextTo(wk, w)
  IN  [wk EXCEPT
         !.before = {h \in @ \cup page.before : h < Midnight(w.first)},
         !.newer = [first |-> w.first, firstHour |-> FirstHour(w, page),
                    inside |-> page.inside # {}],
         !.missingLast = IF next /\ MissesLast(wk, w, page) THEN @ + 1 ELSE 0,
         !.oneSided = IF next /\ OneSided(wk, w, page) THEN @ + 1 ELSE 0]

\* Mutant: one date, or edge, more may be missing.
PassesLate(wk, w, page) ==
  /\ InWindow(wk.before, w) \subseteq page.received
  /\ Checked(wk, w, page).missingLast <= 2
  /\ Checked(wk, w, page).oneSided <= 2

Passes(wk, w, page) ==
  /\ InWindow(wk.before, w) \subseteq page.received
  /\ Checked(wk, w, page).missingLast <= 1
  /\ Checked(wk, w, page).oneSided <= 1

-------------------------------------------------------------------------------
(***************************************************************************)
(* A complete window joins its walk (_take_window, _Walk.add).             *)
(***************************************************************************)
\* Mutant: readings do not interrupt a row of empty windows.
AddedOn(wk, page) ==
  [wk EXCEPT !.rows = @ \cup {h \in page.inside : h >= wk.since},
             !.oldest = IF @ = None THEN Least(page.inside)
                        ELSE Smaller(@, Least(page.inside))]

Added(wk, page) ==
  [wk EXCEPT !.rows = @ \cup {h \in page.inside : h >= wk.since},
             !.oldest = IF @ = None THEN Least(page.inside)
                        ELSE Smaller(@, Least(page.inside)),
             !.streak = 0]

\* Stored hours older than an empty window show that the history goes on.
Older(wk, w) == {h \in wk.stored : h < Midnight(w.first)}

\* Mutant: one window more.
EmptierLate(wk, share) ==
  LET starts == wk.streak + share > EmptyWindows * WholeShare
  IN  [wk EXCEPT !.streak = @ + share, !.start = starts, !.ended = starts]

Emptier(wk, share) ==
  LET starts == wk.streak + share >= EmptyWindows * WholeShare
  IN  [wk EXCEPT !.streak = @ + share, !.start = starts, !.ended = starts]

\* Mutant: empty windows start the history whatever is stored before them.
TakenEmptyAnyway(wk, w, share) ==
  IF InWindow(wk.stored, w) # {} THEN [wk EXCEPT !.gap = TRUE, !.ended = TRUE]
  ELSE IF wk.oldest = None THEN [wk EXCEPT !.ended = wk.quiet]
  ELSE Emptier(wk, share)

\* An empty window ends the walk at stored hours Meridian returns no longer, or
\* at once for a quiet direction; it counts after a reading alone, and while
\* nothing is stored before it.
TakenEmpty(wk, w, share) ==
  IF InWindow(wk.stored, w) # {} THEN [wk EXCEPT !.gap = TRUE, !.ended = TRUE]
  ELSE IF wk.oldest = None THEN [wk EXCEPT !.ended = wk.quiet]
  ELSE IF Older(wk, w) # {} THEN wk ELSE Emptier(wk, share)

Taken(wk, w, share, page) ==
  LET kept == [Checked(wk, w, page) EXCEPT !.kept = Append(@, w)]
      took == IF page.inside # {} THEN Added(kept, page) ELSE TakenEmpty(kept, w, share)
  IN  [took EXCEPT !.completed = w.first]

\* A refused window shows the start of the history: the rows of its newer dates
\* join the walk, which ends.
TakenStart(wk, w, page) ==
  LET added == IF page.inside # {} THEN Added(wk, page) ELSE wk
  IN  [added EXCEPT !.start = TRUE, !.startAfter = Start(w), !.completed = w.first,
                    !.ended = TRUE]

-------------------------------------------------------------------------------
Init ==
  /\ today = FirstToday
  /\ \E trial \in Trials :
       /\ meridian \in trial.meridians
       /\ stored \in trial.stored /\ stored \subseteq meridian.has
       /\ spare = trial.spare /\ setup = trial.setup
  /\ memory = NewMemory
  /\ phase = "idle" /\ walk = Forgotten /\ missed = 0

\* A walk starts, from what the unit remembers and what is stored.
Begin ==
  /\ phase \in {"idle", "ended"}
  /\ \E mode \in IF setup \/ stored = {} THEN {"initial"} ELSE Modes :
       walk' = NewWalk(mode, today)
  /\ phase' = "walking"
  /\ UNCHANGED <<today, meridian, stored, memory, setup, missed, spare>>

Asks == phase = "walking" /\ ~ Done(walk)

\* The walk stops at its next window, which another failure than its size did.
FailsWith(wk, error) ==
  /\ walk' = [wk EXCEPT !.error = error] /\ missed' = 0

\* The time budget ends before the next request.
BudgetEnds ==
  /\ Asks /\ Use("budgets")
  /\ FailsWith([Planned EXCEPT !.queue = Tail(@), !.probe = FALSE], "budget")
  /\ UNCHANGED <<today, meridian, stored, memory, setup, phase>>

\* Meridian fails, or a request is not answered in time: one for a day shows
\* that the size is not what fails.
RequestFails ==
  /\ Asks
  /\ \/ Use("failures")
     \/ Days(Asked) = 1 /\ Use("timeouts")
  /\ FailsWith(Sent, "failure") /\ memory' = Unowed(memory)
  /\ UNCHANGED <<today, meridian, stored, setup, phase>>

\* A window of several dates is not answered in time.
TimesOut ==
  /\ Asks /\ Days(Asked) > 1 /\ ~ Refuses(Asked)
  /\ IF Days(Asked) > meridian.answers THEN UNCHANGED spare ELSE Use("timeouts")
  /\ IF setup
     THEN /\ walk' = [Split(Sent, NextPart, TRUE) EXCEPT
                        !.laddered = Smaller(@ + 1, 2), !.daysOnly = @ \/ Sent.laddered > 0]
          /\ UNCHANGED <<memory, missed>>
     ELSE /\ walk' = [Sent EXCEPT !.error = "timeout"]
          /\ memory' = Defer(Asked, walk.today)
          /\ missed' = IF spare' # spare \/ walk.today # today THEN 0
                    ELSE IF Long(walk) THEN missed + 1 ELSE missed
  /\ UNCHANGED <<today, meridian, stored, setup, phase>>

\* A query over Meridian's limits splits the walk into days once.
OverLimits ==
  /\ Asks /\ Days(Asked) > meridian.allows /\ ~ Sent.querySplit
  /\ walk' = [Split(Sent, NextPart, FALSE) EXCEPT !.querySplit = TRUE, !.daysOnly = TRUE]
  /\ UNCHANGED <<today, meridian, stored, memory, setup, phase, missed, spare>>

Answered ==
  /\ Asks
  /\ Days(Asked) <= Smaller(meridian.answers, meridian.allows)

\* A window comes back: whole, or by its dates after it was refused.
TakeWindow ==
  /\ Answered
  /\ Refuses(Asked) => Start(Asked) = AllCame
  /\ \E page \in {Answer(Asked)} :
       IF RowsAfter(Asked)
       THEN FailsWith(Sent, "misread") /\ memory' = Unowed(memory)
       ELSE /\ memory' = Shown(Unowed(memory))
            /\ IF Passes(Sent, Asked, page)
               THEN walk' = Taken(Sent, Asked, NextPart.share, page) /\ UNCHANGED missed
               ELSE FailsWith(Checked(Sent, Asked, page), "misread")
  /\ UNCHANGED <<today, meridian, stored, setup, phase, spare>>

\* A refused window fails, or shows where the history starts.
RefuseWindow ==
  /\ Answered
  /\ Refuses(Asked) /\ Start(Asked) # AllCame
  /\ IF Starts(Asked)
     THEN /\ walk' = TakenStart(Sent, Asked, Answer(Asked)) /\ UNCHANGED missed
          /\ memory' = Shown(Unowed(memory))
     ELSE FailsWith(Sent, "refused") /\ memory' = Unowed(memory)
  /\ UNCHANGED <<today, meridian, stored, setup, phase, spare>>

\* What the walk kept is imported, and whether it found anything newer than
\* the newest hour stored when it started is remembered (_note_quiet).
FoundNew ==
  IF walk.frontier # None THEN \E h \in walk.rows : h > walk.frontier
  ELSE \E h \in walk.rows : DayOf(h) >= PlannedWindow(DayOf(walk.since), walk.today, 1).first

Imports == Complete(walk) \/ walk.completed # None

Finish ==
  /\ phase = "walking" /\ Done(walk)
  /\ stored' = stored \cup (IF Imports THEN Importable(walk.rows, walk.stored) ELSE {})
  /\ memory' = [memory EXCEPT
       !.quiet = IF stored' = {} \/ FoundNew THEN None
                 ELSE IF Complete(walk) THEN Frontier(stored') ELSE @]
  /\ phase' = "ended"
  /\ missed' = IF Complete(walk) /\ Long(walk) THEN 0 ELSE missed
  /\ UNCHANGED <<today, meridian, setup, walk, spare>>

\* A restart, or another attempt at setup, forgets the walk and the memory.
Restart ==
  /\ Use("restarts")
  /\ memory' = NewMemory /\ walk' = Forgotten /\ phase' = "idle" /\ missed' = 0
  /\ UNCHANGED <<today, meridian, stored, setup>>

\* The entry's first update takes over what setup's walks remember.
SetUp ==
  /\ phase = "ended" /\ setup
  /\ setup' = FALSE
  /\ UNCHANGED <<today, meridian, stored, memory, phase, walk, missed, spare>>

\* A date passes, in the middle of a walk too.
DatePasses ==
  /\ today < LastToday /\ today' = today + 1 /\ missed' = 0
  /\ UNCHANGED <<meridian, stored, memory, setup, phase, walk, spare>>

\* Meridian publishes a date's readings late.
Publish ==
  /\ phase # "walking" /\ Use("published")
  /\ \E d \in Dates : /\ d <= today /\ d \notin meridian.refuses
                      /\ ~ HoursOf(d) \subseteq meridian.has
                      /\ meridian' = [meridian EXCEPT !.has = @ \cup HoursOf(d)]
  /\ phase' = "idle"
  /\ UNCHANGED <<today, stored, memory, setup, walk, missed>>

Next ==
  \/ Begin \/ BudgetEnds \/ RequestFails \/ TimesOut \/ OverLimits
  \/ TakeWindow \/ RefuseWindow \/ Finish \/ Restart \/ SetUp \/ DatePasses \/ Publish

Spec == Init /\ [][Next]_vars

-------------------------------------------------------------------------------
\* The state of a walk, as _UnitWalk, _Walk and UnitState hold it.
TypeOK ==
  /\ today \in Dates /\ meridian \in MeridianRecord /\ stored \subseteq Hours
  /\ memory.probeOn \in Dates \cup {None} /\ memory.probeDays \in 0 .. WindowDays
  /\ {memory.ladderedOn, memory.ladderedAt, memory.daysOn, memory.daysAt}
       \subseteq Dates \cup {None}
  /\ memory.quiet \in Hours \cup {None}
  /\ phase \in {"idle", "walking", "ended"}
  /\ walk.error \in Errors \cup {None}
  /\ walk.streak \in 0 .. (EmptyWindows + 1) * WholeShare - 1
  /\ \A k \in DOMAIN walk.queue : walk.queue[k].share \in 1 .. WholeShare
  /\ walk.rows \subseteq Hours /\ walk.before \subseteq Hours

InOrder(wk) == wk.kept \o [k \in DOMAIN wk.queue |-> wk.queue[k].window]

\* The windows kept and those still to ask for cover each date from today back
\* to the cutoff's once, newest first, however they were split; those kept
\* before a failure are one block back from today.
EachDateOnce ==
  LET windows == IF walk.error = None /\ walk.startAfter = None THEN InOrder(walk)
                 ELSE walk.kept
  IN  /\ \A k \in DOMAIN windows :
           windows[k].last = IF k = 1 THEN walk.today ELSE windows[k - 1].first - 1
      /\ walk.error = None /\ walk.startAfter = None /\ windows # <<>> =>
           Last(windows).first = OldestAsked(walk.since, walk.today)

\* Three windows in a row with readings show that Meridian reads windows
\* otherwise than asked: a walk that ended with none failed has every hour
\* that a meter with no gaps has in them.
MisreadingIsFound ==
  phase = "ended" /\ Complete(walk) /\ meridian.has = Hours =>
    \A k \in 3 .. Len(walk.kept) :
      (\A j \in k - 2 .. k : InWindow(walk.rows, walk.kept[j]) # {}) =>
        {h \in Hours : /\ walk.since <= h /\ h < NowOn(walk.today)
                       /\ \E j \in k - 2 .. k : DayOf(h) \in WindowDates(walk.kept[j])}
          \subseteq walk.rows

\* A history starts where a refusal shows it, or after more than a window's
\* dates in a row with no reading; never with an hour stored before it.
StartIsShown ==
  walk.start =>
    /\ \A h \in walk.stored : h >= Midnight(walk.completed)
    /\ walk.startAfter # None => \A h \in walk.stored : DayOf(h) > walk.startAfter
    /\ walk.startAfter = None => DayOf(walk.oldest) - walk.completed > WindowDays

\* A walk that ended with none failed has left no hour newer than the newest
\* one stored when it started, within what a walk may reach back to, unless
\* the direction is quiet and its newest window empty.
NewerIsStored ==
  /\ phase = "ended" /\ Complete(walk) /\ meridian.reads = "asked"
  /\ walk.stored # {} /\ ~ (walk.quiet /\ walk.oldest = None)
  => \A h \in meridian.has :
       walk.frontier < h /\ h < NowOn(walk.today) => h \in stored

\* On one date, the size of a window ends two long walks at most before one gets
\* past it, unless something else fails between.
LadderClimbs == missed <= 2

\* Meridian reads windows as asked, and refuses only dates before the supply,
\* which pauses on none of its dates within a window's of one refused.
Honest ==
  /\ meridian.reads = "asked"
  /\ \A d \in meridian.refuses : \A h \in meridian.has :
       /\ d < DayOf(h)
       /\ \A e \in DayOf(h) .. d + WindowDays - 1 : HoursOf(e) \cap meridian.has # {}

Block == INSTANCE FetchedBlock WITH
  DatesAsked <- Dates, today <- walk.today, honest <- Honest,
  dates <- IF walk.completed = None THEN {} ELSE walk.completed .. walk.today,
  rows <- walk.rows,
  offered <- {h \in meridian.has : walk.since <= h /\ h < NowOn(walk.today)}

\* Whatever a walk asks for, and however it stops, it has fetched one block of
\* dates back from today, with what Meridian has for them.
FetchesOneBlock == Block!Spec
===============================================================================
