------------------------------- MODULE Windows -------------------------------
(***************************************************************************)
(* windows.py and the helpers of the coordinator about dates and hours:    *)
(* which windows a walk asks for, which of the rows that came back may be  *)
(* imported, which of their costs may be written, and which dates such a   *)
(* replay wrote again.  No state: the modules of walks, lanes and imports  *)
(* are built from these operators.                                         *)
(*                                                                         *)
(* An hour is an integer, and so is a date: date d holds the HoursPerDay   *)
(* hours from Midnight(d) on.  A window is a record of its first and last  *)
(* date.  Times within an hour are rounded up to the next one, as          *)
(* ceil_hour rounds a cutoff before a row is compared with it.             *)
(***************************************************************************)
EXTENDS Integers, FiniteSets

CONSTANTS
  HoursPerDay,  \* 24, or less on small instances
  WindowDays,   \* dates a window holds at most (WINDOW_DAYS)
  AllCame,      \* a refused window whose every date came back alone
  RefusalFails  \* a refused window that fails as any other failure does

ASSUME WindowsAssumption ==
  /\ HoursPerDay \in Nat \ {0} /\ WindowDays \in Nat \ {0}
  /\ AllCame # RefusalFails /\ {AllCame, RefusalFails} \cap Int = {}

Least(S) == CHOOSE s \in S : \A t \in S : s <= t
Greatest(S) == CHOOSE s \in S : \A t \in S : t <= s
Smaller(a, b) == IF a <= b THEN a ELSE b
Larger(a, b) == IF a >= b THEN a ELSE b

-------------------------------------------------------------------------------
(***************************************************************************)
(* Dates and windows.                                                      *)
(***************************************************************************)
Midnight(date) == date * HoursPerDay
DayOf(hour) == hour \div HoursPerDay
HoursOf(date) == Midnight(date) .. Midnight(date + 1) - 1
DaysOf(hours) == {DayOf(h) : h \in hours}

Window(first, last) == [first |-> first, last |-> last]
WindowDates(w) == w.first .. w.last
InWindow(hours, w) == {h \in hours : DayOf(h) \in WindowDates(w)}

\* The k-th window, newest first, of those that cover the dates first .. today.
PlannedWindow(first, today, k) ==
  Window(Larger(first, today - k * WindowDays + 1), today - (k - 1) * WindowDays)

\* A cutoff after today asks for today alone.
OldestAsked(since, today) == Smaller(DayOf(since), today)

\* Mutant: an older window ends on the date the newer one starts.
PlanOverlapping(since, today) ==
  LET first == OldestAsked(since, today)
  IN  [k \in 1 .. (today - first) \div WindowDays + 1 |->
         Window(Larger(first, today - k * WindowDays), today - (k - 1) * WindowDays)]

\* The windows that cover a cutoff to today, newest first.
PlanWindows(since, today) ==
  LET first == OldestAsked(since, today)
  IN  [k \in 1 .. (today - first) \div WindowDays + 1 |-> PlannedWindow(first, today, k)]

-------------------------------------------------------------------------------
(***************************************************************************)
(* What of the rows that came back is imported (importable, cost_plan).    *)
(* Rows are given by their hours: fetched those with usage, costed those   *)
(* of them whose every channel came back with its cost.                    *)
(***************************************************************************)

\* Stored hours within the span of the rows that did not come back.
Holes(fetched, stored) ==
  {h \in stored \ fetched : Least(fetched) <= h /\ h <= Greatest(fetched)}

AfterHoles(fetched, stored) ==
  {h \in fetched : \A hole \in Holes(fetched, stored) : hole < h}

\* Stored hours newer than every row left: nothing is imported.
TailNotReturned(fetched, stored) ==
  /\ fetched # {} /\ stored # {}
  /\ Greatest(stored) > Greatest(AfterHoles(fetched, stored))

Importable(fetched, stored) ==
  IF fetched = {} \/ stored = {} THEN fetched
  ELSE IF TailNotReturned(fetched, stored) THEN {}
  ELSE AfterHoles(fetched, stored)

\* The dates of some rows that the rules above left out.
LeftOutDates(fetched, stored, dates) ==
  IF fetched = {} \/ stored = {} THEN {}
  ELSE IF TailNotReturned(fetched, stored) THEN dates
  ELSE {d \in dates : \E hole \in Holes(fetched, stored) : d <= DayOf(hole)}

\* The hours whose cost comes after every stored one that did not come back.
CostsAfter(fetched, costed, storedCost) ==
  {h \in costed : \A gone \in (fetched \ costed) \cap storedCost : gone < h}

\* Stored costs newer than every cost left: no cost is written.
CostSkipped(fetched, costed, storedCost) ==
  LET left == CostsAfter(fetched, costed, storedCost)
  IN  left # {} /\ storedCost # {} /\ Greatest(storedCost) > Greatest(left)

\* The hours whose cost is written.
WrittenCosts(fetched, costed, storedCost) ==
  IF CostSkipped(fetched, costed, storedCost) THEN {}
  ELSE CostsAfter(fetched, costed, storedCost)

\* Whether a replay that writes from the least to the greatest of span writes
\* all of hours again.
Within(hours, span) ==
  \/ hours = {}
  \/ /\ span # {}
     /\ Least(span) <= Least(hours) /\ Greatest(hours) <= Greatest(span)

\* The dates whose stored hours a replay of these rows wrote again.
ReplayedDates(dates, written, storedEnergy, writtenCost, storedCost) ==
  {d \in dates : /\ Within(storedEnergy \cap HoursOf(d), written)
                 /\ Within(storedCost \cap HoursOf(d), writtenCost)}

-------------------------------------------------------------------------------
(***************************************************************************)
(* A window Meridian refused, as it may refuse dates before the supply     *)
(* started: its dates are asked for alone (_async_fetch_refused_days), and *)
(* a date refused alone is confirmed by the one before it                  *)
(* (_async_confirm_refused_day).  readings are the dates that return       *)
(* readings, refusing those refused when asked for alone, newer says that  *)
(* newer readings came back before, and precedes that a refusal before any *)
(* may be of a supply that has not started.                                *)
(***************************************************************************)
\* Mutant: a single refused date is taken at its word.
ConfirmsAnyway(day, oldest, readings, refusing) == TRUE

\* A refused date is the start unless readings before it show history goes on.
Confirms(day, oldest, readings, refusing) ==
  day - 1 < oldest \/ day - 1 \in refusing \/ day - 1 \notin readings

\* The newest date before the history, AllCame, or RefusalFails.
StartAfter(w, oldest, newer, precedes, readings, refusing) ==
  LET refused == WindowDates(w) \cap refusing
      alone == w.first = w.last
      day == IF alone THEN w.last ELSE Greatest(refused)
  IN  CASE ~ newer /\ (alone \/ w.last \in refusing) ->
             IF precedes THEN w.last ELSE RefusalFails
        [] newer /\ ~ alone /\ (w.last \in refusing \/ w.last \notin readings) -> w.last
        [] ~ alone /\ refused = {} /\ (~ newer \/ w.last \in readings) -> AllCame
        [] OTHER -> IF Confirms(day, oldest, readings, refusing) THEN day
                    ELSE RefusalFails

\* The dates of a refused window whose rows were kept.
KeptDates(w, start) ==
  CASE start = AllCame -> WindowDates(w)
    [] start = RefusalFails -> {}
    [] OTHER -> {d \in WindowDates(w) : start < d}
===============================================================================
