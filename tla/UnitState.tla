------------------------------ MODULE UnitState ------------------------------
(***************************************************************************)
(* units.UnitState: what the coordinator remembers about one unit, a       *)
(* direction of a property, between two syncs: whether it works, what it   *)
(* waits for after a failure, and the reconciliation it owes.              *)
(*                                                                         *)
(* Times are whole hours.  A wait is the hours left of it, or None; the    *)
(* minute by which an update may start early (_EARLY_START) is rounded     *)
(* away.  What the size ladder and a quiet supply leave behind is about    *)
(* the windows of a walk, and left out here.                               *)
(***************************************************************************)
EXTENDS Integers, Sequences, FiniteSets

CONSTANTS
  None,            \* no wait, no mode, no outcome
  LongestBackoff,  \* hours a wait never exceeds
  MostFailures     \* bound: failures in a row counted, past the longest wait

\* The first wait, doubled after each failure, at most five times.
Doubled == <<1, 2, 4, 8, 16, 32>>

Modes == {"tip", "targeted", "restart", "full", "initial"}
Statuses == {"pending", "ok", "failed", "degraded"}

ASSUME UnitAssumption ==
  /\ None \notin Int \cup Modes \cup Statuses
  /\ LongestBackoff \in 1 .. Doubled[6]
  /\ MostFailures \in 1 .. 6
  /\ LongestBackoff <= Doubled[MostFailures]

\* How far back a mode reaches; None, that nothing is owed, not at all.
Span(mode) == CASE mode = "targeted" -> 1
                [] mode \in {"restart", "full"} -> 2
                [] mode = "initial" -> 3
                [] OTHER -> 0

\* Whichever mode reaches further back; the first on a tie.
LargerMode(first, second) ==
  IF second = None \/ Span(first) >= Span(second) THEN first ELSE second

\* Mutant: a restart or an initial import owes itself.
OwesItself(mode) == IF mode = "tip" THEN None ELSE mode

\* The reconciliation a unit owes after a sync in a mode failed.
OwedReconciliation(mode) ==
  CASE mode = "tip" -> None
    [] mode = "targeted" -> mode
    [] OTHER -> "full"

\* Mutant: the first wait is doubled already, and no wait is capped.
BackoffUncapped(failures) == 2 * Doubled[failures]

Backoff(failures) ==
  IF Doubled[failures] < LongestBackoff THEN Doubled[failures] ELSE LongestBackoff

OneMore(failures) == IF failures < MostFailures THEN failures + 1 ELSE failures

Waits == 0 .. LongestBackoff
UnitRecord ==
  [status : Statuses, failures : 0 .. MostFailures, retry : Waits \cup {None},
   whole : BOOLEAN, owed : {"targeted", "full", None},
   hourlyFailures : 0 .. MostFailures, hourlyRetry : Waits \cup {None},
   notReached : Nat]

NewUnit ==
  [status |-> "pending", failures |-> 0, retry |-> None, whole |-> FALSE,
   owed |-> None, hourlyFailures |-> 0, hourlyRetry |-> None, notReached |-> 0]

-------------------------------------------------------------------------------
(***************************************************************************)
(* What a unit's memory says when its sync is planned.                     *)
(***************************************************************************)

\* A wait that has not passed.
Pending(wait) == wait # None /\ wait > 0

HourlyGoesOn(unit) ==
  \/ unit.status = "degraded"
  \/ unit.status = "failed" /\ ~ unit.whole

Deferred(unit) == (unit.whole /\ Pending(unit.retry)) \/ Pending(unit.hourlyRetry)

ReconciliationWaits(unit) == unit.owed # None /\ Pending(unit.retry)

\* Mutant: only a mode that reaches further back covers what is owed.
CoversBeyond(unit, mode) == unit.owed = None \/ Span(mode) > Span(unit.owed)

Covers(unit, mode) == unit.owed = None \/ LargerMode(mode, unit.owed) = mode

Left(wait, hours) == IF wait = None THEN None
                     ELSE IF wait > hours THEN wait - hours ELSE 0

\* The same memory some hours later.
Aged(unit, hours) ==
  [unit EXCEPT !.retry = Left(@, hours), !.hourlyRetry = Left(@, hours)]

-------------------------------------------------------------------------------
(***************************************************************************)
(* What changes it.                                                        *)
(***************************************************************************)
Owe(unit, mode) ==
  LET owed == OwedReconciliation(mode)
  IN [unit EXCEPT !.owed = IF @ = None THEN owed ELSE LargerMode(@, owed)]

HourlyOk(unit) == [unit EXCEPT !.hourlyFailures = 0, !.hourlyRetry = None]

\* Wait longer, whole or for the reconciliation alone, and owe it (_wait).
Wait(unit, mode, whole) ==
  LET failures == OneMore(unit.failures)
  IN [Owe(unit, mode) EXCEPT !.failures = failures, !.retry = Backoff(failures),
                             !.whole = whole]

Succeed(unit) ==
  HourlyOk([unit EXCEPT !.status = "ok", !.failures = 0, !.retry = None,
                        !.whole = FALSE, !.owed = None])

\* Mutant: an hourly update that works again leaves its wait.
RecoverStillWaiting(unit) ==
  [unit EXCEPT !.status = IF @ = "failed" THEN "degraded" ELSE @]

RecoverHourly(unit) ==
  HourlyOk([unit EXCEPT !.status = IF @ = "failed" THEN "degraded" ELSE @])

Fail(unit, mode) == HourlyOk([Wait(unit, mode, TRUE) EXCEPT !.status = "failed"])

FailHourly(unit) ==
  LET failures == OneMore(unit.hourlyFailures)
  IN [unit EXCEPT !.hourlyFailures = failures, !.hourlyRetry = Backoff(failures),
                  !.status = "failed"]

Degrade(unit, mode) == HourlyOk([Wait(unit, mode, FALSE) EXCEPT !.status = "degraded"])

DeferReconciliation(unit, mode) == Wait(unit, mode, FALSE)

\* An import in full: done with what was owed, or only the hourly update of a
\* unit whose reconciliation waits (the coordinator's _note_success).
NoteSuccess(unit, mode) == IF Covers(unit, mode) THEN Succeed(unit) ELSE RecoverHourly(unit)

\* No import, by a unit that waits whole, or for one of its two (_note_failure).
\* Until a first sync has succeeded, no earlier failure counts towards a wait.
NoteFailure(unit, mode, counts) ==
  LET counted == IF counts THEN unit ELSE [unit EXCEPT !.failures = 0, !.hourlyFailures = 0]
  IN IF ~ HourlyGoesOn(counted) THEN Fail(counted, mode)
     ELSE IF mode = "tip" THEN FailHourly(counted)
     ELSE DeferReconciliation(counted, mode)

\* An import of the newer windows alone.
NoteDegraded(unit, mode, counts) ==
  Degrade(IF counts THEN unit ELSE [unit EXCEPT !.failures = 0, !.hourlyFailures = 0], mode)
===============================================================================
