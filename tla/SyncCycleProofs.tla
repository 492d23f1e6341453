--------------------------- MODULE SyncCycleProofs ---------------------------
(***************************************************************************)
(* Proofs about SyncCycle, for any number of units and properties, any     *)
(* intervals and waits, and any number of failures, late units, rate       *)
(* limits, rejected sessions, topology errors and reloads: a unit's status *)
(* tells what it waits for, no reconciliation that the cadence counts as   *)
(* done is lost, and no unit is passed over more often than there are      *)
(* others to go before it.                                                 *)
(***************************************************************************)
EXTENDS SyncCycle, FiniteSetTheorems, TLAPS

-------------------------------------------------------------------------------
(***************************************************************************)
(* The inductive invariant.                                                *)
(***************************************************************************)

\* What the cadence has counted is owed, or was covered: once a sync has
\* succeeded, after setup's import, and for each unit an attempt is done with.
NothingLost(u) ==
  complete \/ bySetup \/ outcome[u] # None => Span(behind[u]) <= Span(units[u].owed)

\* A unit runs what an update asks of it, or owes it and runs its hourly update.
Asks(u) ==
  /\ complete \/ bySetup \/ Span(asked[u]) >= 2
  /\ \/ Span(unitMode[u]) >= Span(asked[u])
     \/ /\ unitMode[u] = "tip"
        /\ Span(OwedReconciliation(asked[u])) <= Span(units[u].owed)

\* A unit that is done ran it, or owes it.
Answers(u) ==
  outcome[u] # None =>
    \/ outcome[u] = "ok" /\ Span(unitMode[u]) >= Span(asked[u])
    \/ Span(OwedReconciliation(asked[u])) <= Span(units[u].owed)

\* A unit at work covers what it owes, or runs only its hourly update.
Works(u) ==
  walk[u] \notin {"none", "done"} =>
    \/ Covers(units[u], unitMode[u])
    \/ HourlyGoesOn(units[u]) /\ unitMode[u] = "tip"

UnitInv(u) ==
  /\ TellsWaits(units[u])
  /\ NothingLost(u)
  /\ phase = "syncing" => Asks(u) /\ Answers(u) /\ Works(u)
  /\ phase # "syncing" => outcome[u] = None

\* The kinds of the values, and that a running update has its modes.
TypeInv ==
  /\ TypeOK
  /\ phase = "syncing" => /\ mode \in Modes
                          /\ \A u \in Units : asked[u] \in Modes /\ unitMode[u] \in Modes

IInv == TypeInv /\ \A u \in Units : UnitInv(u)
-------------------------------------------------------------------------------
(***************************************************************************)
(* How far back the modes reach.                                           *)
(***************************************************************************)

\* None is no mode, no number and no name.
LEMMA NoneIsNothing ==
  None \notin Modes /\ None \notin Statuses /\ None \notin Int
BY UnitAssumption

\* A mode reaches as far as its span says, and what it owes never further.
LEMMA Spans ==
  /\ Span(None) = 0 /\ Span("tip") = 0 /\ Span("targeted") = 1
  /\ Span("restart") = 2 /\ Span("full") = 2 /\ Span("initial") = 3
  /\ \A m \in Modes :
       /\ Span(m) \in 0 .. 3
       /\ OwedReconciliation(m) \in {"targeted", "full", None}
       /\ Span(OwedReconciliation(m)) = IF Span(m) >= 2 THEN 2 ELSE Span(m)
<1>1. None \notin Modes
  BY NoneIsNothing
<1> QED
  BY <1>1 DEF Span, Modes, OwedReconciliation

\* The further-reaching of a mode and what is owed reaches as far as both.
LEMMA LargerReaches ==
  ASSUME NEW m \in Modes, NEW owed \in {"targeted", "full", None}
  PROVE  /\ LargerMode(m, owed) \in Modes
         /\ Span(LargerMode(m, owed)) >= Span(m)
         /\ Span(LargerMode(m, owed)) >= Span(owed)
         /\ LargerMode(LargerMode(m, owed), owed) = LargerMode(m, owed)
         /\ Span(owed) \in 0 .. 2
         /\ LargerMode(m, owed) = m => owed = None \/ Span(m) >= Span(owed)
<1>1. None \notin Modes
  BY NoneIsNothing
<1> QED
  BY <1>1, Spans DEF LargerMode, Modes

\* The further-reaching of two debts reaches as far as both.
LEMMA LargerDebt ==
  ASSUME NEW one \in {"targeted", "full", None}, NEW other \in {"targeted", "full", None}
  PROVE  LET larger == IF one = None THEN other ELSE LargerMode(one, other)
         IN /\ larger \in {"targeted", "full", None}
            /\ Span(larger) = IF Span(one) >= Span(other) THEN Span(one) ELSE Span(other)
<1>1. None # "targeted" /\ None # "full"
  BY NoneIsNothing DEF Modes
<1> QED
  BY <1>1, Spans DEF LargerMode

-------------------------------------------------------------------------------
(***************************************************************************)
(* What each change of a unit's memory keeps.                              *)
(***************************************************************************)

\* A wait is never longer than the longest, nor one failure too many to count.
LEMMA WaitBounds ==
  /\ LongestBackoff \in Nat /\ MostFailures \in 1 .. 6
  /\ \A f \in 1 .. MostFailures : Backoff(f) \in Waits
  /\ \A f \in 0 .. MostFailures : OneMore(f) \in 1 .. MostFailures
<1>1. \A f \in 1 .. 6 : Doubled[f] \in 1 .. 32
  BY DEF Doubled
<1>2. LongestBackoff \in Nat /\ MostFailures \in 1 .. 6
  BY <1>1, UnitAssumption
<1>3. \A f \in 1 .. MostFailures : Backoff(f) \in Waits
  BY <1>1, <1>2 DEF Backoff, Waits
<1>4. \A f \in 0 .. MostFailures : OneMore(f) \in 1 .. MostFailures
  BY <1>2 DEF OneMore
<1> QED
  BY <1>2, <1>3, <1>4

\* Owing a mode changes what is owed alone, and never forgets any of it.
LEMMA OweKeeps ==
  ASSUME NEW unit \in UnitRecord, NEW m \in Modes
  PROVE  /\ Owe(unit, m) \in UnitRecord
         /\ Owe(unit, m) = [unit EXCEPT !.owed = Owe(unit, m).owed]
         /\ Span(Owe(unit, m).owed) >= Span(unit.owed)
         /\ Span(Owe(unit, m).owed) >= Span(OwedReconciliation(m))
         /\ Span(unit.owed) \in 0 .. 2
<1>1. OwedReconciliation(m) \in {"targeted", "full", None} /\ unit.owed \in {"targeted", "full", None}
  BY Spans DEF UnitRecord
<1> DEFINE larger == IF unit.owed = None THEN OwedReconciliation(m)
                     ELSE LargerMode(unit.owed, OwedReconciliation(m))
<1>2. /\ larger \in {"targeted", "full", None}
      /\ Span(larger) = IF Span(unit.owed) >= Span(OwedReconciliation(m))
                        THEN Span(unit.owed) ELSE Span(OwedReconciliation(m))
  BY <1>1, LargerDebt
<1>3. Owe(unit, m) = [unit EXCEPT !.owed = larger]
  BY DEF Owe
<1>4. Owe(unit, m).owed = larger
  BY <1>3 DEF UnitRecord
<1>5. Span(unit.owed) \in 0 .. 2 /\ Span(OwedReconciliation(m)) \in 0 .. 2
  BY <1>1, Spans
<1> HIDE DEF larger
<1>6. Owe(unit, m) \in UnitRecord
  BY <1>2, <1>3 DEF UnitRecord
<1> QED
  BY <1>2, <1>3, <1>4, <1>5, <1>6

\* Owing a mode changes nothing of what a unit waits for.
LEMMA OweTells ==
  ASSUME NEW unit \in UnitRecord, NEW m \in Modes, TellsWaits(unit)
  PROVE  /\ TellsWaits(Owe(unit, m))
         /\ HourlyGoesOn(Owe(unit, m)) <=> HourlyGoesOn(unit)
<1>1. Owe(unit, m) \in UnitRecord /\ Owe(unit, m) = [unit EXCEPT !.owed = Owe(unit, m).owed]
  BY OweKeeps
<1> QED
  BY <1>1 DEF TellsWaits, HourlyGoesOn, UnitRecord

\* Waiting longer owes the mode, and leaves the hourly update's own wait.
LEMMA WaitKeeps ==
  ASSUME NEW unit \in UnitRecord, NEW m \in Modes, NEW whole \in BOOLEAN
  PROVE  LET waiting == Wait(unit, m, whole)
         IN /\ waiting \in UnitRecord
            /\ waiting.status = unit.status /\ waiting.whole = whole
            /\ waiting.retry # None /\ waiting.hourlyRetry = unit.hourlyRetry
            /\ Span(waiting.owed) >= Span(unit.owed)
            /\ Span(waiting.owed) >= Span(OwedReconciliation(m))
<1> DEFINE failures == OneMore(unit.failures)
           owing == Owe(unit, m)
<1>1. failures \in 1 .. MostFailures /\ Backoff(failures) \in Waits /\ Backoff(failures) # None
  BY WaitBounds, NoneIsNothing DEF UnitRecord, Waits
<1>2. /\ owing \in UnitRecord
      /\ owing = [unit EXCEPT !.owed = owing.owed]
      /\ Span(owing.owed) >= Span(unit.owed)
      /\ Span(owing.owed) >= Span(OwedReconciliation(m))
  BY OweKeeps
<1>3. Wait(unit, m, whole) = [owing EXCEPT !.failures = failures,
                                           !.retry = Backoff(failures), !.whole = whole]
  BY DEF Wait
<1>4. owing.status = unit.status /\ owing.hourlyRetry = unit.hourlyRetry
  BY <1>2 DEF UnitRecord
<1> HIDE DEF failures, owing
<1>5. failures \in 0 .. MostFailures
  BY <1>1, WaitBounds
<1> QED
  BY <1>1, <1>2, <1>3, <1>4, <1>5 DEF UnitRecord

\* Done with everything: it waits for nothing, and owes nothing.
LEMMA SucceedKeeps ==
  ASSUME NEW unit \in UnitRecord
  PROVE  /\ Succeed(unit) \in UnitRecord /\ TellsWaits(Succeed(unit))
         /\ Succeed(unit).owed = None
<1>1. 0 \in 0 .. MostFailures
  BY WaitBounds
<1> QED
  BY <1>1 DEF Succeed, HourlyOk, UnitRecord, Statuses, TellsWaits

\* An import in full by a unit that covers what it owes, or whose hourly
\* update goes on.
LEMMA NoteSuccessKeeps ==
  ASSUME NEW unit \in UnitRecord, NEW m \in Modes, TellsWaits(unit),
         Covers(unit, m) \/ HourlyGoesOn(unit)
  PROVE  /\ NoteSuccess(unit, m) \in UnitRecord /\ TellsWaits(NoteSuccess(unit, m))
         /\ NoteSuccess(unit, m).owed = IF Covers(unit, m) THEN None ELSE unit.owed
<1>1. CASE Covers(unit, m)
  BY <1>1, SucceedKeeps DEF NoteSuccess
<1>2. CASE ~ Covers(unit, m)
  <2> DEFINE hourly == RecoverHourly(unit)
             status == IF unit.status = "failed" THEN "degraded" ELSE unit.status
  <2>1. HourlyGoesOn(unit) /\ NoteSuccess(unit, m) = hourly
    BY <1>2 DEF NoteSuccess
  <2>2. status = "degraded" /\ unit.retry # None /\ ~ unit.whole
    BY <2>1 DEF HourlyGoesOn, TellsWaits
  <2>3. hourly = [unit EXCEPT !.status = "degraded", !.hourlyFailures = 0, !.hourlyRetry = None]
    BY <2>2 DEF RecoverHourly, HourlyOk, UnitRecord
  <2>4. 0 \in 0 .. MostFailures
    BY WaitBounds
  <2> HIDE DEF hourly
  <2>5. hourly \in UnitRecord /\ TellsWaits(hourly) /\ hourly.owed = unit.owed
    BY <2>2, <2>3, <2>4 DEF UnitRecord, Statuses, TellsWaits
  <2> QED
    BY <1>2, <2>1, <2>5
<1> QED
  BY <1>1, <1>2

\* The earlier failures a note does not count change nothing it waits for.
LEMMA CountedKeeps ==
  ASSUME NEW unit \in UnitRecord, TellsWaits(unit), NEW counts \in BOOLEAN
  PROVE  LET counted == IF counts THEN unit
                        ELSE [unit EXCEPT !.failures = 0, !.hourlyFailures = 0]
         IN /\ counted \in UnitRecord /\ TellsWaits(counted)
            /\ counted.owed = unit.owed
            /\ HourlyGoesOn(counted) <=> HourlyGoesOn(unit)
<1>1. 0 \in 0 .. MostFailures
  BY WaitBounds
<1> QED
  BY <1>1 DEF UnitRecord, TellsWaits, HourlyGoesOn

\* What a note of a failure, or of the newer windows alone, keeps and owes.
Notes(noted, unit, m) ==
  /\ noted \in UnitRecord /\ TellsWaits(noted)
  /\ Span(noted.owed) >= Span(unit.owed)
  /\ Span(noted.owed) >= Span(OwedReconciliation(m))

\* A failure of the whole sync.
LEMMA FailKeeps ==
  ASSUME NEW unit \in UnitRecord, NEW m \in Modes, TellsWaits(unit)
  PROVE  Notes(Fail(unit, m), unit, m)
<1> DEFINE waiting == Wait(unit, m, TRUE)
<1>1. /\ waiting \in UnitRecord /\ waiting.whole = TRUE /\ waiting.retry # None
      /\ Span(waiting.owed) >= Span(unit.owed)
      /\ Span(waiting.owed) >= Span(OwedReconciliation(m))
  BY WaitKeeps
<1>2. Fail(unit, m) = HourlyOk([waiting EXCEPT !.status = "failed"])
  BY DEF Fail
<1>3. 0 \in 0 .. MostFailures
  BY WaitBounds
<1> DEFINE noted == HourlyOk([waiting EXCEPT !.status = "failed"])
<1> HIDE DEF waiting
<1>4. noted \in UnitRecord
  BY <1>1, <1>3 DEF HourlyOk, UnitRecord, Statuses
<1>5. /\ noted.status = "failed" /\ noted.retry = waiting.retry
      /\ noted.whole = waiting.whole /\ noted.hourlyRetry = None
      /\ noted.owed = waiting.owed
  BY <1>1 DEF HourlyOk, UnitRecord
<1> HIDE DEF noted
<1>6. TellsWaits(noted)
  BY <1>1, <1>5 DEF TellsWaits
<1> QED
  BY <1>1, <1>2, <1>4, <1>5, <1>6 DEF Notes, noted

\* An import of the newer windows alone.
LEMMA DegradeKeeps ==
  ASSUME NEW unit \in UnitRecord, NEW m \in Modes, TellsWaits(unit)
  PROVE  Notes(Degrade(unit, m), unit, m)
<1> DEFINE waiting == Wait(unit, m, FALSE)
<1>1. /\ waiting \in UnitRecord /\ waiting.whole = FALSE /\ waiting.retry # None
      /\ Span(waiting.owed) >= Span(unit.owed)
      /\ Span(waiting.owed) >= Span(OwedReconciliation(m))
  BY WaitKeeps
<1>2. Degrade(unit, m) = HourlyOk([waiting EXCEPT !.status = "degraded"])
  BY DEF Degrade
<1>3. 0 \in 0 .. MostFailures
  BY WaitBounds
<1> DEFINE noted == HourlyOk([waiting EXCEPT !.status = "degraded"])
<1> HIDE DEF waiting
<1>4. noted \in UnitRecord
  BY <1>1, <1>3 DEF HourlyOk, UnitRecord, Statuses
<1>5. /\ noted.status = "degraded" /\ noted.retry = waiting.retry
      /\ noted.whole = waiting.whole /\ noted.hourlyRetry = None
      /\ noted.owed = waiting.owed
  BY <1>1 DEF HourlyOk, UnitRecord
<1> HIDE DEF noted
<1>6. TellsWaits(noted)
  BY <1>1, <1>5 DEF TellsWaits
<1> QED
  BY <1>1, <1>2, <1>4, <1>5, <1>6 DEF Notes, noted

\* A failure of the hourly update of a unit whose reconciliation waits.
LEMMA FailHourlyKeeps ==
  ASSUME NEW unit \in UnitRecord, TellsWaits(unit), HourlyGoesOn(unit)
  PROVE  Notes(FailHourly(unit), unit, "tip")
<1> DEFINE failures == OneMore(unit.hourlyFailures)
<1>1. failures \in 1 .. MostFailures /\ Backoff(failures) \in Waits /\ Backoff(failures) # None
  BY WaitBounds, NoneIsNothing DEF UnitRecord, Waits
<1>2. failures \in 0 .. MostFailures
  BY <1>1, WaitBounds
<1>3. FailHourly(unit) = [unit EXCEPT !.hourlyFailures = failures,
                                      !.hourlyRetry = Backoff(failures), !.status = "failed"]
  BY DEF FailHourly
<1>4. unit.retry # None /\ unit.whole = FALSE
  BY DEF HourlyGoesOn, TellsWaits, UnitRecord
<1>5. Span(OwedReconciliation("tip")) = 0 /\ Span(unit.owed) \in 0 .. 2
  BY Spans DEF Modes, UnitRecord
<1> DEFINE noted == [unit EXCEPT !.hourlyFailures = failures,
                                 !.hourlyRetry = Backoff(failures), !.status = "failed"]
<1> HIDE DEF failures
<1>6. noted \in UnitRecord
  BY <1>1, <1>2 DEF UnitRecord, Statuses
<1>7. /\ noted.status = "failed" /\ noted.retry # None /\ noted.whole = FALSE
      /\ noted.hourlyRetry # None /\ noted.owed = unit.owed
  BY <1>1, <1>4 DEF UnitRecord
<1> HIDE DEF noted
<1>8. TellsWaits(noted)
  BY <1>7 DEF TellsWaits
<1> QED
  BY <1>3, <1>5, <1>6, <1>7, <1>8 DEF Notes, noted

\* A reconciliation that fails while the hourly update goes on.
LEMMA DeferKeeps ==
  ASSUME NEW unit \in UnitRecord, NEW m \in Modes, TellsWaits(unit), HourlyGoesOn(unit)
  PROVE  Notes(DeferReconciliation(unit, m), unit, m)
<1> DEFINE waiting == Wait(unit, m, FALSE)
<1>1. /\ waiting \in UnitRecord /\ waiting.whole = FALSE /\ waiting.retry # None
      /\ waiting.status = unit.status /\ waiting.hourlyRetry = unit.hourlyRetry
      /\ Span(waiting.owed) >= Span(unit.owed)
      /\ Span(waiting.owed) >= Span(OwedReconciliation(m))
  BY WaitKeeps
<1>2. TellsWaits(waiting)
  BY <1>1 DEF HourlyGoesOn, TellsWaits
<1> QED
  BY <1>1, <1>2 DEF DeferReconciliation, Notes

\* No import.
LEMMA NoteFailureKeeps ==
  ASSUME NEW unit \in UnitRecord, NEW m \in Modes, TellsWaits(unit), NEW counts \in BOOLEAN
  PROVE  Notes(NoteFailure(unit, m, counts), unit, m)
<1> DEFINE counted == IF counts THEN unit
                      ELSE [unit EXCEPT !.failures = 0, !.hourlyFailures = 0]
<1>1. counted \in UnitRecord /\ TellsWaits(counted) /\ counted.owed = unit.owed
  BY CountedKeeps
<1>2. NoteFailure(unit, m, counts) =
        IF ~ HourlyGoesOn(counted) THEN Fail(counted, m)
        ELSE IF m = "tip" THEN FailHourly(counted) ELSE DeferReconciliation(counted, m)
  BY DEF NoteFailure
<1> HIDE DEF counted
<1>3. Notes(NoteFailure(unit, m, counts), counted, m)
  BY <1>1, <1>2, FailKeeps, FailHourlyKeeps, DeferKeeps
<1> QED
  BY <1>1, <1>3 DEF Notes

\* An import of the newer windows alone, counting or not.
LEMMA NoteDegradedKeeps ==
  ASSUME NEW unit \in UnitRecord, NEW m \in Modes, TellsWaits(unit), NEW counts \in BOOLEAN
  PROVE  Notes(NoteDegraded(unit, m, counts), unit, m)
<1> DEFINE counted == IF counts THEN unit
                      ELSE [unit EXCEPT !.failures = 0, !.hourlyFailures = 0]
<1>1. counted \in UnitRecord /\ TellsWaits(counted) /\ counted.owed = unit.owed
  BY CountedKeeps
<1>2. NoteDegraded(unit, m, counts) = Degrade(counted, m)
  BY DEF NoteDegraded
<1> HIDE DEF counted
<1> QED
  BY <1>1, <1>2, DegradeKeeps DEF Notes

\* Hours that pass change no status, and no debt.
LEMMA AgedKeeps ==
  ASSUME NEW unit \in UnitRecord, NEW hours \in Nat, TellsWaits(unit)
  PROVE  /\ Aged(unit, hours) \in UnitRecord /\ TellsWaits(Aged(unit, hours))
         /\ Aged(unit, hours).owed = unit.owed
<1>1. \A wait \in Waits \cup {None} :
        Left(wait, hours) \in Waits \cup {None} /\ (Left(wait, hours) = None <=> wait = None)
  BY WaitBounds, NoneIsNothing DEF Left, Waits
<1> QED
  BY <1>1 DEF Aged, UnitRecord, TellsWaits

\* Reaching a unit changes nothing but how often it was not reached.
LEMMA ReachedKeeps ==
  ASSUME NEW u \in Units, units[u] \in UnitRecord, TellsWaits(units[u])
  PROVE  /\ Reached(u) \in UnitRecord /\ TellsWaits(Reached(u))
         /\ Reached(u).owed = units[u].owed
         /\ HourlyGoesOn(Reached(u)) <=> HourlyGoesOn(units[u])
         /\ \A m : Covers(Reached(u), m) <=> Covers(units[u], m)
BY DEF Reached, UnitRecord, TellsWaits, HourlyGoesOn, Covers

\* A new unit waits for nothing.
LEMMA NewUnitKeeps ==
  /\ NewUnit \in UnitRecord /\ TellsWaits(NewUnit) /\ NewUnit.owed = None
<1>1. 0 \in 0 .. MostFailures
  BY WaitBounds
<1> QED
  BY <1>1 DEF NewUnit, UnitRecord, Statuses, TellsWaits

-------------------------------------------------------------------------------
(***************************************************************************)
(* What a plan makes of each unit.                                         *)
(***************************************************************************)

\* Every mode is one of the five; a coordinator that starts afresh asks for a
\* restart or an initial import until a first sync has succeeded.
LEMMA ModesAsked ==
  ASSUME NEW u \in Units, NEW requested \in Modes
  PROVE  /\ SyncMode \in Modes /\ DirectionMode(u, requested) \in Modes
         /\ complete \/ bySetup \/ Span(DirectionMode(u, requested)) >= 2
<1>1. CadenceMode \in Modes
  BY DEF CadenceMode, Modes
<1>2. SyncMode \in Modes
  BY <1>1 DEF SyncMode, StartupMode, Modes
<1>3. DirectionMode(u, requested) \in Modes
  BY <1>1 DEF DirectionMode, Modes
<1>4. ASSUME ~ complete, ~ bySetup
      PROVE  Span(DirectionMode(u, requested)) >= 2
  BY <1>4, Spans DEF DirectionMode, SearchedBySetup
<1> QED
  BY <1>2, <1>3, <1>4

\* A unit a plan passes over owes what was asked of it; one it runs covers its
\* debt, or runs its hourly update while its reconciliation waits.
LEMMA PlannedKeeps ==
  ASSUME NEW u \in Units, NEW requested \in Modes,
         units[u] \in UnitRecord, TellsWaits(units[u])
  PROVE  LET unit == PlannedUnit(u, requested)
             asking == DirectionMode(u, requested)
             running == PlannedMode(u, requested)
         IN /\ unit \in UnitRecord /\ TellsWaits(unit)
            /\ Span(unit.owed) >= Span(units[u].owed)
            /\ running \in Modes
            /\ \/ Span(running) >= Span(asking)
               \/ running = "tip" /\ Span(OwedReconciliation(asking)) <= Span(unit.owed)
            /\ WaitsWhole(u) => Span(OwedReconciliation(asking)) <= Span(unit.owed)
            /\ WaitsWhole(u) \/ Covers(unit, running) \/ (HourlyGoesOn(unit) /\ running = "tip")
<1> DEFINE asking == DirectionMode(u, requested)
           running == PlannedMode(u, requested)
           inPart == IF WaitsInPart(u) THEN Owe(units[u], asking) ELSE units[u]
           unit == PlannedUnit(u, requested)
<1>1. asking \in Modes
  BY ModesAsked
<1>2. units[u].owed \in {"targeted", "full", None} /\ Span(units[u].owed) \in 0 .. 2
  BY Spans DEF UnitRecord
<1>3. running = IF WaitsInPart(u) THEN "tip" ELSE LargerMode(asking, units[u].owed)
  BY DEF PlannedMode
<1>4. unit = IF WaitsWhole(u) THEN Owe(inPart, running) ELSE inPart
  BY DEF PlannedUnit
<1> SUFFICES /\ unit \in UnitRecord /\ TellsWaits(unit)
             /\ Span(unit.owed) >= Span(units[u].owed)
             /\ running \in Modes
             /\ \/ Span(running) >= Span(asking)
                \/ running = "tip" /\ Span(OwedReconciliation(asking)) <= Span(unit.owed)
             /\ WaitsWhole(u) => Span(OwedReconciliation(asking)) <= Span(unit.owed)
             /\ WaitsWhole(u) \/ Covers(unit, running) \/ (HourlyGoesOn(unit) /\ running = "tip")
  OBVIOUS
<1> HIDE DEF asking, running, unit
<1>5. running \in Modes
  BY <1>1, <1>2, <1>3, LargerReaches DEF Modes
<1>6. inPart \in UnitRecord /\ TellsWaits(inPart) /\ Span(inPart.owed) >= Span(units[u].owed)
  BY <1>1, <1>2, OweKeeps, OweTells
<1>7. WaitsInPart(u) => Span(OwedReconciliation(asking)) <= Span(inPart.owed)
  BY <1>1, OweKeeps
<1>8. ~ WaitsInPart(u) => /\ Span(running) >= Span(asking)
                          /\ Covers(inPart, running)
  BY <1>1, <1>2, <1>3, LargerReaches DEF Covers
<1>9. Span(OwedReconciliation(asking)) \in 0 .. 2 /\ Span(inPart.owed) \in 0 .. 2
      /\ Span(asking) \in 0 .. 3 /\ Span(running) \in 0 .. 3
  BY <1>1, <1>5, <1>6, Spans DEF UnitRecord
<1>10. CASE WaitsWhole(u)
  <2>1. /\ unit \in UnitRecord /\ TellsWaits(unit)
        /\ Span(unit.owed) >= Span(inPart.owed)
        /\ Span(unit.owed) >= Span(OwedReconciliation(running))
        /\ Span(unit.owed) \in 0 .. 2
    <3> HIDE DEF inPart
    <3>1. unit = Owe(inPart, running)
      BY <1>4, <1>10
    <3>2. unit \in UnitRecord /\ TellsWaits(unit)
      BY <3>1, <1>5, <1>6, OweKeeps, OweTells
    <3>3. Span(unit.owed) \in 0 .. 2
      BY <3>2, Spans DEF UnitRecord
    <3> QED
      BY <3>1, <3>2, <3>3, <1>5, <1>6, OweKeeps
  <2> HIDE DEF inPart
  <2>2. ~ WaitsInPart(u) => Span(OwedReconciliation(asking)) <= Span(OwedReconciliation(running))
    BY <1>1, <1>5, <1>8, <1>9, Spans
  <2>3. Span(OwedReconciliation(running)) \in 0 .. 2
    BY <1>5, Spans
  <2>4. Span(OwedReconciliation(asking)) <= Span(unit.owed)
    BY <2>1, <2>2, <2>3, <1>7, <1>9
  <2>5. Span(unit.owed) >= Span(units[u].owed)
    BY <2>1, <1>2, <1>6, <1>9
  <2>6. \/ Span(running) >= Span(asking)
        \/ running = "tip" /\ Span(OwedReconciliation(asking)) <= Span(unit.owed)
    BY <1>3, <1>8, <2>4
  <2> QED
    BY <1>5, <1>10, <2>1, <2>4, <2>5, <2>6
<1>11. CASE ~ WaitsWhole(u)
  <2>1. unit = inPart
    BY <1>4, <1>11
  <2>2. ASSUME WaitsInPart(u)
        PROVE  running = "tip" /\ HourlyGoesOn(inPart)
    <3>1. running = "tip"
      BY <1>3, <2>2
    <3>2. complete /\ ReconciliationWaits(units[u]) /\ ~ Deferred(units[u])
      BY <1>11, <2>2 DEF WaitsWhole, WaitsInPart
    <3>3. units[u].retry # None /\ ~ units[u].whole
      BY <3>2 DEF ReconciliationWaits, Deferred, Pending
    <3>4. HourlyGoesOn(units[u])
      BY <3>3 DEF TellsWaits, HourlyGoesOn, UnitRecord, Statuses
    <3> QED
      BY <1>1, <3>1, <3>4, OweTells
  <2> HIDE DEF inPart
  <2>3. \/ Span(running) >= Span(asking)
        \/ running = "tip" /\ Span(OwedReconciliation(asking)) <= Span(unit.owed)
    BY <1>7, <1>8, <2>1, <2>2
  <2>4. Covers(unit, running) \/ (HourlyGoesOn(unit) /\ running = "tip")
    BY <1>8, <2>1, <2>2
  <2> QED
    BY <1>5, <1>6, <1>11, <2>1, <2>3, <2>4
<1> QED
  BY <1>10, <1>11

-------------------------------------------------------------------------------
(***************************************************************************)
(* The parts of the type invariant, each kept by what changes it.          *)
(***************************************************************************)
HistoryTypes ==
  /\ costed \subseteq known /\ known \subseteq Units /\ stale \subseteq known
  /\ attempted \subseteq Units /\ pending \subseteq Units

CadenceTypes ==
  /\ bySetup \in BOOLEAN /\ complete \in BOOLEAN
  /\ sinceTargeted \in 0 .. TargetedInterval \cup {None}
  /\ sinceFull \in 0 .. FullInterval \cup {None}

TimingTypes ==
  /\ phase \in {"waiting", "ready", "syncing", "rejected"}
  /\ due \in Nat /\ firstFailures \in 0 .. 2 /\ rateLimits \in 0 .. 5

RunTypes ==
  /\ mode \in Modes \cup {None}
  /\ asked \in [Units -> Modes \cup {None}]
  /\ unitMode \in [Units -> Modes \cup {None}]
  /\ walk \in [Units -> Walks] /\ outcome \in [Units -> Outcomes]
  /\ cooling \subseteq {PropertyOf[u] : u \in Units}
  /\ sent \in BOOLEAN /\ fresh \in BOOLEAN
  /\ phase = "syncing" => /\ mode \in Modes
                          /\ \A u \in Units : asked[u] \in Modes /\ unitMode[u] \in Modes

UnitTypes ==
  /\ units \in [Units -> UnitRecord]
  /\ behind \in [Units -> {"targeted", "full", None}]

UsedTypes ==
  /\ used \in [DOMAIN Bounds -> Nat]
  /\ \A bound \in DOMAIN Bounds : used[bound] <= Bounds[bound]

\* The type invariant is these parts, before a step and after it.
LEMMA TypeParts ==
  /\ TypeInv <=> /\ HistoryTypes /\ CadenceTypes /\ TimingTypes
                 /\ RunTypes /\ UnitTypes /\ UsedTypes
  /\ TypeInv' <=> /\ HistoryTypes' /\ CadenceTypes' /\ TimingTypes'
                  /\ RunTypes' /\ UnitTypes' /\ UsedTypes'
<1>1. TypeInv <=> /\ HistoryTypes /\ CadenceTypes /\ TimingTypes
                  /\ RunTypes /\ UnitTypes /\ UsedTypes
  BY Zenon DEF TypeInv, TypeOK, HistoryTypes, CadenceTypes, TimingTypes, RunTypes,
               UnitTypes, UsedTypes
<1>2. TypeInv' <=> /\ HistoryTypes' /\ CadenceTypes' /\ TimingTypes'
                   /\ RunTypes' /\ UnitTypes' /\ UsedTypes'
  BY Zenon DEF TypeInv, TypeOK, HistoryTypes, CadenceTypes, TimingTypes, RunTypes,
               UnitTypes, UsedTypes
<1> QED
  BY <1>1, <1>2

\* A bound is used up step by step, and never beyond.
LEMMA UseKeeps ==
  ASSUME UsedTypes, NEW bound \in {"faults", "late", "aborts", "replans", "reloads"},
         UNCHANGED used \/ Use(bound)
  PROVE  UsedTypes'
<1>1. DOMAIN Bounds = {"faults", "late", "aborts", "replans", "reloads"}
  BY DEF Bounds
<1>2. \A b \in DOMAIN Bounds : Bounds[b] \in Nat
  BY SyncAssumption DEF Bounds
<1>3. Bounds' = Bounds
  BY DEF Bounds
<1> QED
  BY <1>1, <1>2, <1>3 DEF UsedTypes, Use

\* The waits a rate limit makes are whole hours, and counted to five.
LEMMA LimitKeeps ==
  ASSUME TimingTypes
  PROVE  /\ \A wait \in RateLimitWaits : RateLimitWait(wait) \in Nat
         /\ OneMoreLimit => rateLimits' \in 0 .. 5
<1>1. rateLimits \in 0 .. 5
  BY DEF TimingTypes
<1>2. \A wait \in RateLimitWaits : wait * Doubled[rateLimits + 1] \in Nat
  <2>1. Doubled[rateLimits + 1] \in Nat
    BY <1>1 DEF Doubled
  <2> QED
    BY <2>1, SyncAssumption
<1>3. \A wait \in RateLimitWaits : RateLimitWait(wait) \in Nat
  BY <1>2, SyncAssumption DEF RateLimitWait
<1>4. OneMoreLimit => rateLimits' \in 0 .. 5
  BY <1>1 DEF OneMoreLimit
<1> QED
  BY <1>3, <1>4

\* Between updates there is no run.
LEMMA NoRunTypes ==
  ASSUME NoRun, phase' # "syncing"
  PROVE  RunTypes' /\ \A u \in Units : outcome'[u] = None
BY DEF NoRun, RunTypes, Walks, Outcomes

-------------------------------------------------------------------------------
(***************************************************************************)
(* The steps of an update.                                                 *)
(***************************************************************************)

\* What every step but the ends may rely on of a unit.
LEMMA UnitFacts ==
  ASSUME IInv, NEW u \in Units
  PROVE  /\ units[u] \in UnitRecord /\ TellsWaits(units[u])
         /\ Span(units[u].owed) \in 0 .. 2 /\ Span(behind[u]) \in 0 .. 2
         /\ behind[u] \in {"targeted", "full", None}
         /\ units[u].owed \in {"targeted", "full", None}
         /\ NothingLost(u)
         /\ phase = "syncing" => /\ Asks(u) /\ Answers(u) /\ Works(u)
                                 /\ asked[u] \in Modes /\ unitMode[u] \in Modes
         /\ phase # "syncing" => outcome[u] = None
<1>1. UnitTypes /\ RunTypes /\ UnitInv(u)
  BY TypeParts DEF IInv
<1>2. /\ units[u] \in UnitRecord /\ behind[u] \in {"targeted", "full", None}
      /\ units[u].owed \in {"targeted", "full", None}
  BY <1>1 DEF UnitTypes, UnitRecord
<1>3. Span(units[u].owed) \in 0 .. 2 /\ Span(behind[u]) \in 0 .. 2
  BY <1>2, Spans
<1> QED
  BY <1>1, <1>2, <1>3 DEF RunTypes, UnitInv

\* A plan: nothing owed is forgotten, and each unit passed over owes its part.
LEMMA PlanKeeps ==
  ASSUME IInv, NEW requested \in Modes, Plan(requested), phase' = "syncing",
         UNCHANGED <<cadence, behind>>
  PROVE  /\ units' \in [Units -> UnitRecord]
         /\ asked' \in [Units -> Modes] /\ unitMode' \in [Units -> Modes]
         /\ walk' \in [Units -> Walks] /\ outcome' \in [Units -> Outcomes]
         /\ \A u \in Units : UnitInv(u)'
<1>1. \A u \in Units : /\ DirectionMode(u, requested) \in Modes
                       /\ complete \/ bySetup \/ Span(DirectionMode(u, requested)) >= 2
  BY ModesAsked
<1>2. ASSUME NEW u \in Units
      PROVE  LET unit == PlannedUnit(u, requested)
                 asking == DirectionMode(u, requested)
                 running == PlannedMode(u, requested)
             IN /\ unit \in UnitRecord /\ TellsWaits(unit)
                /\ Span(unit.owed) >= Span(units[u].owed)
                /\ running \in Modes
                /\ \/ Span(running) >= Span(asking)
                   \/ running = "tip" /\ Span(OwedReconciliation(asking)) <= Span(unit.owed)
                /\ WaitsWhole(u) => Span(OwedReconciliation(asking)) <= Span(unit.owed)
                /\ WaitsWhole(u) \/ Covers(unit, running) \/ (HourlyGoesOn(unit) /\ running = "tip")
  BY UnitFacts, PlannedKeeps
<1>3. /\ units' = [u \in Units |-> PlannedUnit(u, requested)]
      /\ asked' = [u \in Units |-> DirectionMode(u, requested)]
      /\ unitMode' = [u \in Units |-> PlannedMode(u, requested)]
      /\ walk' = [u \in Units |-> IF WaitsWhole(u) THEN "none" ELSE "planned"]
      /\ outcome' = [u \in Units |-> IF WaitsWhole(u) THEN "deferred" ELSE None]
  BY DEF Plan
<1>4. /\ units' \in [Units -> UnitRecord]
      /\ asked' \in [Units -> Modes] /\ unitMode' \in [Units -> Modes]
      /\ walk' \in [Units -> Walks] /\ outcome' \in [Units -> Outcomes]
  BY <1>1, <1>2, <1>3 DEF Walks, Outcomes
<1>5. ASSUME NEW u \in Units
      PROVE  UnitInv(u)'
  <2>1. /\ units'[u] = PlannedUnit(u, requested) /\ units'[u] \in UnitRecord
        /\ asked'[u] = DirectionMode(u, requested)
        /\ unitMode'[u] = PlannedMode(u, requested)
        /\ walk'[u] = IF WaitsWhole(u) THEN "none" ELSE "planned"
        /\ outcome'[u] = IF WaitsWhole(u) THEN "deferred" ELSE None
    BY <1>3, <1>4
  <2>2. /\ TellsWaits(units'[u])
        /\ Span(units'[u].owed) >= Span(units[u].owed)
        /\ \/ Span(unitMode'[u]) >= Span(asked'[u])
           \/ unitMode'[u] = "tip" /\ Span(OwedReconciliation(asked'[u])) <= Span(units'[u].owed)
        /\ WaitsWhole(u) => Span(OwedReconciliation(asked'[u])) <= Span(units'[u].owed)
        /\ WaitsWhole(u) \/ Covers(units'[u], unitMode'[u])
             \/ (HourlyGoesOn(units'[u]) /\ unitMode'[u] = "tip")
    BY <1>2, <2>1
  <2>3. complete' = complete /\ bySetup' = bySetup /\ behind' = behind
    BY DEF cadence
  <2>4. TellsWaits(units[u])'
    BY <2>2
  <2>5. NothingLost(u)'
    <3>1. outcome'[u] # None => WaitsWhole(u)
      BY <2>1
    <3>2. complete \/ bySetup => Span(behind[u]) <= Span(units[u].owed)
      BY UnitFacts DEF NothingLost
    <3>3. WaitsWhole(u) => complete
      BY DEF WaitsWhole
    <3>4. Span(units'[u].owed) \in 0 .. 2 /\ Span(units[u].owed) \in 0 .. 2
          /\ Span(behind[u]) \in 0 .. 2
      BY <2>1, UnitFacts, Spans DEF UnitRecord
    <3> QED
      BY <2>2, <2>3, <3>1, <3>2, <3>3, <3>4 DEF NothingLost
  <2>6. Asks(u)'
    BY <1>1, <2>1, <2>2, <2>3 DEF Asks
  <2>7. Answers(u)'
    BY <2>1, <2>2 DEF Answers
  <2>8. Works(u)'
    BY <2>1, <2>2 DEF Works
  <2> QED
    BY <2>4, <2>5, <2>6, <2>7, <2>8 DEF UnitInv
<1> QED
  BY <1>4, <1>5

\* An update starts with a plan.
LEMMA StartKeeps ==
  ASSUME IInv, StartSync
  PROVE  IInv'
<1>1. TypeInv
  BY DEF IInv
<1>2. HistoryTypes /\ CadenceTypes /\ TimingTypes /\ RunTypes /\ UnitTypes /\ UsedTypes
  BY <1>1, TypeParts
<1>3. SyncMode \in Modes
  BY ModesAsked, SyncAssumption DEF Modes
<1>4. /\ units' \in [Units -> UnitRecord]
      /\ asked' \in [Units -> Modes] /\ unitMode' \in [Units -> Modes]
      /\ walk' \in [Units -> Walks] /\ outcome' \in [Units -> Outcomes]
      /\ \A u \in Units : UnitInv(u)'
  BY <1>3, PlanKeeps DEF StartSync
<1>5. HistoryTypes' /\ CadenceTypes' /\ TimingTypes' /\ UsedTypes'
  BY <1>2, UseKeeps DEF StartSync, history, cadence, HistoryTypes, CadenceTypes, TimingTypes
<1>6. RunTypes'
  BY <1>2, <1>3, <1>4 DEF StartSync, RunTypes
<1>7. UnitTypes'
  BY <1>2, <1>4 DEF StartSync, UnitTypes
<1> QED
  BY <1>4, <1>5, <1>6, <1>7, TypeParts DEF IInv

\* A topology error plans again what the update has left, and what it has done.
LEMMA ReplanKeeps ==
  ASSUME IInv, Replan
  PROVE  IInv'
<1>1. HistoryTypes /\ CadenceTypes /\ TimingTypes /\ RunTypes /\ UnitTypes /\ UsedTypes
  BY TypeParts DEF IInv
<1>2. mode \in Modes /\ phase' = "syncing"
  BY <1>1 DEF Replan, RunTypes
<1>3. /\ units' \in [Units -> UnitRecord]
      /\ asked' \in [Units -> Modes] /\ unitMode' \in [Units -> Modes]
      /\ walk' \in [Units -> Walks] /\ outcome' \in [Units -> Outcomes]
      /\ \A u \in Units : UnitInv(u)'
  BY <1>2, PlanKeeps DEF Replan
<1>4. UsedTypes'
  BY <1>1, UseKeeps DEF Replan
<1>5. HistoryTypes' /\ CadenceTypes' /\ TimingTypes'
  BY <1>1 DEF Replan, history, cadence, HistoryTypes, CadenceTypes, TimingTypes
<1>6. RunTypes'
  BY <1>1, <1>2, <1>3 DEF Replan, RunTypes
<1>7. UnitTypes'
  BY <1>1, <1>3 DEF Replan, UnitTypes
<1> QED
  BY <1>3, <1>4, <1>5, <1>6, <1>7, TypeParts DEF IInv

\* What is not a unit's own step leaves what holds of it.
LEMMA UnitSame ==
  ASSUME NEW u \in Units, UnitInv(u), phase' = phase, complete' = complete, bySetup' = bySetup,
         units'[u] = units[u], behind'[u] = behind[u], asked'[u] = asked[u],
         unitMode'[u] = unitMode[u], outcome'[u] = outcome[u],
         walk'[u] \notin {"none", "done"} => walk[u] \notin {"none", "done"}
  PROVE  UnitInv(u)'
<1>1. TellsWaits(units[u])' /\ NothingLost(u)'
  BY DEF UnitInv, NothingLost
<1>2. phase = "syncing" => Asks(u)' /\ Answers(u)' /\ Works(u)'
  BY DEF UnitInv, Asks, Answers, Works
<1> QED
  BY <1>1, <1>2 DEF UnitInv

\* A unit's newest window, whether it came back, failed, or was too late.
LEMMA NewestKeeps ==
  ASSUME IInv, NEW u \in Units, Newly(u)
  PROVE  IInv'
<1>1. HistoryTypes /\ CadenceTypes /\ TimingTypes /\ RunTypes /\ UnitTypes /\ UsedTypes
  BY TypeParts DEF IInv
<1>2. /\ Newest(u) /\ UsedTypes'
      /\ walk[u] = "planned"
      /\ \E far \in {"begun", "failed", "late"} : walk' = [walk EXCEPT ![u] = far]
      /\ sent' \in BOOLEAN /\ cooling' \subseteq {PropertyOf[v] : v \in Units}
  <2>1. CASE ReachNewest(u)
    BY <1>1, <2>1, UseKeeps DEF ReachNewest, Newest, Ready, RunTypes
  <2>2. CASE NewestFails(u)
    BY <1>1, <2>2, UseKeeps DEF NewestFails, Newest, Ready, RunTypes
  <2>3. CASE NewestTooLate(u)
    BY <1>1, <2>3, UseKeeps DEF NewestTooLate, Newest, Ready, RunTypes
  <2> QED
    BY <2>1, <2>2, <2>3 DEF Newly
<1>3. HistoryTypes' /\ CadenceTypes' /\ TimingTypes' /\ UnitTypes'
  BY <1>1, <1>2 DEF Newest, history, cadence, HistoryTypes, CadenceTypes, TimingTypes, UnitTypes
<1>4. walk' \in [Units -> Walks]
  BY <1>1, <1>2 DEF RunTypes, Walks
<1>5. RunTypes'
  BY <1>1, <1>2, <1>4 DEF Newest, RunTypes
<1>6. ASSUME NEW v \in Units
      PROVE  UnitInv(v)'
  <2>1. walk'[v] \notin {"none", "done"} => walk[v] \notin {"none", "done"}
    BY <1>1, <1>2 DEF RunTypes
  <2>2. /\ UnitInv(v)
        /\ UNCHANGED <<phase, cadence, units, behind, asked, unitMode, outcome>>
    BY <1>2 DEF IInv, Newest
  <2> QED
    BY <2>1, <2>2, UnitSame DEF cadence
<1> QED
  BY <1>2, <1>3, <1>5, <1>6, TypeParts DEF IInv

\* A cooldown that passes.
LEMMA CooldownKeeps ==
  ASSUME IInv, CooldownPasses
  PROVE  IInv'
<1>1. HistoryTypes /\ CadenceTypes /\ TimingTypes /\ RunTypes /\ UnitTypes /\ UsedTypes
  BY TypeParts DEF IInv
<1>2. HistoryTypes' /\ CadenceTypes' /\ TimingTypes' /\ UnitTypes' /\ UsedTypes'
  BY <1>1, UseKeeps DEF CooldownPasses, history, cadence, HistoryTypes, CadenceTypes,
                        TimingTypes, UnitTypes
<1>3. RunTypes'
  BY <1>1 DEF CooldownPasses, RunTypes
<1>4. ASSUME NEW v \in Units
      PROVE  UnitInv(v)'
  BY UnitSame DEF IInv, CooldownPasses, cadence
<1> QED
  BY <1>2, <1>3, <1>4, TypeParts DEF IInv

\* What an import records of a direction stays within the units.
LEMMA RecordKeeps ==
  ASSUME HistoryTypes, NEW u \in Units, NEW ended \in BOOLEAN,
         \E readings \in Readings : RecordFetch(u, ended, readings)
  PROVE  HistoryTypes'
<1>1. PICK readings \in Readings : RecordFetch(u, ended, readings)
  OBVIOUS
<1>2. readings = "cost" => readings # "none"
  OBVIOUS
<1> QED
  BY <1>1, <1>2 DEF RecordFetch, HistoryTypes

\* A unit ends: done with all it was asked, or owing it.
LEMMA FinishKeeps ==
  ASSUME IInv, NEW u \in Units, Walking(u), NEW how \in Outcomes, NEW unit \in UnitRecord,
         Finish(u, how, unit), TellsWaits(unit),
         HistoryTypes', UsedTypes', sent' \in BOOLEAN,
         NEW left \in {"targeted", "full", None}, behind' = [behind EXCEPT ![u] = left],
         Span(left) <= Span(unit.owed),
         \/ Span(unitMode[u]) >= Span(asked[u])
         \/ unitMode[u] = "tip" /\ Span(OwedReconciliation(asked[u])) <= Span(unit.owed),
         \/ how = "ok" /\ Span(unitMode[u]) >= Span(asked[u])
         \/ Span(OwedReconciliation(asked[u])) <= Span(unit.owed)
  PROVE  IInv'
<1>1. HistoryTypes /\ CadenceTypes /\ TimingTypes /\ RunTypes /\ UnitTypes /\ UsedTypes
  BY TypeParts DEF IInv
<1>2. phase = "syncing" /\ UNCHANGED <<phase, due, cadence, firstFailures, rateLimits, mode,
                                       asked, unitMode, cooling, fresh>>
  BY DEF Walking, Finish
<1>3. /\ walk' = [walk EXCEPT ![u] = "done"]
      /\ outcome' = [outcome EXCEPT ![u] = how]
      /\ units' = [units EXCEPT ![u] = unit]
  BY DEF Finish
<1>4. CadenceTypes' /\ TimingTypes'
  BY <1>1, <1>2 DEF cadence, CadenceTypes, TimingTypes
<1>5. UnitTypes'
  BY <1>1, <1>3 DEF UnitTypes
<1>6. walk' \in [Units -> Walks] /\ outcome' \in [Units -> Outcomes]
  BY <1>1, <1>3 DEF RunTypes, Walks
<1>7. RunTypes'
  BY <1>1, <1>2, <1>6 DEF RunTypes
<1>8. ASSUME NEW v \in Units
      PROVE  UnitInv(v)'
  <2>1. UnitInv(v)
    BY DEF IInv
  <2>2. CASE v # u
    <3>1. /\ walk'[v] = walk[v] /\ outcome'[v] = outcome[v]
          /\ units'[v] = units[v] /\ behind'[v] = behind[v]
      BY <1>1, <1>3, <2>2 DEF RunTypes, UnitTypes
    <3> QED
      BY <1>2, <2>1, <3>1, UnitSame DEF cadence
  <2>3. CASE v = u
    <3>1. /\ walk'[u] = "done" /\ outcome'[u] = how
          /\ units'[u] = unit /\ behind'[u] = left
      BY <1>1, <1>3 DEF RunTypes, UnitTypes
    <3>2. complete \/ bySetup \/ Span(asked[u]) >= 2
      BY <1>2, <2>1, <2>3 DEF UnitInv, Asks
    <3>3. Asks(u)'
      BY <1>2, <3>1, <3>2 DEF Asks, cadence
    <3>4. TellsWaits(units[u])' /\ NothingLost(u)' /\ Answers(u)' /\ Works(u)'
      BY <1>2, <3>1 DEF NothingLost, Answers, Works
    <3> QED
      BY <1>2, <2>3, <3>3, <3>4 DEF UnitInv
  <2> QED
    BY <2>2, <2>3
<1> QED
  BY <1>4, <1>5, <1>7, <1>8, TypeParts DEF IInv

\* What a unit's import or failure may rely on.
LEMMA WalkingFacts ==
  ASSUME IInv, NEW u \in Units, Walking(u)
  PROVE  /\ asked[u] \in Modes /\ unitMode[u] \in Modes
         /\ units[u] \in UnitRecord /\ TellsWaits(units[u])
         /\ Covers(units[u], unitMode[u]) \/ (HourlyGoesOn(units[u]) /\ unitMode[u] = "tip")
         /\ \/ Span(unitMode[u]) >= Span(asked[u])
            \/ /\ unitMode[u] = "tip"
               /\ Span(OwedReconciliation(asked[u])) <= Span(units[u].owed)
         /\ Span(OwedReconciliation(unitMode[u])) >= Span(OwedReconciliation(asked[u]))
              \/ Span(OwedReconciliation(asked[u])) <= Span(units[u].owed)
         /\ \/ Span(behind[u]) <= Span(units[u].owed)
            \/ Span(behind[u]) <= Span(OwedReconciliation(unitMode[u]))
         /\ Span(asked[u]) \in 0 .. 3 /\ Span(unitMode[u]) \in 0 .. 3
         /\ Span(units[u].owed) \in 0 .. 2 /\ Span(behind[u]) \in 0 .. 2
         /\ Span(OwedReconciliation(asked[u])) \in 0 .. 2
         /\ Span(OwedReconciliation(unitMode[u])) \in 0 .. 2
         /\ units[u].owed \in {"targeted", "full", None}
         /\ behind[u] \in {"targeted", "full", None}
<1>1. phase = "syncing" /\ walk[u] \notin {"none", "done"}
  BY DEF Walking
<1>2. /\ asked[u] \in Modes /\ unitMode[u] \in Modes
      /\ units[u] \in UnitRecord /\ TellsWaits(units[u])
      /\ Span(units[u].owed) \in 0 .. 2 /\ Span(behind[u]) \in 0 .. 2
      /\ units[u].owed \in {"targeted", "full", None}
      /\ behind[u] \in {"targeted", "full", None}
      /\ NothingLost(u) /\ Asks(u) /\ Works(u)
  BY <1>1, UnitFacts
<1>3. Covers(units[u], unitMode[u]) \/ (HourlyGoesOn(units[u]) /\ unitMode[u] = "tip")
  BY <1>1, <1>2 DEF Works
<1>4. /\ Span(asked[u]) \in 0 .. 3 /\ Span(unitMode[u]) \in 0 .. 3
      /\ Span(OwedReconciliation(asked[u])) = IF Span(asked[u]) >= 2 THEN 2 ELSE Span(asked[u])
      /\ Span(OwedReconciliation(unitMode[u])) =
           IF Span(unitMode[u]) >= 2 THEN 2 ELSE Span(unitMode[u])
  BY <1>2, Spans
<1>5. \/ Span(unitMode[u]) >= Span(asked[u])
      \/ /\ unitMode[u] = "tip"
         /\ Span(OwedReconciliation(asked[u])) <= Span(units[u].owed)
  BY <1>2 DEF Asks
<1>6. Span(behind[u]) <= Span(units[u].owed) \/ Span(asked[u]) >= 2
  BY <1>2 DEF NothingLost, Asks
<1>7. Span(OwedReconciliation(unitMode[u])) >= Span(OwedReconciliation(asked[u]))
        \/ Span(OwedReconciliation(asked[u])) <= Span(units[u].owed)
  BY <1>4, <1>5
<1>8. \/ Span(behind[u]) <= Span(units[u].owed)
      \/ Span(behind[u]) <= Span(OwedReconciliation(unitMode[u]))
  BY <1>2, <1>4, <1>6, <1>7
<1>9. /\ Span(OwedReconciliation(asked[u])) \in 0 .. 2
      /\ Span(OwedReconciliation(unitMode[u])) \in 0 .. 2
  BY <1>4
<1> QED
  BY <1>2, <1>3, <1>4, <1>5, <1>7, <1>8, <1>9

\* A unit whose note owes what it had and what it ran in loses nothing.
LEMMA OwingKeeps ==
  ASSUME IInv, NEW u \in Units, Walking(u), NEW how \in Outcomes, NEW unit,
         Notes(unit, units[u], unitMode[u]), Finish(u, how, unit),
         HistoryTypes', UsedTypes', sent' \in BOOLEAN, UNCHANGED behind
  PROVE  IInv'
<1> DEFINE asking == Span(OwedReconciliation(asked[u]))
           running == Span(OwedReconciliation(unitMode[u]))
<1>1. /\ unit \in UnitRecord /\ TellsWaits(unit)
      /\ Span(unit.owed) >= Span(units[u].owed) /\ Span(unit.owed) >= running
  BY DEF Notes
<1>2. Span(unit.owed) \in 0 .. 2
  BY <1>1, Spans DEF UnitRecord
<1>3. /\ behind[u] \in {"targeted", "full", None}
      /\ Span(behind[u]) \in 0 .. 2 /\ Span(units[u].owed) \in 0 .. 2
      /\ asking \in 0 .. 2 /\ running \in 0 .. 2
      /\ Span(behind[u]) <= Span(units[u].owed) \/ Span(behind[u]) <= running
      /\ running >= asking \/ asking <= Span(units[u].owed)
      /\ \/ Span(unitMode[u]) >= Span(asked[u])
         \/ unitMode[u] = "tip" /\ asking <= Span(units[u].owed)
  BY WalkingFacts
<1>4. behind' = [behind EXCEPT ![u] = behind[u]]
  BY TypeParts DEF IInv, UnitTypes
<1>5. Span(behind[u]) <= Span(unit.owed) /\ asking <= Span(unit.owed)
  BY <1>1, <1>2, <1>3
<1>6. \/ Span(unitMode[u]) >= Span(asked[u])
      \/ unitMode[u] = "tip" /\ asking <= Span(unit.owed)
  BY <1>3, <1>5
<1> QED
  BY <1>1, <1>3, <1>4, <1>5, <1>6, FinishKeeps

\* An import in full.
LEMMA FinishAllKeeps ==
  ASSUME IInv, NEW u \in Units, FinishAll(u)
  PROVE  IInv'
<1> DEFINE asking == Span(OwedReconciliation(asked[u]))
           running == Span(unitMode[u])
           unit == NoteSuccess(Reached(u), unitMode[u])
           left == IF running >= Span(behind[u]) THEN None ELSE behind[u]
<1>1. HistoryTypes /\ UsedTypes /\ UnitTypes
  BY TypeParts DEF IInv
<1>2. Walking(u) /\ Finish(u, "ok", unit) /\ sent' \in BOOLEAN /\ "ok" \in Outcomes
  BY DEF FinishAll, Outcomes
<1>3. HistoryTypes' /\ UsedTypes'
  BY <1>1, RecordKeeps, UseKeeps DEF FinishAll
<1>4. behind' = [behind EXCEPT ![u] = left]
  BY <1>1 DEF FinishAll, UnitTypes
<1>5. /\ asked[u] \in Modes /\ unitMode[u] \in Modes
      /\ units[u] \in UnitRecord /\ TellsWaits(units[u])
      /\ Covers(units[u], unitMode[u]) \/ (HourlyGoesOn(units[u]) /\ unitMode[u] = "tip")
      /\ running >= Span(asked[u]) \/ (unitMode[u] = "tip" /\ asking <= Span(units[u].owed))
      /\ \/ Span(behind[u]) <= Span(units[u].owed)
         \/ Span(behind[u]) <= Span(OwedReconciliation(unitMode[u]))
      /\ Span(asked[u]) \in 0 .. 3 /\ running \in 0 .. 3
      /\ Span(units[u].owed) \in 0 .. 2 /\ Span(behind[u]) \in 0 .. 2
      /\ asking \in 0 .. 2
      /\ units[u].owed \in {"targeted", "full", None}
      /\ behind[u] \in {"targeted", "full", None}
  BY <1>2, WalkingFacts
<1>6. /\ unit \in UnitRecord /\ TellsWaits(unit)
      /\ unit.owed = IF Covers(units[u], unitMode[u]) THEN None ELSE units[u].owed
  BY <1>5, ReachedKeeps, NoteSuccessKeeps
<1>7. Span(OwedReconciliation(unitMode[u])) = IF running >= 2 THEN 2 ELSE running
  BY <1>5, Spans
<1>8. left \in {"targeted", "full", None} /\ Span(None) = 0
  BY <1>5, Spans
<1>9. unitMode[u] = "tip" => running = 0
  BY Spans
<1>10. Covers(units[u], unitMode[u]) => running >= Span(units[u].owed)
  BY <1>5, <1>8, LargerReaches DEF Covers
<1> HIDE DEF unit
<1>11. Span(left) <= Span(unit.owed)
  BY <1>5, <1>6, <1>7, <1>8, <1>9, <1>10
<1>12. \/ running >= Span(asked[u])
       \/ unitMode[u] = "tip" /\ asking <= Span(unit.owed)
  BY <1>5, <1>6, <1>8, <1>9, <1>10
<1> HIDE DEF left
<1> QED
  BY <1>2, <1>3, <1>4, <1>6, <1>8, <1>11, <1>12, FinishKeeps

\* An import of the newer windows alone.
LEMMA FinishNewerKeeps ==
  ASSUME IInv, NEW u \in Units, FinishNewer(u)
  PROVE  IInv'
<1>1. HistoryTypes /\ UsedTypes /\ complete \in BOOLEAN
  BY TypeParts DEF IInv, CadenceTypes
<1>2. /\ Walking(u) /\ sent' \in BOOLEAN /\ "degraded" \in Outcomes
      /\ Finish(u, "degraded", NoteDegraded(Reached(u), unitMode[u], complete))
      /\ UNCHANGED behind
  BY DEF FinishNewer, Outcomes
<1>3. HistoryTypes' /\ UsedTypes'
  BY <1>1, RecordKeeps, UseKeeps DEF FinishNewer
<1>4. Notes(NoteDegraded(Reached(u), unitMode[u], complete), units[u], unitMode[u])
  <2>1. unitMode[u] \in Modes /\ units[u] \in UnitRecord /\ TellsWaits(units[u])
    BY <1>2, WalkingFacts
  <2>2. Reached(u) \in UnitRecord /\ TellsWaits(Reached(u)) /\ Reached(u).owed = units[u].owed
    BY <2>1, ReachedKeeps
  <2> QED
    BY <1>1, <2>1, <2>2, NoteDegradedKeeps DEF Notes
<1> QED
  BY <1>2, <1>3, <1>4, OwingKeeps

\* No import.
LEMMA FinishNoneKeeps ==
  ASSUME IInv, NEW u \in Units, FinishNone(u)
  PROVE  IInv'
<1>1. HistoryTypes /\ UsedTypes /\ complete \in BOOLEAN
  BY TypeParts DEF IInv, CadenceTypes
<1>2. /\ Walking(u) /\ sent' \in BOOLEAN /\ "failed" \in Outcomes
      /\ Finish(u, "failed", NoteFailure(Reached(u), unitMode[u], complete))
      /\ UNCHANGED <<history, behind>>
  BY DEF FinishNone, Outcomes
<1>3. HistoryTypes' /\ UsedTypes'
  BY <1>1, UseKeeps DEF FinishNone, history, HistoryTypes
<1>4. Notes(NoteFailure(Reached(u), unitMode[u], complete), units[u], unitMode[u])
  <2>1. unitMode[u] \in Modes /\ units[u] \in UnitRecord /\ TellsWaits(units[u])
    BY <1>2, WalkingFacts
  <2>2. Reached(u) \in UnitRecord /\ TellsWaits(Reached(u)) /\ Reached(u).owed = units[u].owed
    BY <2>1, ReachedKeeps
  <2> QED
    BY <1>1, <2>1, <2>2, NoteFailureKeeps DEF Notes
<1> QED
  BY <1>2, <1>3, <1>4, OwingKeeps

\* A unit the time budget does not reach.
LEMMA FinishLateKeeps ==
  ASSUME IInv, NEW u \in Units, FinishLate(u)
  PROVE  IInv'
<1> DEFINE owing == Owe(units[u], unitMode[u])
           unit == [owing EXCEPT !.notReached = @ + 1]
<1>1. HistoryTypes /\ UsedTypes /\ sent \in BOOLEAN
  BY TypeParts DEF IInv, RunTypes
<1>2. /\ Walking(u) /\ sent' \in BOOLEAN /\ "deferred" \in Outcomes
      /\ Finish(u, "deferred", unit) /\ UNCHANGED <<history, behind>>
  BY <1>1 DEF FinishLate, Outcomes
<1>3. HistoryTypes' /\ UsedTypes'
  BY <1>1, UseKeeps DEF FinishLate, history, HistoryTypes
<1>4. Notes(unit, units[u], unitMode[u])
  <2>1. unitMode[u] \in Modes /\ units[u] \in UnitRecord /\ TellsWaits(units[u])
    BY <1>2, WalkingFacts
  <2>2. /\ owing \in UnitRecord /\ TellsWaits(owing)
        /\ Span(owing.owed) >= Span(units[u].owed)
        /\ Span(owing.owed) >= Span(OwedReconciliation(unitMode[u]))
    BY <2>1, OweKeeps, OweTells
  <2> HIDE DEF owing
  <2>3. unit \in UnitRecord /\ unit.owed = owing.owed /\ TellsWaits(unit)
    BY <2>2 DEF UnitRecord, TellsWaits
  <2> QED
    BY <2>2, <2>3 DEF Notes
<1> QED
  BY <1>2, <1>3, <1>4, OwingKeeps

-------------------------------------------------------------------------------
(***************************************************************************)
(* The ends of an update, and what goes on between two.                    *)
(***************************************************************************)

\* An update that fails leaves every unit with what it waits for and owes.
LEMMA FailingKeeps ==
  ASSUME IInv, NoRun, phase' \in {"waiting", "rejected"},
         UNCHANGED <<units, history, cadence, behind>>,
         due' \in Nat, firstFailures' \in 0 .. 2, rateLimits' \in 0 .. 5, UsedTypes'
  PROVE  IInv'
<1>1. HistoryTypes /\ CadenceTypes /\ TimingTypes /\ UnitTypes
  BY TypeParts DEF IInv
<1>2. HistoryTypes' /\ CadenceTypes' /\ TimingTypes' /\ UnitTypes'
  BY <1>1 DEF history, cadence, HistoryTypes, CadenceTypes, TimingTypes, UnitTypes
<1>3. phase' # "syncing"
  OBVIOUS
<1>4. RunTypes' /\ \A u \in Units : outcome'[u] = None
  BY <1>3, NoRunTypes
<1>5. ASSUME NEW u \in Units
      PROVE  UnitInv(u)'
  <2>1. TellsWaits(units[u]) /\ NothingLost(u)
    BY UnitFacts
  <2>2. TellsWaits(units[u])' /\ NothingLost(u)'
    BY <1>4, <2>1 DEF NothingLost, cadence
  <2> QED
    BY <1>3, <1>4, <2>2 DEF UnitInv
<1> QED
  BY <1>2, <1>4, <1>5, TypeParts DEF IInv

\* Every way an update fails.
LEMMA FailsKeep ==
  ASSUME IInv, RateLimited \/ Rejected \/ NotStarted \/ EndFails
  PROVE  IInv'
<1>1. UsedTypes /\ TimingTypes
  BY TypeParts DEF IInv
<1>2. /\ \A wait \in RateLimitWaits : RateLimitWait(wait) \in Nat
      /\ OneMoreLimit => rateLimits' \in 0 .. 5
  BY <1>1, LimitKeeps
<1>3. FirstSyncRetry => due' \in Nat /\ firstFailures' \in 0 .. 2
  BY <1>1 DEF FirstSyncRetry, TimingTypes
<1>4. CASE RateLimited
  <2>1. UsedTypes'
    BY <1>1, <1>4, UseKeeps DEF RateLimited
  <2>2. due' \in Nat /\ rateLimits' \in 0 .. 5 /\ firstFailures' \in 0 .. 2
    BY <1>1, <1>2, <1>4 DEF RateLimited, TimingTypes
  <2> QED
    BY <1>4, <2>1, <2>2, FailingKeeps DEF RateLimited, Failing, Ends
<1>5. CASE Rejected
  <2>1. UsedTypes'
    BY <1>1, <1>5, UseKeeps DEF Rejected
  <2>2. due' \in Nat /\ rateLimits' \in 0 .. 5 /\ firstFailures' \in 0 .. 2
    BY <1>1, <1>5 DEF Rejected, TimingTypes
  <2> QED
    BY <1>5, <2>1, <2>2, FailingKeeps DEF Rejected
<1>6. CASE NotStarted
  <2>1. UsedTypes'
    BY <1>1, <1>6, UseKeeps DEF NotStarted
  <2>2. due' \in Nat /\ rateLimits' \in 0 .. 5 /\ firstFailures' \in 0 .. 2
    BY <1>1, <1>3, <1>6 DEF NotStarted, TimingTypes
  <2> QED
    BY <1>6, <2>1, <2>2, FailingKeeps DEF NotStarted, Failing, Ends
<1>7. CASE EndFails
  <2>1. UsedTypes'
    BY <1>1, <1>7, UseKeeps DEF EndFails
  <2>2. due' \in Nat /\ rateLimits' \in 0 .. 5 /\ firstFailures' \in 0 .. 2
    BY <1>1, <1>3, <1>7 DEF EndFails, TimingTypes
  <2> QED
    BY <1>7, <2>1, <2>2, FailingKeeps DEF EndFails, Failing, Ends
<1> QED
  BY <1>4, <1>5, <1>6, <1>7

\* What the cadence counts for a unit that is done is covered, or owed.
LEMMA CountedOwed ==
  ASSUME IInv, NEW u \in Units, Ended
  PROVE  Counted(u) \in {"targeted", "full", None} /\ Span(Counted(u)) <= Span(units[u].owed)
<1> DEFINE counted == OwedReconciliation(asked[u])
           debt == IF behind[u] = None THEN counted ELSE LargerMode(behind[u], counted)
<1>1. /\ phase = "syncing" /\ outcome[u] # None
  BY DEF Ended
<1>2. /\ NothingLost(u) /\ Answers(u) /\ asked[u] \in Modes
      /\ behind[u] \in {"targeted", "full", None}
      /\ Span(behind[u]) \in 0 .. 2 /\ Span(units[u].owed) \in 0 .. 2
  BY <1>1, UnitFacts
<1>3. counted \in {"targeted", "full", None} /\ Span(counted) \in 0 .. 2
  BY <1>2, Spans
<1>4. /\ debt \in {"targeted", "full", None}
      /\ Span(debt) = IF Span(behind[u]) >= Span(counted) THEN Span(behind[u]) ELSE Span(counted)
  BY <1>2, <1>3, LargerDebt
<1>5. Span(behind[u]) <= Span(units[u].owed)
  BY <1>1, <1>2 DEF NothingLost
<1>6. \/ outcome[u] = "ok" /\ Span(unitMode[u]) >= Span(asked[u])
      \/ Span(counted) <= Span(units[u].owed)
  BY <1>1, <1>2 DEF Answers
<1>7. Counted(u) = IF outcome[u] = "ok" /\ Span(unitMode[u]) >= Span(asked[u])
                   THEN behind[u] ELSE debt
  BY DEF Counted
<1> HIDE DEF counted, debt
<1> QED
  BY <1>2, <1>3, <1>4, <1>5, <1>6, <1>7

\* An update that succeeds counts as done what each unit ran, or owes.
LEMMA SucceedsKeep ==
  ASSUME IInv, EndSync \/ EndLimited
  PROVE  IInv'
<1>1. HistoryTypes /\ CadenceTypes /\ TimingTypes /\ UnitTypes /\ UsedTypes
  BY TypeParts DEF IInv
<1>2. Succeeds /\ UsedTypes'
  BY <1>1, UseKeeps DEF EndSync, EndLimited
<1>3. due' \in Nat /\ rateLimits' \in 0 .. 5
  BY <1>1, LimitKeeps DEF EndSync, EndLimited
<1>4. HistoryTypes' /\ TimingTypes'
  BY <1>1, <1>2, <1>3 DEF Succeeds, Ends, history, HistoryTypes, TimingTypes
<1>5. CadenceTypes'
  BY <1>1, <1>2, SyncAssumption DEF Succeeds, CadenceTypes
<1>6. \A u \in Units : /\ Counted(u) \in {"targeted", "full", None}
                       /\ Span(Counted(u)) <= Span(units[u].owed)
  BY <1>2, CountedOwed DEF Succeeds
<1>7. /\ units' = units /\ behind' = [u \in Units |-> Counted(u)]
      /\ phase' # "syncing" /\ NoRun
  BY <1>2 DEF Succeeds, Ends
<1>8. UnitTypes'
  BY <1>1, <1>6, <1>7 DEF UnitTypes
<1>9. RunTypes' /\ \A u \in Units : outcome'[u] = None
  BY <1>7, NoRunTypes
<1>10. ASSUME NEW u \in Units
       PROVE  UnitInv(u)'
  <2>1. TellsWaits(units[u])'
    BY <1>7, UnitFacts
  <2>2. NothingLost(u)'
    BY <1>6, <1>7 DEF NothingLost
  <2> QED
    BY <1>7, <1>9, <2>1, <2>2 DEF UnitInv
<1> QED
  BY <1>2, <1>4, <1>5, <1>8, <1>9, <1>10, TypeParts DEF IInv

\* The hours between two updates pass for every wait.
LEMMA TimeKeeps ==
  ASSUME IInv, TimePasses
  PROVE  IInv'
<1>1. HistoryTypes /\ CadenceTypes /\ TimingTypes /\ RunTypes /\ UnitTypes /\ UsedTypes
  BY TypeParts DEF IInv
<1>2. /\ due \in Nat /\ phase' = "ready" /\ due' = 0
      /\ units' = [u \in Units |-> Aged(units[u], due)]
      /\ UNCHANGED <<history, bySetup, complete, firstFailures, rateLimits, run, behind, used>>
  BY <1>1 DEF TimePasses, TimingTypes
<1>3. \A u \in Units : /\ Aged(units[u], due) \in UnitRecord
                       /\ TellsWaits(Aged(units[u], due))
                       /\ Aged(units[u], due).owed = units[u].owed
  BY <1>2, UnitFacts, AgedKeeps
<1>4. /\ \A since \in 0 .. TargetedInterval \cup {None} :
           Older(since, TargetedInterval) \in 0 .. TargetedInterval \cup {None}
      /\ \A since \in 0 .. FullInterval \cup {None} :
           Older(since, FullInterval) \in 0 .. FullInterval \cup {None}
  BY <1>2, SyncAssumption, NoneIsNothing DEF Older
<1>5. HistoryTypes' /\ TimingTypes' /\ UsedTypes'
  BY <1>1, <1>2, UseKeeps DEF history, HistoryTypes, TimingTypes
<1>6. CadenceTypes'
  BY <1>1, <1>2, <1>4 DEF TimePasses, CadenceTypes
<1>7. RunTypes'
  BY <1>1, <1>2 DEF RunTypes, run
<1>8. UnitTypes'
  BY <1>1, <1>2, <1>3 DEF UnitTypes
<1>9. ASSUME NEW u \in Units
      PROVE  UnitInv(u)'
  <2>1. /\ units'[u].owed = units[u].owed /\ TellsWaits(units[u])'
        /\ outcome[u] = None /\ outcome' = outcome
    BY <1>2, <1>3, UnitFacts DEF TimePasses, run
  <2>2. NothingLost(u)'
    BY <1>2, <2>1, UnitFacts DEF NothingLost
  <2> QED
    BY <1>2, <2>1, <2>2 DEF UnitInv
<1> QED
  BY <1>5, <1>6, <1>7, <1>8, <1>9, TypeParts DEF IInv

\* A coordinator that starts afresh has counted nothing.
LEMMA NewKeeps ==
  ASSUME IInv, Reload \/ SignedIn
  PROVE  IInv'
<1>1. HistoryTypes /\ UsedTypes
  BY TypeParts DEF IInv
<1>2. NewCoordinator /\ UsedTypes'
  BY <1>1, UseKeeps DEF Reload, SignedIn
<1>3. HistoryTypes' /\ CadenceTypes' /\ TimingTypes'
  <2>1. HistoryTypes'
    BY <1>1, <1>2 DEF NewCoordinator, HistoryTypes
  <2>2. CadenceTypes'
    BY <1>2 DEF NewCoordinator, CadenceTypes
  <2>3. TimingTypes'
    BY <1>2 DEF NewCoordinator, TimingTypes
  <2> QED
    BY <2>1, <2>2, <2>3
<1>4. UnitTypes'
  BY <1>2, NewUnitKeeps DEF NewCoordinator, UnitTypes
<1>5. RunTypes' /\ \A u \in Units : outcome'[u] = None
  BY <1>2, NoRunTypes DEF NewCoordinator
<1>6. ASSUME NEW u \in Units
      PROVE  UnitInv(u)'
  BY <1>2, <1>5, NewUnitKeeps DEF NewCoordinator, UnitInv, NothingLost
<1> QED
  BY <1>2, <1>3, <1>4, <1>5, <1>6, TypeParts DEF IInv

-------------------------------------------------------------------------------
(***************************************************************************)
(* The invariant, and what follows from it.                                *)
(***************************************************************************)

\* What setup hands over of a unit is of its kind, and tells what it waits for.
LEMMA SetupKeeps ==
  ASSUME NEW how
  PROVE  /\ SetupUnit(how) \in UnitRecord /\ TellsWaits(SetupUnit(how))
         /\ SetupUnit(how).owed \in {"targeted", "full", None}
<1>1. NewUnit \in UnitRecord /\ TellsWaits(NewUnit) /\ "initial" \in Modes
  BY NewUnitKeeps DEF Modes
<1>2. Succeed(NewUnit) \in UnitRecord /\ TellsWaits(Succeed(NewUnit))
  BY <1>1, SucceedKeeps
<1>3. /\ NoteDegraded(NewUnit, "initial", FALSE) \in UnitRecord
      /\ TellsWaits(NoteDegraded(NewUnit, "initial", FALSE))
  BY <1>1, NoteDegradedKeeps DEF Notes
<1>4. /\ NoteFailure(NewUnit, "initial", FALSE) \in UnitRecord
      /\ TellsWaits(NoteFailure(NewUnit, "initial", FALSE))
  BY <1>1, NoteFailureKeeps DEF Notes
<1>5. /\ [Owe(NewUnit, "initial") EXCEPT !.notReached = 1] \in UnitRecord
      /\ TellsWaits([Owe(NewUnit, "initial") EXCEPT !.notReached = 1])
  <2> DEFINE owing == Owe(NewUnit, "initial")
  <2>1. owing \in UnitRecord /\ TellsWaits(owing)
    BY <1>1, OweKeeps, OweTells
  <2> DEFINE late == [owing EXCEPT !.notReached = 1]
  <2> HIDE DEF owing
  <2>2. /\ late \in UnitRecord
        /\ late.status = owing.status /\ late.retry = owing.retry
        /\ late.hourlyRetry = owing.hourlyRetry /\ late.whole = owing.whole
    BY <2>1 DEF UnitRecord
  <2> HIDE DEF late
  <2>3. TellsWaits(late)
    BY <2>1, <2>2 DEF TellsWaits
  <2> QED
    BY <2>2, <2>3 DEF late, owing
<1>6. SetupUnit(how) \in UnitRecord /\ TellsWaits(SetupUnit(how))
  BY <1>2, <1>3, <1>4, <1>5 DEF SetupUnit
<1> QED
  BY <1>6 DEF UnitRecord

\* The coordinator an entry starts with.
LEMMA InitKeeps == Init => IInv
<1> SUFFICES ASSUME Init PROVE IInv
  OBVIOUS
<1>1. UsedTypes
  <2>1. \A b \in DOMAIN Bounds : Bounds[b] \in Nat
    BY SyncAssumption DEF Bounds
  <2> QED
    BY <2>1 DEF Init, UsedTypes
<1>2. TimingTypes
  BY DEF Init, TimingTypes
<1>3. RunTypes
  BY DEF Init, RunTypes, Walks, Outcomes
<1>4. CASE bySetup = TRUE /\ FromSetup /\ stale = {}
  <2>1. PICK how \in [Units -> {"ok", "degraded", "failed", "late"}], found \in SUBSET Units :
          /\ units = [u \in Units |-> SetupUnit(how[u])]
          /\ known \in SUBSET Units
          /\ attempted = {u \in Units : how[u] = "ok" \/ u \in found}
          /\ sinceTargeted = 0 /\ sinceFull = 0
          /\ behind = [u \in Units |-> units[u].owed]
    BY <1>4 DEF FromSetup
  <2>2. HistoryTypes
    BY <1>4, <2>1 DEF Init, HistoryTypes
  <2>3. CadenceTypes
    <3>1. 0 \in 0 .. TargetedInterval /\ 0 \in 0 .. FullInterval
      BY SyncAssumption
    <3>2. sinceTargeted = 0 /\ sinceFull = 0 /\ bySetup = TRUE /\ complete = FALSE
      BY <1>4, <2>1 DEF Init
    <3> QED
      BY <3>1, <3>2 DEF CadenceTypes
  <2>4. UnitTypes
    BY <2>1, SetupKeeps DEF UnitTypes
  <2>5. ASSUME NEW u \in Units
        PROVE  UnitInv(u)
    <3>1. TellsWaits(units[u]) /\ behind[u] = units[u].owed
      BY <2>1, SetupKeeps
    <3>2. Span(units[u].owed) \in 0 .. 2
      BY <2>4, Spans DEF UnitTypes, UnitRecord
    <3> QED
      BY <3>1, <3>2 DEF Init, UnitInv, NothingLost
  <2> QED
    BY <1>1, <1>2, <1>3, <2>2, <2>3, <2>4, <2>5, TypeParts DEF IInv
<1>5. CASE bySetup = FALSE /\ Afresh /\ stale \in SUBSET known
  <2>1. HistoryTypes
    BY <1>5 DEF Init, Afresh, HistoryTypes
  <2>2. CadenceTypes
    BY <1>5 DEF Init, Afresh, CadenceTypes
  <2>3. UnitTypes
    BY <1>5, NewUnitKeeps DEF Afresh, UnitTypes
  <2>4. ASSUME NEW u \in Units
        PROVE  UnitInv(u)
    BY <1>5, NewUnitKeeps DEF Init, Afresh, UnitInv, NothingLost
  <2> QED
    BY <1>1, <1>2, <1>3, <2>1, <2>2, <2>3, <2>4, TypeParts DEF IInv
<1> QED
  BY <1>4, <1>5 DEF Init

\* A step that changes nothing.
LEMMA StutterKeeps ==
  ASSUME IInv, UNCHANGED vars
  PROVE  IInv'
<1>1. HistoryTypes /\ CadenceTypes /\ TimingTypes /\ RunTypes /\ UnitTypes /\ UsedTypes
  BY TypeParts DEF IInv
<1>2. HistoryTypes' /\ CadenceTypes' /\ TimingTypes' /\ UnitTypes'
  BY <1>1 DEF vars, history, cadence, HistoryTypes, CadenceTypes, TimingTypes, UnitTypes
<1>3. RunTypes' /\ UsedTypes'
  BY <1>1, UseKeeps DEF vars, run, RunTypes
<1>4. \A u \in Units : UnitInv(u)'
  BY UnitSame DEF IInv, vars, run, cadence
<1> QED
  BY <1>2, <1>3, <1>4, TypeParts DEF IInv

\* The inductive invariant holds in every state of every behaviour: units tell
\* what they wait for, and what the cadence has counted is owed or was run.
THEOREM Invariance == Spec => []IInv
<1>1. ASSUME IInv, [Next]_vars
      PROVE  IInv'
  <2>1. CASE TimePasses
    BY <1>1, <2>1, TimeKeeps
  <2>2. CASE StartSync
    BY <1>1, <2>2, StartKeeps
  <2>3. CASE CooldownPasses
    BY <1>1, <2>3, CooldownKeeps
  <2>4. CASE Replan
    BY <1>1, <2>4, ReplanKeeps
  <2>5. ASSUME NEW u \in Units, Newly(u)
        PROVE  IInv'
    BY <1>1, <2>5, NewestKeeps
  <2>6. ASSUME NEW u \in Units, Finishes(u)
        PROVE  IInv'
    BY <1>1, <2>6, FinishAllKeeps, FinishNewerKeeps, FinishNoneKeeps, FinishLateKeeps
       DEF Finishes
  <2>7. CASE RateLimited \/ Rejected \/ NotStarted \/ EndFails
    BY <1>1, <2>7, FailsKeep
  <2>8. CASE EndSync \/ EndLimited
    BY <1>1, <2>8, SucceedsKeep
  <2>9. CASE Reload \/ SignedIn
    BY <1>1, <2>9, NewKeeps
  <2>10. CASE UNCHANGED vars
    BY <1>1, <2>10, StutterKeeps
  <2> QED
    BY <1>1, <2>1, <2>2, <2>3, <2>4, <2>5, <2>6, <2>7, <2>8, <2>9, <2>10 DEF Next
<1> QED
  BY <1>1, InitKeeps, PTL DEF Spec

\* Every variable of the coordinator and of its updates keeps to its kind.
THEOREM TypeCorrect == Spec => []TypeOK
<1>1. IInv => TypeOK
  BY DEF IInv, TypeInv
<1> QED
  BY <1>1, Invariance, PTL

\* A unit's status tells what it waits for, whatever its updates met.
THEOREM StatusTells == Spec => []StatusTellsWaits
<1>1. IInv => StatusTellsWaits
  BY DEF IInv, UnitInv, StatusTellsWaits
<1> QED
  BY <1>1, Invariance, PTL

\* No reconciliation the cadence counts as done is lost: each unit ran it, or
\* still owes it.
THEOREM ReconciliationKept == Spec => []ReconciledOrOwed
<1>1. IInv => ReconciledOrOwed
  BY DEF IInv, UnitInv, NothingLost, ReconciledOrOwed
<1> QED
  BY <1>1, Invariance, PTL

-------------------------------------------------------------------------------
(***************************************************************************)
(* No unit starves.  Counting how often each unit was passed over, of n    *)
(* units at least n - 1 were not once, n - 2 not twice, and so on: the     *)
(* first unit an update reaches is one of those passed over most, and      *)
(* counts from nothing again, while each other one counts once more.       *)
(***************************************************************************)

\* So many units at most have a count so large, but for a slack.
Spread(count, slack) ==
  \A n \in 1 .. Cardinality(Units) :
    Cardinality({u \in Units : count[u] >= n + slack}) <= Cardinality(Units) - n

\* There are finitely many units, and some.
LEMMA SomeUnits ==
  /\ IsFiniteSet(Units) /\ Cardinality(Units) \in Nat \ {0}
  /\ \A S \in SUBSET Units : /\ IsFiniteSet(S) /\ Cardinality(S) \in Nat
                             /\ Cardinality(S) = 0 <=> S = {}
<1>1. IsFiniteSet(Units) /\ Units # {}
  BY SyncAssumption
<1>2. \A S \in SUBSET Units : IsFiniteSet(S)
  BY <1>1, FS_Subset
<1>3. \A S \in SUBSET Units : Cardinality(S) \in Nat /\ (Cardinality(S) = 0 <=> S = {})
  BY <1>2, FS_CardinalityType, FS_EmptySet
<1> QED BY <1>1, <1>2, <1>3

\* Counts that grew no more than the slack are spread as they were.
LEMMA SpreadOn ==
  ASSUME NEW c \in [Units -> Nat], NEW d \in [Units -> Nat], NEW a \in Int, NEW b \in Int,
         Spread(c, a), \A u \in Units : d[u] + a <= c[u] + b
  PROVE  Spread(d, b)
<1> SUFFICES ASSUME NEW n \in 1 .. Cardinality(Units)
             PROVE  Cardinality({u \in Units : d[u] >= n + b}) <= Cardinality(Units) - n
  BY DEF Spread
<1>1. PICK C : C = {u \in Units : c[u] >= n + a}
  OBVIOUS
<1>2. PICK D : D = {u \in Units : d[u] >= n + b}
  OBVIOUS
<1>3. Cardinality(C) <= Cardinality(Units) - n
  BY <1>1 DEF Spread
<1>4. D \in SUBSET C /\ C \in SUBSET Units
  BY <1>1, <1>2, SomeUnits
<1>5. Cardinality(D) <= Cardinality(C)
  BY <1>4, SomeUnits, FS_Subset
<1>6. Cardinality(C) \in Nat /\ Cardinality(D) \in Nat /\ Cardinality(Units) \in Nat
  BY <1>4, SomeUnits
<1> QED BY <1>2, <1>3, <1>5, <1>6

\* One that counted most counts from nothing again, and the others once more.
LEMMA SpreadFirst ==
  ASSUME NEW c \in [Units -> Nat], NEW d \in [Units -> Nat], NEW a \in Nat, NEW u \in Units,
         Spread(c, a), d[u] = 0,
         \A v \in Units : d[v] = 0 \/ (d[v] <= c[v] + 1 /\ c[v] <= c[u])
  PROVE  Spread(d, a)
<1> SUFFICES ASSUME NEW n \in 1 .. Cardinality(Units)
             PROVE  Cardinality({v \in Units : d[v] >= n + a}) <= Cardinality(Units) - n
  BY DEF Spread
<1>1. PICK D : D = {v \in Units : d[v] >= n + a}
  OBVIOUS
<1>2. PICK N \in Nat : N = Cardinality(Units) /\ n \in 1 .. N
  BY SomeUnits
<1>3. D \in SUBSET Units /\ Cardinality(D) \in Nat /\ u \notin D
  BY <1>1, <1>2, SomeUnits
<1>4. CASE n = 1
  <2>1. D \in SUBSET (Units \ {u}) /\ IsFiniteSet(Units \ {u})
    BY <1>3, SomeUnits
  <2>2. Cardinality(D) <= Cardinality(Units \ {u})
    BY <2>1, FS_Subset
  <2>3. Cardinality(Units \ {u}) = N - 1
    BY <1>2, SomeUnits, FS_RemoveElement
  <2> QED BY <1>1, <1>2, <1>4, <2>2, <2>3
<1>5. CASE n > 1 /\ D = {}
  BY <1>1, <1>2, <1>5, SomeUnits
<1>6. CASE n > 1 /\ D # {}
  <2>1. PICK C : C = {v \in Units : c[v] >= (n - 1) + a}
    OBVIOUS
  <2>2. n - 1 \in 1 .. N
    BY <1>2, <1>6
  <2>3. Cardinality(C) <= N - (n - 1)
    BY <1>2, <2>1, <2>2 DEF Spread
  <2>4. \A v \in D : v \in C /\ u \in C
    BY <1>1, <1>2, <2>1
  <2>5. u \in C /\ D \in SUBSET (C \ {u}) /\ C \in SUBSET Units
    BY <1>3, <1>6, <2>1, <2>4
  <2>6. IsFiniteSet(C) /\ Cardinality(C) \in Nat
    BY <2>5, SomeUnits
  <2>7. IsFiniteSet(C \ {u}) /\ Cardinality(C \ {u}) = Cardinality(C) - 1
    BY <2>5, <2>6, FS_RemoveElement
  <2>8. Cardinality(D) <= Cardinality(C \ {u})
    BY <2>5, <2>7, FS_Subset
  <2> QED BY <1>1, <1>2, <1>3, <2>3, <2>6, <2>7, <2>8
<1> QED BY <1>2, <1>4, <1>5, <1>6

-------------------------------------------------------------------------------
\* How often updates were cut short, or planned again without a first unit.
Slack == used.aborts + 2 * used.replans

\* A unit whose walk goes on may count once more; one already reached will not.
AtMost == [u \in Units |-> IF walk[u] \in {"none", "done"} THEN units[u].notReached
                           ELSE units[u].notReached + 1]
Leaves == [u \in Units |-> IF ~ sent THEN units[u].notReached
                           ELSE IF walk[u] \in {"begun", "failed"} THEN 0 ELSE AtMost[u]]

\* The waits a unit was left with before a first sync had succeeded are short,
\* and so are those of a unit passed over since.
Brief(unit) ==
  /\ unit.whole => unit.retry = None \/ unit.retry <= 1
  /\ unit.hourlyRetry = None \/ unit.hourlyRetry <= 1

\* Where an update is, as far as its turns go.
Course ==
  /\ phase # "syncing" => ~ sent /\ \A u \in Units : walk[u] = "none"
  /\ ~ sent => cooling = {} /\ \A u \in Units : walk[u] \in {"none", "planned"}
  /\ phase = "ready" => due = 0
  /\ phase = "syncing" =>
       \A u \in Units : outcome[u] # None => walk[u] \in {"none", "done"}

Waiting ==
  /\ \A u \in Units : ~ complete \/ units[u].notReached > 0 => Brief(units[u])
  /\ phase = "syncing" /\ complete =>
       \A u \in Units : \/ walk[u] = "none" \/ ~ Deferred(units[u])
                        \/ walk[u] = "done" /\ units[u].notReached = 0

\* A unit that waits its time out though it was passed over: only an update
\* cut short brings one about.
Held(u) ==
  /\ units[u].notReached > 0
  /\ IF phase = "syncing" THEN walk[u] = "none"
     ELSE complete /\ Deferred(Aged(units[u], due))

Turns ==
  /\ Spread(Leaves, Slack) /\ Spread(AtMost, Slack + 1)
  /\ (\E u \in Units : Held(u)) =>
       Spread(AtMost, IF phase = "syncing" THEN Slack ELSE Slack - 1)

TInv == Course /\ Waiting /\ Turns

\* The counts are numbers, before a step and after it.
LEMMA CountsAre ==
  ASSUME IInv, IInv'
  PROVE  /\ Slack \in Nat /\ Slack' \in Nat
         /\ \A u \in Units : units[u].notReached \in Nat /\ units'[u].notReached \in Nat
         /\ AtMost \in [Units -> Nat] /\ Leaves \in [Units -> Nat]
         /\ AtMost' \in [Units -> Nat] /\ Leaves' \in [Units -> Nat]
         /\ \A u \in Units :
              /\ AtMost[u] = IF walk[u] \in {"none", "done"} THEN units[u].notReached
                             ELSE units[u].notReached + 1
              /\ AtMost'[u] = IF walk'[u] \in {"none", "done"} THEN units'[u].notReached
                              ELSE units'[u].notReached + 1
              /\ Leaves[u] = IF ~ sent THEN units[u].notReached
                             ELSE IF walk[u] \in {"begun", "failed"} THEN 0 ELSE AtMost[u]
              /\ Leaves'[u] = IF ~ sent' THEN units'[u].notReached
                              ELSE IF walk'[u] \in {"begun", "failed"} THEN 0 ELSE AtMost'[u]
<1>1. UnitTypes /\ UsedTypes /\ UnitTypes' /\ UsedTypes'
  BY TypeParts DEF IInv
<1>2. DOMAIN Bounds = {"faults", "late", "aborts", "replans", "reloads"} /\ Bounds' = Bounds
  BY DEF Bounds
<1>3. Slack \in Nat /\ Slack' \in Nat
  BY <1>1, <1>2 DEF UsedTypes, Slack
<1>4. \A u \in Units : units[u].notReached \in Nat /\ units'[u].notReached \in Nat
  BY <1>1 DEF UnitTypes, UnitRecord
<1>5. AtMost \in [Units -> Nat] /\ AtMost' \in [Units -> Nat]
  BY <1>4 DEF AtMost
<1>6. Leaves \in [Units -> Nat] /\ Leaves' \in [Units -> Nat]
  BY <1>4, <1>5 DEF Leaves
<1> QED BY <1>3, <1>4, <1>5, <1>6 DEF AtMost, Leaves

\* Counts that no step raised stay spread.
LEMMA TurnsOn ==
  ASSUME IInv, IInv', Turns, Slack' = Slack, phase' = "syncing" <=> phase = "syncing",
         \A u \in Units : Leaves'[u] <= Leaves[u] /\ AtMost'[u] <= AtMost[u],
         \A u \in Units : Held(u)' => Held(u)
  PROVE  Turns'
<1>1. PICK a \in Nat : a = Slack /\ a = Slack'
  BY CountsAre
<1>2. PICK c \in [Units -> Nat] : c = AtMost
  BY CountsAre
<1>3. PICK d \in [Units -> Nat] : d = AtMost'
  BY CountsAre
<1>4. Spread(Leaves', Slack')
  <2>1. PICK l \in [Units -> Nat] : l = Leaves
    BY CountsAre
  <2>2. PICK m \in [Units -> Nat] : m = Leaves'
    BY CountsAre
  <2>3. a \in Int /\ Spread(l, a)
    BY <1>1, <2>1 DEF Turns
  <2>4. \A u \in Units : m[u] + a <= l[u] + a
    BY <1>1, <2>1, <2>2
  <2>5. Spread(m, a) BY ONLY <2>1, <2>2, <2>3, <2>4, SpreadOn
  <2> QED BY <1>1, <2>2, <2>5
<1>5. \A u \in Units : d[u] <= c[u]
  BY <1>2, <1>3
<1>6. \A b \in Int : Spread(c, b) => Spread(d, b)
  BY <1>5, SpreadOn
<1>7. Spread(c, a + 1) => Spread(d, a + 1)
  BY <1>6
<1>8. Spread(AtMost', Slack' + 1)
  BY <1>1, <1>2, <1>3, <1>7 DEF Turns
<1>9. ASSUME NEW u \in Units, Held(u)'
      PROVE  Spread(AtMost', IF phase' = "syncing" THEN Slack' ELSE Slack' - 1)
  <2>1. PICK b \in Int : b = IF phase = "syncing" THEN a ELSE a - 1
    OBVIOUS
  <2>2. Spread(c, b) BY <1>1, <1>2, <1>9, <2>1 DEF Turns
  <2>3. Spread(d, b) BY <1>6, <2>2
  <2> QED BY <1>1, <1>3, <2>1, <2>3
<1>10. (\E u \in Units : Held(u)') =>
          Spread(AtMost', IF phase' = "syncing" THEN Slack' ELSE Slack' - 1)
  BY <1>9
<1> QED BY <1>4, <1>8, <1>10 DEF Turns

\* An update cut short leaves each count one higher at most, a slack of one.
LEMMA TurnsCut ==
  ASSUME IInv, IInv', TInv, phase \in {"ready", "syncing"}, phase' # "syncing",
         Slack' = Slack + 1, Course',
         \A u \in Units : units'[u].notReached = units[u].notReached,
         \/ \A u \in Units : Held(u)' => Held(u)
         \/ phase = "ready" \/ \A u \in Units : walk[u] \in {"none", "done"}
  PROVE  Turns'
<1>1. PICK a \in Nat : a = Slack /\ a + 1 = Slack'
  BY CountsAre
<1>2. PICK c \in [Units -> Nat] : c = AtMost
  BY CountsAre
<1>3. PICK l \in [Units -> Nat] : l = Leaves
  BY CountsAre
<1>4. PICK d \in [Units -> Nat] : d = AtMost' /\ d = Leaves'
  <2>1. \A u \in Units : AtMost'[u] = Leaves'[u]
    BY CountsAre DEF Course
  <2> QED BY <2>1, CountsAre
<1>5. /\ \A u \in Units : d[u] = units[u].notReached
      /\ \A u \in Units : d[u] <= c[u]
  BY <1>2, <1>4, CountsAre DEF Course
<1>6. Spread(c, a + 1) /\ Spread(l, a)
  BY <1>1, <1>2, <1>3 DEF TInv, Turns
<1>7. Spread(d, a + 1) /\ Spread(d, a + 2)
  <2>1. Spread(d, a + 1) BY <1>5, <1>6, SpreadOn
  <2>2. a + 1 \in Int /\ a + 2 \in Int /\ \A u \in Units : d[u] + (a + 1) <= d[u] + (a + 2)
    OBVIOUS
  <2>3. Spread(d, a + 2) BY <2>1, <2>2, SpreadOn
  <2> QED BY <2>1, <2>3
<1>8. ASSUME NEW u \in Units, Held(u)'
      PROVE  Spread(d, a)
  <2>1. CASE phase = "ready" \/ \A v \in Units : walk[v] \in {"none", "done"}
    <3>1. \A v \in Units : walk[v] \in {"none", "done"}
      BY <2>1 DEF TInv, Course
    <3>2. \A v \in Units : l[v] = units[v].notReached
      BY <1>3, <3>1, CountsAre
    <3>3. \A v \in Units : d[v] + a <= l[v] + a BY <1>5, <3>2
    <3> QED BY <1>6, <3>3, SpreadOn
  <2>2. CASE phase = "syncing" /\ Held(u)
    <3>1. Spread(c, a) BY <1>1, <1>2, <2>2 DEF TInv, Turns
    <3>2. \A v \in Units : d[v] + a <= c[v] + a BY <1>5
    <3> QED BY <3>1, <3>2, SpreadOn
  <2> QED BY <1>8, <2>1, <2>2
<1>9. (\E u \in Units : Held(u)') => Spread(d, a)
  BY <1>8
<1> QED BY <1>1, <1>4, <1>7, <1>9 DEF Turns

-------------------------------------------------------------------------------
\* Waits that pass are no longer, and short ones are over within an hour.
LEMMA AgedWaits ==
  ASSUME NEW unit \in UnitRecord, NEW hours \in Nat
  PROVE  /\ Aged(unit, hours).notReached = unit.notReached
         /\ Brief(unit) => Brief(Aged(unit, hours))
         /\ Brief(unit) /\ hours >= 1 => ~ Deferred(Aged(unit, hours))
         /\ Deferred(Aged(unit, hours)) => Deferred(unit)
         /\ Deferred(unit) => Deferred(Aged(unit, 0))
         /\ Deferred(Aged(unit, hours)) <=> Deferred(Aged(Aged(unit, hours), 0))
         /\ ~ Deferred(unit) => Brief(unit)
<1>1. /\ unit.retry \in Waits \cup {None} /\ unit.hourlyRetry \in Waits \cup {None}
      /\ unit.whole \in BOOLEAN /\ unit.notReached \in Nat
  BY DEF UnitRecord
<1>2. /\ Aged(unit, hours).retry = Left(unit.retry, hours)
      /\ Aged(unit, hours).hourlyRetry = Left(unit.hourlyRetry, hours)
      /\ Aged(unit, hours).whole = unit.whole
      /\ Aged(unit, hours).notReached = unit.notReached
      /\ Aged(unit, 0).retry = Left(unit.retry, 0)
      /\ Aged(unit, 0).hourlyRetry = Left(unit.hourlyRetry, 0)
      /\ Aged(unit, 0).whole = unit.whole
  BY DEF Aged, UnitRecord
<1>3. ASSUME NEW wait \in Waits \cup {None}
      PROVE  /\ Left(wait, hours) \in Waits \cup {None}
             /\ Pending(Left(wait, hours)) => Pending(wait)
             /\ Left(wait, 0) = wait
             /\ wait = None \/ wait <= 1 => Left(wait, hours) = None \/ Left(wait, hours) <= 1
             /\ (wait = None \/ wait <= 1) /\ hours >= 1 => ~ Pending(Left(wait, hours))
             /\ ~ Pending(wait) => wait = None \/ wait <= 1
  BY WaitBounds, NoneIsNothing DEF Left, Waits, Pending
<1>4. Left(Left(unit.retry, hours), 0) = Left(unit.retry, hours)
      /\ Left(Left(unit.hourlyRetry, hours), 0) = Left(unit.hourlyRetry, hours)
  BY <1>1, <1>3
<1>5. /\ Aged(Aged(unit, hours), 0).retry = Left(unit.retry, hours)
      /\ Aged(Aged(unit, hours), 0).hourlyRetry = Left(unit.hourlyRetry, hours)
      /\ Aged(Aged(unit, hours), 0).whole = unit.whole
  BY <1>4 DEF Aged, UnitRecord
<1>6. Left(unit.retry, 0) = unit.retry /\ Left(unit.hourlyRetry, 0) = unit.hourlyRetry
  BY <1>1, <1>3
<1> QED BY <1>1, <1>2, <1>3, <1>5, <1>6 DEF Brief, Deferred

\* Owing keeps every wait and count; a wait not counted yet is brief.
LEMMA OweWaits ==
  ASSUME NEW unit \in UnitRecord, NEW m \in Modes
  PROVE  /\ Owe(unit, m) \in UnitRecord
         /\ Owe(unit, m).notReached = unit.notReached
         /\ Owe(unit, m).whole = unit.whole
         /\ Owe(unit, m).retry = unit.retry
         /\ Owe(unit, m).hourlyRetry = unit.hourlyRetry
         /\ Brief(unit) => Brief(Owe(unit, m))
         /\ Deferred(Owe(unit, m)) <=> Deferred(unit)
<1>1. Owe(unit, m) \in UnitRecord
  BY OweKeeps
<1>2. PICK owed : Owe(unit, m) = [unit EXCEPT !.owed = owed]
  BY DEF Owe, UnitRecord
<1>3. /\ Owe(unit, m).notReached = unit.notReached
      /\ Owe(unit, m).whole = unit.whole
      /\ Owe(unit, m).retry = unit.retry
      /\ Owe(unit, m).hourlyRetry = unit.hourlyRetry
  BY <1>2 DEF UnitRecord
<1> QED BY <1>1, <1>3 DEF Brief, Deferred

\* The first wait is an hour.
LEMMA FirstWait == OneMore(0) = 1 /\ Backoff(1) = 1
<1>1. Doubled[1] = 1
  BY DEF Doubled
<1>2. LongestBackoff \in Nat /\ LongestBackoff >= 1 /\ MostFailures \in 1 .. 6
  BY WaitBounds, UnitAssumption
<1> QED BY <1>1, <1>2 DEF OneMore, Backoff

\* Reaching a unit counts from nothing again, and keeps its waits.
LEMMA ReachedWaits ==
  ASSUME NEW u \in Units, units[u] \in UnitRecord
  PROVE  /\ Reached(u).notReached = 0
         /\ Brief(units[u]) => Brief(Reached(u))
BY DEF Reached, UnitRecord, Brief

\* A wait the first failure brings is brief.
LEMMA WaitWaits ==
  ASSUME NEW unit \in UnitRecord, NEW m \in Modes, NEW whole \in BOOLEAN
  PROVE  /\ Wait(unit, m, whole) \in UnitRecord
         /\ Wait(unit, m, whole).notReached = unit.notReached
         /\ Wait(unit, m, whole).whole = whole
         /\ Wait(unit, m, whole).hourlyRetry = unit.hourlyRetry
         /\ unit.failures = 0 => Wait(unit, m, whole).retry = 1
<1>1. PICK owing \in UnitRecord :
        /\ owing = Owe(unit, m) /\ owing.notReached = unit.notReached
        /\ owing.hourlyRetry = unit.hourlyRetry
  BY OweWaits
<1>2. PICK failures \in 0 .. MostFailures : failures = OneMore(unit.failures) /\ failures >= 1
  BY WaitBounds DEF UnitRecord
<1>3. PICK wait \in Waits : wait = Backoff(failures)
  BY <1>2, WaitBounds
<1>4. Wait(unit, m, whole) = [owing EXCEPT !.failures = failures, !.retry = wait, !.whole = whole]
  BY <1>1, <1>2, <1>3 DEF Wait
<1>5. unit.failures = 0 => wait = 1
  BY <1>2, <1>3, FirstWait
<1> QED BY <1>1, <1>2, <1>3, <1>4, <1>5 DEF UnitRecord

\* What an import or a failure notes leaves the count; of waits not counted
\* before, it leaves brief ones.
LEMMA NotesBrief ==
  ASSUME NEW unit \in UnitRecord, NEW m \in Modes, NEW counts \in BOOLEAN, TellsWaits(unit)
  PROVE  /\ NoteSuccess(unit, m).notReached = unit.notReached
         /\ NoteDegraded(unit, m, counts).notReached = unit.notReached
         /\ NoteFailure(unit, m, counts).notReached = unit.notReached
         /\ Brief(unit) => Brief(NoteSuccess(unit, m))
         /\ ~ counts => Brief(NoteDegraded(unit, m, counts))
         /\ ~ counts /\ Brief(unit) => Brief(NoteFailure(unit, m, counts))
<1>1. PICK counted :
        counted = IF counts THEN unit ELSE [unit EXCEPT !.failures = 0, !.hourlyFailures = 0]
  OBVIOUS
<1>2. /\ counted \in UnitRecord /\ counted.notReached = unit.notReached
      /\ counted.whole = unit.whole /\ counted.retry = unit.retry
      /\ counted.hourlyRetry = unit.hourlyRetry
      /\ ~ counts => counted.failures = 0 /\ counted.hourlyFailures = 0
  <2>1. 0 \in 0 .. MostFailures BY WaitBounds
  <2> QED BY <1>1, <2>1 DEF UnitRecord
<1>3. Brief(unit) => Brief(counted)
  BY <1>2 DEF Brief
<1>4. ASSUME NEW w \in UnitRecord
      PROVE  /\ HourlyOk(w).notReached = w.notReached
             /\ HourlyOk(w).whole = w.whole /\ HourlyOk(w).retry = w.retry
             /\ HourlyOk(w).hourlyRetry = None
             /\ [w EXCEPT !.status = "failed"] \in UnitRecord
             /\ [w EXCEPT !.status = "degraded"] \in UnitRecord
  BY DEF HourlyOk, UnitRecord, Statuses
<1>5. ASSUME NEW whole \in BOOLEAN
      PROVE  /\ Wait(counted, m, whole) \in UnitRecord
             /\ Wait(counted, m, whole).notReached = unit.notReached
             /\ Wait(counted, m, whole).whole = whole
             /\ Wait(counted, m, whole).hourlyRetry = unit.hourlyRetry
             /\ ~ counts => Wait(counted, m, whole).retry = 1
  BY <1>2, WaitWaits
<1>6. /\ NoteSuccess(unit, m).notReached = unit.notReached
      /\ Brief(unit) => Brief(NoteSuccess(unit, m))
  <2>1. CASE Covers(unit, m)
    <3>1. PICK w : w = [unit EXCEPT !.status = "ok", !.failures = 0, !.retry = None,
                                    !.whole = FALSE, !.owed = None]
      OBVIOUS
    <3>2. w \in UnitRecord /\ w.notReached = unit.notReached /\ w.whole = FALSE
      <4>1. 0 \in 0 .. MostFailures BY WaitBounds
      <4> QED BY <3>1, <4>1 DEF UnitRecord, Statuses
    <3>3. NoteSuccess(unit, m) = HourlyOk(w)
      BY <2>1, <3>1 DEF NoteSuccess, Succeed
    <3> QED BY <1>4, <3>2, <3>3 DEF Brief
  <2>2. CASE ~ Covers(unit, m)
    <3>1. PICK w : w = [unit EXCEPT !.status = IF @ = "failed" THEN "degraded" ELSE @]
      OBVIOUS
    <3>2. w \in UnitRecord /\ w.notReached = unit.notReached /\ w.whole = unit.whole
          /\ w.retry = unit.retry
      BY <3>1 DEF UnitRecord, Statuses
    <3>3. NoteSuccess(unit, m) = HourlyOk(w)
      BY <2>2, <3>1 DEF NoteSuccess, RecoverHourly
    <3> QED BY <1>4, <3>2, <3>3 DEF Brief
  <2> QED BY <2>1, <2>2
<1>7. /\ NoteDegraded(unit, m, counts).notReached = unit.notReached
      /\ Brief(NoteDegraded(unit, m, counts))
  <2>1. PICK w \in UnitRecord : w = Wait(counted, m, FALSE) /\ w.whole = FALSE
                                /\ w.notReached = unit.notReached
    BY <1>5
  <2>2. PICK v \in UnitRecord : v = [w EXCEPT !.status = "degraded"]
    BY <1>4
  <2>3. v.whole = FALSE /\ v.notReached = unit.notReached
    BY <2>1, <2>2 DEF UnitRecord
  <2>4. NoteDegraded(unit, m, counts) = HourlyOk(v)
    BY <1>1, <2>1, <2>2 DEF NoteDegraded, Degrade
  <2> QED BY <1>4, <2>3, <2>4 DEF Brief
<1>8. /\ NoteFailure(unit, m, counts).notReached = unit.notReached
      /\ ~ counts /\ Brief(unit) => Brief(NoteFailure(unit, m, counts))
  <2>1. NoteFailure(unit, m, counts) =
          IF ~ HourlyGoesOn(counted) THEN Fail(counted, m)
          ELSE IF m = "tip" THEN FailHourly(counted) ELSE DeferReconciliation(counted, m)
    BY <1>1 DEF NoteFailure
  <2>2. /\ Fail(counted, m).notReached = unit.notReached
        /\ ~ counts => Brief(Fail(counted, m))
    <3>1. PICK w \in UnitRecord : /\ w = Wait(counted, m, TRUE)
                                  /\ w.notReached = unit.notReached
                                  /\ ~ counts => w.retry = 1
      BY <1>5
    <3>2. PICK v \in UnitRecord : v = [w EXCEPT !.status = "failed"]
      BY <1>4
    <3>3. v.retry = w.retry /\ v.notReached = unit.notReached
      BY <3>1, <3>2 DEF UnitRecord
    <3>4. Fail(counted, m) = HourlyOk(v)
      BY <3>1, <3>2 DEF Fail
    <3>5. PICK x : x = HourlyOk(v)
      OBVIOUS
    <3>6. /\ x.notReached = unit.notReached /\ x.retry = w.retry /\ x.hourlyRetry = None
      BY <1>4, <3>3, <3>5
    <3>7. ASSUME ~ counts PROVE Brief(x)
      <4>1. x.retry = 1 BY <3>1, <3>6, <3>7
      <4>2. x.retry <= 1 BY <4>1
      <4> QED BY <3>6, <4>2 DEF Brief
    <3> QED BY <3>4, <3>5, <3>6, <3>7
  <2>3. /\ FailHourly(counted).notReached = unit.notReached
        /\ ~ counts /\ Brief(counted) => Brief(FailHourly(counted))
    <3>1. PICK failures \in 0 .. MostFailures : failures = OneMore(counted.hourlyFailures)
                                                /\ failures >= 1
      BY <1>2, WaitBounds DEF UnitRecord
    <3>2. PICK wait \in Waits : wait = Backoff(failures)
      BY <3>1, WaitBounds
    <3>3. ~ counts => wait = 1
      BY <1>2, <3>1, <3>2, FirstWait
    <3>4. FailHourly(counted) = [counted EXCEPT !.hourlyFailures = failures,
                                   !.hourlyRetry = wait, !.status = "failed"]
      BY <3>1, <3>2 DEF FailHourly
    <3> QED BY <1>2, <3>3, <3>4 DEF Brief, UnitRecord
  <2>4. /\ DeferReconciliation(counted, m).notReached = unit.notReached
        /\ Brief(counted) => Brief(DeferReconciliation(counted, m))
    <3>1. PICK w \in UnitRecord : /\ w = Wait(counted, m, FALSE) /\ w.whole = FALSE
                                  /\ w.notReached = unit.notReached
                                  /\ w.hourlyRetry = counted.hourlyRetry
      BY <1>2, <1>5
    <3> QED BY <3>1 DEF DeferReconciliation, Brief
  <2> QED BY <1>3, <2>1, <2>2, <2>3, <2>4
<1> QED BY <1>6, <1>7, <1>8

\* A plan counts nobody, and makes no wait.
LEMMA PlannedWaits ==
  ASSUME IInv, NEW requested \in Modes, NEW u \in Units
  PROVE  /\ PlannedUnit(u, requested).notReached = units[u].notReached
         /\ Brief(units[u]) => Brief(PlannedUnit(u, requested))
         /\ Deferred(PlannedUnit(u, requested)) <=> Deferred(units[u])
<1>1. units[u] \in UnitRecord
  BY UnitFacts
<1>2. DirectionMode(u, requested) \in Modes /\ PlannedMode(u, requested) \in Modes
  BY UnitFacts, PlannedKeeps, ModesAsked
<1>3. PICK part : part = IF WaitsInPart(u) THEN Owe(units[u], DirectionMode(u, requested))
                         ELSE units[u]
  OBVIOUS
<1>4. /\ part \in UnitRecord /\ part.notReached = units[u].notReached
      /\ Brief(units[u]) => Brief(part)
      /\ Deferred(part) <=> Deferred(units[u])
  BY <1>1, <1>2, <1>3, OweWaits
<1>5. PlannedUnit(u, requested) = IF WaitsWhole(u) THEN Owe(part, PlannedMode(u, requested))
                                  ELSE part
  BY <1>3 DEF PlannedUnit
<1> QED BY <1>2, <1>4, <1>5, OweWaits

-------------------------------------------------------------------------------
(***************************************************************************)
(* Every step keeps the turns.                                             *)
(***************************************************************************)

\* A plan counts nobody: each unit it runs may come to count once more.
LEMMA PlanTurns ==
  ASSUME IInv, IInv', TInv, NEW requested \in Modes, Plan(requested),
         phase' = "syncing", complete' = complete
  PROVE  /\ Waiting'
         /\ \A u \in Units :
              /\ units'[u].notReached = units[u].notReached
              /\ walk'[u] \in {"none", "planned"}
              /\ outcome'[u] # None => walk'[u] = "none"
              /\ Held(u)' => units[u].notReached > 0 /\ complete /\ Deferred(units[u])
<1>1. ASSUME NEW u \in Units
      PROVE  /\ units'[u] = PlannedUnit(u, requested)
             /\ walk'[u] = IF complete /\ Deferred(units[u]) THEN "none" ELSE "planned"
             /\ outcome'[u] = IF complete /\ Deferred(units[u]) THEN "deferred" ELSE None
  BY DEF Plan, WaitsWhole
<1>2. ASSUME NEW u \in Units
      PROVE  /\ units'[u].notReached = units[u].notReached
             /\ Brief(units[u]) => Brief(units'[u])
             /\ Deferred(units'[u]) <=> Deferred(units[u])
  BY <1>1, PlannedWaits
<1>3. ASSUME NEW u \in Units, ~ complete' \/ units'[u].notReached > 0
      PROVE  Brief(units'[u])
  BY <1>2, <1>3 DEF TInv, Waiting
<1>4. ASSUME NEW u \in Units, complete', walk'[u] # "none"
      PROVE  ~ Deferred(units'[u])
  BY <1>1, <1>2, <1>4
<1>5. Waiting'
  BY <1>3, <1>4 DEF Waiting
<1> QED BY <1>1, <1>2, <1>5 DEF Held

\* An update starts.
LEMMA StartTurns ==
  ASSUME IInv, IInv', TInv, StartSync
  PROVE  TInv'
<1>1. /\ phase = "ready" /\ phase' = "syncing" /\ Plan(SyncMode) /\ complete' = complete
      /\ sent' = sent /\ cooling' = cooling /\ used' = used
  BY DEF StartSync, cadence
<1>2. SyncMode \in Modes
  BY ModesAsked, SyncAssumption DEF Modes
<1>3. /\ Waiting'
      /\ \A u \in Units :
           /\ units'[u].notReached = units[u].notReached
           /\ walk'[u] \in {"none", "planned"}
           /\ outcome'[u] # None => walk'[u] = "none"
           /\ Held(u)' => units[u].notReached > 0 /\ complete /\ Deferred(units[u])
  BY <1>1, <1>2, PlanTurns
<1>4. ~ sent /\ due = 0 /\ cooling = {} /\ \A u \in Units : walk[u] = "none"
  BY <1>1 DEF TInv, Course
<1>5. Course'
  BY <1>1, <1>3, <1>4 DEF Course
<1>6. PICK a \in Nat : a = Slack /\ a = Slack'
  BY <1>1, CountsAre DEF Slack
<1>7. PICK c \in [Units -> Nat] : c = AtMost /\ c = Leaves
  BY <1>4, CountsAre
<1>8. PICK d \in [Units -> Nat] : d = AtMost'
  BY CountsAre
<1>9. PICK l \in [Units -> Nat] : l = Leaves'
  BY CountsAre
<1>10. \A u \in Units : l[u] = c[u] /\ d[u] <= c[u] + 1
  BY <1>1, <1>3, <1>4, <1>7, <1>8, <1>9, CountsAre
<1>11. Spread(c, a)
  BY <1>6, <1>7 DEF TInv, Turns
<1>12. Spread(l, a)
  BY <1>10, <1>11, SpreadOn
<1>13. Spread(d, a + 1)
  BY <1>10, <1>11, SpreadOn
<1>14. ASSUME NEW u \in Units, Held(u)'
       PROVE  Spread(d, a)
  <2>1. units[u] \in UnitRecord /\ units[u].notReached > 0 /\ complete /\ Deferred(units[u])
    BY <1>3, <1>14, UnitFacts
  <2>2. Held(u)
    BY <1>1, <1>4, <2>1, AgedWaits DEF Held
  <2>3. Spread(c, a - 1)
    BY <1>1, <1>6, <1>7, <2>2 DEF TInv, Turns
  <2>4. a - 1 \in Int /\ \A v \in Units : d[v] + (a - 1) <= c[v] + a
    BY <1>10
  <2> QED BY <2>3, <2>4, SpreadOn
<1>15. Turns'
  BY <1>1, <1>6, <1>8, <1>9, <1>12, <1>13, <1>14 DEF Turns
<1> QED BY <1>3, <1>5, <1>15 DEF TInv

\* An update planned again may reach nobody first: a slack of two.
LEMMA ReplanTurns ==
  ASSUME IInv, IInv', TInv, Replan
  PROVE  TInv'
<1>1. /\ phase = "syncing" /\ phase' = "syncing" /\ Plan(mode) /\ complete' = complete
      /\ sent' = TRUE /\ Use("replans")
  BY DEF Replan, cadence
<1>2. mode \in Modes /\ UsedTypes
  BY <1>1, TypeParts DEF IInv, RunTypes
<1>3. /\ Waiting'
      /\ \A u \in Units :
           /\ units'[u].notReached = units[u].notReached
           /\ walk'[u] \in {"none", "planned"}
           /\ outcome'[u] # None => walk'[u] = "none"
           /\ Held(u)' => units[u].notReached > 0 /\ complete /\ Deferred(units[u])
  BY <1>1, <1>2, PlanTurns
<1>4. Course'
  BY <1>1, <1>3 DEF Course
<1>5. PICK a \in Nat : a = Slack /\ a + 2 = Slack'
  <2>1. DOMAIN Bounds = {"faults", "late", "aborts", "replans", "reloads"}
    BY DEF Bounds
  <2>2. used'["replans"] = used["replans"] + 1 /\ used'["aborts"] = used["aborts"]
        /\ used["replans"] \in Nat /\ used["aborts"] \in Nat
    BY <1>1, <1>2, <2>1 DEF Use, UsedTypes
  <2> QED BY <2>2 DEF Slack
<1>6. PICK c \in [Units -> Nat] : c = AtMost
  BY CountsAre
<1>7. PICK d \in [Units -> Nat] : d = AtMost'
  BY CountsAre
<1>8. PICK l \in [Units -> Nat] : l = Leaves'
  BY CountsAre
<1>9. \A u \in Units : l[u] <= c[u] + 1 /\ d[u] <= c[u] + 1
  BY <1>3, <1>6, <1>7, <1>8, CountsAre
<1>10. Spread(c, a + 1)
  BY <1>5, <1>6 DEF TInv, Turns
<1>11. /\ a + 1 \in Int /\ a + 2 \in Int /\ a + 3 \in Int
       /\ \A u \in Units : /\ l[u] + (a + 1) <= c[u] + (a + 2)
                           /\ d[u] + (a + 1) <= c[u] + (a + 2)
                           /\ d[u] + (a + 1) <= c[u] + (a + 3)
  BY <1>9
<1>12. Spread(l, a + 2)
  BY <1>10, <1>11, SpreadOn
<1>13. Spread(d, a + 2)
  BY <1>10, <1>11, SpreadOn
<1>14. Spread(d, a + 3)
  BY <1>10, <1>11, SpreadOn
<1>15. Turns'
  <2>1. (a + 2) + 1 = a + 3 OBVIOUS
  <2> QED BY <1>1, <1>5, <1>7, <1>8, <1>12, <1>13, <1>14, <2>1 DEF Turns
<1> QED BY <1>3, <1>4, <1>15 DEF TInv

\* A unit's newest window: the first of an update is of a unit passed over most.
LEMMA NewestTurns ==
  ASSUME IInv, IInv', TInv, NEW u \in Units, Newly(u)
  PROVE  TInv'
<1>1. /\ phase = "syncing" /\ phase' = "syncing" /\ UNCHANGED <<units, complete, outcome, due>>
      /\ u \in Ready /\ walk[u] = "planned"
      /\ \A v \in Ready : units[v].notReached <= units[u].notReached
      /\ sent' = TRUE \/ (sent /\ sent' = sent)
  BY DEF Newly, ReachNewest, NewestFails, NewestTooLate, Newest, Ready, cadence
<1>2. PICK far \in {"begun", "failed", "late"} :
        walk' = [walk EXCEPT ![u] = far] /\ (far = "late" => sent)
  BY DEF Newly, ReachNewest, NewestFails, NewestTooLate
<1>3. UsedTypes /\ walk \in [Units -> Walks] /\ sent \in BOOLEAN
  BY TypeParts DEF IInv, RunTypes
<1>4. /\ walk'[u] = far
      /\ \A v \in Units : v # u => walk'[v] = walk[v]
  BY <1>2, <1>3
<1>5. sent'
  BY <1>1
<1>6. Slack' = Slack
  <2>1. UNCHANGED used \/ Use("faults") \/ Use("late")
    BY DEF Newly, ReachNewest, NewestFails, NewestTooLate
  <2>2. used'["replans"] = used["replans"] /\ used'["aborts"] = used["aborts"]
    BY <1>3, <2>1 DEF Use, UsedTypes, Bounds
  <2> QED BY <2>2 DEF Slack
<1>7. Course'
  BY <1>1, <1>4, <1>5 DEF TInv, Course
<1>8. Waiting'
  BY <1>1, <1>4 DEF TInv, Waiting
<1>9. \A v \in Units : AtMost'[v] = AtMost[v]
  BY <1>1, <1>2, <1>4, CountsAre
<1>10. \A v \in Units : Held(v)' => Held(v)
  BY <1>1, <1>2, <1>4 DEF Held
<1>11. CASE sent
  <2>1. \A v \in Units : Leaves'[v] <= Leaves[v]
    BY <1>1, <1>2, <1>4, <1>5, <1>9, <1>11, CountsAre
  <2>2. \A v \in Units : AtMost'[v] <= AtMost[v]
    BY <1>9, CountsAre
  <2>3. Turns'
    BY <1>1, <1>6, <1>10, <2>1, <2>2, TurnsOn DEF TInv
  <2> QED BY <1>7, <1>8, <2>3 DEF TInv
<1>12. CASE ~ sent
  <2>1. /\ cooling = {} /\ \A v \in Units : walk[v] \in {"none", "planned"}
        /\ \A v \in Units : walk[v] = "planned" => v \in Ready
        /\ walk'[u] \in {"begun", "failed"}
    BY <1>2, <1>4, <1>12 DEF TInv, Course, Ready
  <2>2. PICK a \in Nat : a = Slack /\ a = Slack'
    BY <1>6, CountsAre
  <2>3. PICK c \in [Units -> Nat] : c = Leaves
    BY CountsAre
  <2>4. PICK d \in [Units -> Nat] : d = Leaves'
    BY CountsAre
  <2>5. PICK m \in [Units -> Nat] : m = AtMost /\ m = AtMost'
    BY <1>9, CountsAre
  <2>6. /\ d[u] = 0
        /\ \A v \in Units : c[v] = units[v].notReached
        /\ \A v \in Units : d[v] <= m[v]
        /\ \A v \in Units : v # u => d[v] = m[v]
        /\ \A v \in Units : m[v] = IF walk[v] = "none" THEN c[v] ELSE c[v] + 1
    BY <1>1, <1>4, <1>5, <1>12, <2>1, <2>3, <2>4, <2>5, CountsAre
  <2>7. Spread(d, a)
    <3>1. CASE \E v \in Units : Held(v)
      <4>1. Spread(m, a) BY <1>1, <2>2, <2>5, <3>1 DEF TInv, Turns
      <4>2. \A v \in Units : d[v] + a <= m[v] + a BY <2>6
      <4> QED BY <4>1, <4>2, SpreadOn
    <3>2. CASE ~ \E v \in Units : Held(v)
      <4>1. \A v \in Units : walk[v] = "none" => c[v] = 0
        BY <1>1, <2>6, <3>2 DEF Held
      <4>2. \A v \in Units : d[v] = 0 \/ (d[v] <= c[v] + 1 /\ c[v] <= c[u])
        BY <1>1, <2>1, <2>6, <4>1
      <4>3. Spread(c, a) BY <2>2, <2>3 DEF TInv, Turns
      <4> QED BY <2>6, <4>2, <4>3, SpreadFirst
    <3> QED BY <3>1, <3>2
  <2>8. Turns'
    <3>1. Spread(m, a + 1) /\ ((\E v \in Units : Held(v)) => Spread(m, a))
      BY <1>1, <2>2, <2>5 DEF TInv, Turns
    <3> QED BY <1>1, <1>10, <2>2, <2>4, <2>5, <2>7, <3>1 DEF Turns
  <2> QED BY <1>7, <1>8, <2>8 DEF TInv
<1> QED BY <1>3, <1>11, <1>12

\* How a unit's end counts it: from nothing, or, not reached, once more.
LEMMA FinishCounts ==
  ASSUME IInv, NEW u \in Units, Finishes(u)
  PROVE  \/ /\ units'[u].notReached = 0
            /\ ~ complete /\ Brief(units[u]) => Brief(units'[u])
         \/ /\ walk[u] \in {"late", "planned"}
            /\ units'[u].notReached = units[u].notReached + 1
            /\ Brief(units[u]) => Brief(units'[u])
            /\ Deferred(units'[u]) <=> Deferred(units[u])
<1>1. Walking(u) /\ complete \in BOOLEAN /\ units \in [Units -> UnitRecord]
  BY TypeParts
     DEF Finishes, FinishAll, FinishNewer, FinishNone, FinishLate, IInv, CadenceTypes, UnitTypes
<1>2. unitMode[u] \in Modes /\ units[u] \in UnitRecord /\ TellsWaits(units[u])
  BY <1>1, WalkingFacts
<1>3. PICK reached \in UnitRecord :
        /\ reached = Reached(u) /\ TellsWaits(reached) /\ reached.notReached = 0
        /\ Brief(units[u]) => Brief(reached)
  BY <1>2, ReachedKeeps, ReachedWaits
<1>4. \A unit : units' = [units EXCEPT ![u] = unit] => units'[u] = unit
  BY <1>1
<1>5. CASE FinishAll(u)
  <2>1. units'[u] = NoteSuccess(reached, unitMode[u])
    BY <1>3, <1>4, <1>5 DEF FinishAll, Finish
  <2> QED BY <1>1, <1>2, <1>3, <2>1, NotesBrief
<1>6. CASE FinishNewer(u)
  <2>1. units'[u] = NoteDegraded(reached, unitMode[u], complete)
    BY <1>3, <1>4, <1>6 DEF FinishNewer, Finish
  <2> QED BY <1>1, <1>2, <1>3, <2>1, NotesBrief
<1>7. CASE FinishNone(u)
  <2>1. units'[u] = NoteFailure(reached, unitMode[u], complete)
    BY <1>3, <1>4, <1>7 DEF FinishNone, Finish
  <2> QED BY <1>1, <1>2, <1>3, <2>1, NotesBrief
<1>8. CASE FinishLate(u)
  <2>1. PICK owing \in UnitRecord :
          /\ owing = Owe(units[u], unitMode[u])
          /\ owing.notReached = units[u].notReached
          /\ Brief(units[u]) => Brief(owing)
          /\ Deferred(owing) <=> Deferred(units[u])
    BY <1>2, OweWaits
  <2>2. units'[u] = [owing EXCEPT !.notReached = @ + 1]
    BY <1>4, <1>8, <2>1 DEF FinishLate, Finish
  <2>3. /\ units'[u].notReached = owing.notReached + 1
        /\ units'[u].whole = owing.whole /\ units'[u].retry = owing.retry
        /\ units'[u].hourlyRetry = owing.hourlyRetry
    BY <2>2 DEF UnitRecord
  <2>4. /\ Brief(owing) => Brief(units'[u])
        /\ Deferred(units'[u]) <=> Deferred(owing)
    BY <2>3 DEF Brief, Deferred
  <2>5. walk[u] \in {"late", "planned"}
    BY <1>8 DEF FinishLate
  <2> QED BY <2>1, <2>3, <2>4, <2>5
<1> QED BY <1>5, <1>6, <1>7, <1>8 DEF Finishes

\* A unit that ends counts as it could at most.
LEMMA FinishTurns ==
  ASSUME IInv, IInv', TInv, NEW u \in Units, Finishes(u)
  PROVE  TInv'
<1>1. /\ Walking(u) /\ UNCHANGED <<phase, due, complete, cooling>>
      /\ walk' = [walk EXCEPT ![u] = "done"]
      /\ \E how : outcome' = [outcome EXCEPT ![u] = how]
      /\ \E unit : units' = [units EXCEPT ![u] = unit]
      /\ sent' = TRUE \/ sent' = sent
      /\ UNCHANGED used \/ Use("faults") \/ Use("late")
  BY DEF Finishes, FinishAll, FinishNewer, FinishNone, FinishLate, Finish, cadence
<1>2. /\ UsedTypes /\ walk \in [Units -> Walks] /\ sent \in BOOLEAN /\ complete \in BOOLEAN
      /\ units \in [Units -> UnitRecord] /\ outcome \in [Units -> Outcomes]
  BY TypeParts DEF IInv, RunTypes, UnitTypes, CadenceTypes
<1>3. /\ phase = "syncing" /\ walk[u] \notin {"none", "done"} /\ Ready = {}
      /\ walk'[u] = "done"
      /\ \A v \in Units : v # u => /\ walk'[v] = walk[v] /\ outcome'[v] = outcome[v]
                                   /\ units'[v] = units[v]
  BY <1>1, <1>2 DEF Walking
<1>4. sent /\ sent'
  BY <1>1, <1>3 DEF TInv, Course, Ready
<1>5. Slack' = Slack
  <2>1. used'["replans"] = used["replans"] /\ used'["aborts"] = used["aborts"]
    BY <1>1, <1>2 DEF Use, UsedTypes, Bounds
  <2> QED BY <2>1 DEF Slack
<1>6. \/ /\ units'[u].notReached = 0
         /\ ~ complete /\ Brief(units[u]) => Brief(units'[u])
      \/ /\ walk[u] \in {"late", "planned"}
         /\ units'[u].notReached = units[u].notReached + 1
         /\ Brief(units[u]) => Brief(units'[u])
         /\ Deferred(units'[u]) <=> Deferred(units[u])
  BY FinishCounts
<1>7. units[u].notReached \in Nat /\ units[u] \in UnitRecord
  BY <1>2 DEF UnitRecord
<1>8. Course'
  <2>1. phase' = "syncing" BY <1>1, <1>3
  <2>2. \A v \in Units : outcome'[v] # None => walk'[v] \in {"none", "done"}
    BY <1>3 DEF TInv, Course
  <2> QED BY <1>4, <2>1, <2>2 DEF Course
<1>9. Waiting'
  <2>1. ASSUME NEW v \in Units, ~ complete' \/ units'[v].notReached > 0
        PROVE  Brief(units'[v])
    <3>1. CASE v # u
      BY <1>1, <1>3, <2>1, <3>1 DEF TInv, Waiting
    <3>2. CASE v = u
      <4>1. CASE ~ complete
        BY <1>6, <3>2, <4>1 DEF TInv, Waiting
      <4>2. CASE complete
        <5>1. walk[u] \in {"late", "planned"} /\ (Brief(units[u]) => Brief(units'[u]))
          BY <1>1, <1>6, <2>1, <3>2, <4>2
        <5>2. ~ Deferred(units[u])
          BY <1>3, <4>2, <5>1 DEF TInv, Waiting
        <5>3. Brief(units[u])
          BY <1>7, <5>2, AgedWaits
        <5> QED BY <3>2, <5>1, <5>3
      <4> QED BY <4>1, <4>2
    <3> QED BY <3>1, <3>2
  <2>2. ASSUME NEW v \in Units, complete'
        PROVE  \/ walk'[v] = "none" \/ ~ Deferred(units'[v])
               \/ walk'[v] = "done" /\ units'[v].notReached = 0
    <3>1. CASE v # u
      BY <1>1, <1>3, <2>2, <3>1 DEF TInv, Waiting
    <3>2. CASE v = u /\ units'[u].notReached # 0
      <4>1. walk[u] \in {"late", "planned"} /\ (Deferred(units'[u]) <=> Deferred(units[u]))
        BY <1>6, <3>2
      <4>2. ~ Deferred(units[u])
        BY <1>1, <1>3, <2>2, <4>1 DEF TInv, Waiting
      <4> QED BY <3>2, <4>1, <4>2
    <3>3. CASE v = u /\ units'[u].notReached = 0
      BY <1>3, <3>3
    <3> QED BY <3>1, <3>2, <3>3
  <2> QED BY <2>1, <2>2 DEF Waiting
<1>10. \A v \in Units : Leaves'[v] <= Leaves[v] /\ AtMost'[v] <= AtMost[v]
  <2>1. ASSUME NEW v \in Units, v # u
        PROVE  Leaves'[v] <= Leaves[v] /\ AtMost'[v] <= AtMost[v]
    <3>1. AtMost'[v] = AtMost[v] /\ Leaves'[v] = Leaves[v]
      BY <1>3, <1>4, <2>1, CountsAre
    <3> QED BY <3>1, CountsAre
  <2>2. AtMost'[u] = units'[u].notReached /\ Leaves'[u] = units'[u].notReached
    BY <1>3, <1>4, CountsAre
  <2>3. AtMost[u] = units[u].notReached + 1
    BY <1>3, CountsAre
  <2>4. Leaves[u] \in Nat /\ (walk[u] \in {"late", "planned"} => Leaves[u] = AtMost[u])
    BY <1>4, CountsAre
  <2>5. Leaves'[u] <= Leaves[u] /\ AtMost'[u] <= AtMost[u]
    BY <1>6, <1>7, <2>2, <2>3, <2>4
  <2> QED BY <2>1, <2>5
<1>11. \A v \in Units : Held(v)' => Held(v)
  BY <1>1, <1>3 DEF Held
<1>12. Turns'
  BY <1>1, <1>5, <1>10, <1>11, TurnsOn DEF TInv
<1> QED BY <1>8, <1>9, <1>12 DEF TInv

\* A cooldown passes only once something went out.
LEMMA CooldownTurns ==
  ASSUME IInv, IInv', TInv, CooldownPasses
  PROVE  TInv'
<1>1. /\ UNCHANGED <<phase, due, units, complete, walk, outcome, sent, used>>
      /\ cooling # {}
  BY DEF CooldownPasses, cadence
<1>2. Course' /\ Waiting'
  BY <1>1 DEF TInv, Course, Waiting
<1>3. Slack' = Slack
  BY <1>1 DEF Slack
<1>4. \A v \in Units : Leaves'[v] <= Leaves[v] /\ AtMost'[v] <= AtMost[v]
  <2>1. \A v \in Units : Leaves'[v] = Leaves[v] /\ AtMost'[v] = AtMost[v]
    BY <1>1, CountsAre
  <2> QED BY <2>1, CountsAre
<1>5. \A v \in Units : Held(v)' => Held(v)
  BY <1>1 DEF Held
<1>6. Turns'
  BY <1>1, <1>3, <1>4, <1>5, TurnsOn DEF TInv
<1> QED BY <1>2, <1>6 DEF TInv

\* A step that changes nothing.
LEMMA StutterTurns ==
  ASSUME IInv, IInv', TInv, UNCHANGED vars
  PROVE  TInv'
<1>1. UNCHANGED <<phase, due, units, complete, walk, outcome, sent, cooling, used>>
  BY DEF vars, run, cadence
<1>2. Course' /\ Waiting'
  BY <1>1 DEF TInv, Course, Waiting
<1>3. Slack' = Slack
  BY <1>1 DEF Slack
<1>4. \A v \in Units : Leaves'[v] <= Leaves[v] /\ AtMost'[v] <= AtMost[v]
  <2>1. \A v \in Units : Leaves'[v] = Leaves[v] /\ AtMost'[v] = AtMost[v]
    BY <1>1, CountsAre
  <2> QED BY <2>1, CountsAre
<1>5. \A v \in Units : Held(v)' => Held(v)
  BY <1>1 DEF Held
<1>6. Turns'
  BY <1>1, <1>3, <1>4, <1>5, TurnsOn DEF TInv
<1> QED BY <1>2, <1>6 DEF TInv

\* The wait until an update passes, and the units' waits with it.
LEMMA TimeTurns ==
  ASSUME IInv, IInv', TInv, TimePasses
  PROVE  TInv'
<1>1. /\ phase = "waiting" /\ phase' = "ready" /\ due' = 0
      /\ units' = [u \in Units |-> Aged(units[u], due)]
      /\ UNCHANGED <<complete, walk, outcome, sent, cooling, used>>
  BY DEF TimePasses, run
<1>2. due \in Nat /\ \A u \in Units : units[u] \in UnitRecord
  BY UnitFacts, TypeParts DEF IInv, TimingTypes
<1>3. \A u \in Units : /\ units'[u].notReached = units[u].notReached
                       /\ Brief(units[u]) => Brief(units'[u])
                       /\ Deferred(Aged(units'[u], 0)) => Deferred(Aged(units[u], due))
  BY <1>1, <1>2, AgedWaits
<1>4. Course' /\ Waiting'
  BY <1>1, <1>3 DEF TInv, Course, Waiting
<1>5. Slack' = Slack
  BY <1>1 DEF Slack
<1>6. \A v \in Units : Leaves'[v] <= Leaves[v] /\ AtMost'[v] <= AtMost[v]
  <2>1. \A v \in Units : Leaves'[v] = Leaves[v] /\ AtMost'[v] = AtMost[v]
    BY <1>1, <1>3, CountsAre
  <2> QED BY <2>1, CountsAre
<1>7. \A v \in Units : Held(v)' => Held(v)
  BY <1>1, <1>3 DEF Held
<1>8. Turns'
  BY <1>1, <1>5, <1>6, <1>7, TurnsOn DEF TInv
<1> QED BY <1>4, <1>8 DEF TInv

\* An update that ended, and the next one an hour away: nobody waits who was
\* passed over.
LEMMA TurnsEnd ==
  ASSUME IInv, IInv', TInv, phase = "syncing", phase' # "syncing", Slack' = Slack, Course',
         \A u \in Units : units'[u].notReached = units[u].notReached,
         \A u \in Units : walk[u] \in {"none", "done"},
         \A u \in Units : ~ Held(u)'
  PROVE  Turns'
<1>1. PICK a \in Nat : a = Slack /\ a = Slack'
  BY CountsAre
<1>2. PICK c \in [Units -> Nat] : c = Leaves
  BY CountsAre
<1>3. PICK d \in [Units -> Nat] : d = AtMost' /\ d = Leaves'
  <2>1. \A u \in Units : AtMost'[u] = Leaves'[u]
    BY CountsAre DEF Course
  <2> QED BY <2>1, CountsAre
<1>4. \A u \in Units : d[u] = c[u]
  BY <1>2, <1>3, CountsAre DEF Course
<1>5. Spread(c, a)
  BY <1>1, <1>2 DEF TInv, Turns
<1>6. Spread(d, a)
  <2>1. a \in Int /\ \A u \in Units : d[u] + a <= c[u] + a BY <1>4
  <2> QED BY <1>5, <2>1, SpreadOn
<1>7. Spread(d, a + 1)
  <2>1. a + 1 \in Int /\ \A u \in Units : d[u] + a <= c[u] + (a + 1) BY <1>4
  <2> QED BY <1>5, <2>1, SpreadOn
<1> QED BY <1>1, <1>3, <1>6, <1>7 DEF Turns

\* Nobody who was passed over waits for an hour or longer.
LEMMA NotHeld ==
  ASSUME IInv, IInv', TInv, NEW u \in Units, phase' # "syncing", units' = units,
         complete' => due' >= 1
  PROVE  ~ Held(u)'
<1> SUFFICES ASSUME units[u].notReached > 0, complete', Deferred(Aged(units[u], due'))
             PROVE  FALSE
  BY DEF Held
<1>1. Brief(units[u])
  BY DEF TInv, Waiting
<1>2. units[u] \in UnitRecord /\ due' \in Nat
  BY UnitFacts, TypeParts DEF IInv, TimingTypes
<1> QED BY <1>1, <1>2, AgedWaits

\* An abort is one more.
LEMMA AbortSlack ==
  ASSUME IInv, Use("aborts")
  PROVE  Slack' = Slack + 1
<1>1. UsedTypes
  BY TypeParts DEF IInv
<1>2. used'["replans"] = used["replans"] /\ used'["aborts"] = used["aborts"] + 1
      /\ used["replans"] \in Nat /\ used["aborts"] \in Nat
  BY <1>1 DEF Use, UsedTypes, Bounds
<1> QED BY <1>2 DEF Slack

\* Any other bound leaves the slack.
LEMMA OtherSlack ==
  ASSUME IInv, UNCHANGED used \/ Use("faults") \/ Use("reloads")
  PROVE  Slack' = Slack
<1>1. UsedTypes
  BY TypeParts DEF IInv
<1>2. used'["replans"] = used["replans"] /\ used'["aborts"] = used["aborts"]
  BY <1>1 DEF Use, UsedTypes, Bounds
<1> QED BY <1>2 DEF Slack

\* Every way an update fails.
LEMMA FailTurns ==
  ASSUME IInv, IInv', TInv, RateLimited \/ Rejected \/ NotStarted \/ EndFails
  PROVE  TInv'
<1>1. /\ NoRun /\ phase' \in {"waiting", "rejected"} /\ units' = units /\ complete' = complete
      /\ phase \in {"ready", "syncing"}
  BY DEF RateLimited, Rejected, NotStarted, EndFails, Failing, Ends, Ended, cadence
<1>2. Course'
  BY <1>1 DEF NoRun, Course
<1>3. Waiting'
  BY <1>1 DEF TInv, Waiting
<1>4. \A u \in Units : units'[u].notReached = units[u].notReached
  BY <1>1
<1>5. CASE RateLimited \/ Rejected
  <2>1. Slack' = Slack + 1
    BY <1>5, AbortSlack DEF RateLimited, Rejected
  <2>2. \/ \A u \in Units : Held(u)' => Held(u)
        \/ phase = "ready" \/ \A u \in Units : walk[u] \in {"none", "done"}
    <3> SUFFICES ASSUME phase = "syncing", NEW u \in Units, Held(u)'
                 PROVE  Held(u)
      BY <1>1
    <3>1. units[u].notReached > 0 /\ complete /\ Deferred(Aged(units[u], due'))
      BY <1>1 DEF Held
    <3>2. units[u] \in UnitRecord /\ due' \in Nat
      BY UnitFacts, TypeParts DEF IInv, TimingTypes
    <3>3. Deferred(units[u])
      BY <3>1, <3>2, AgedWaits
    <3> QED BY <3>1, <3>2, <3>3 DEF TInv, Waiting, Held, UnitRecord
  <2>3. Turns'
    BY <1>1, <1>2, <1>4, <2>1, <2>2, TurnsCut
  <2> QED BY <1>2, <1>3, <2>3 DEF TInv
<1>6. CASE NotStarted
  <2>1. phase = "ready" /\ Slack' = Slack /\ (complete' => due' >= 1)
    BY <1>1, <1>6, OtherSlack DEF NotStarted, FirstSyncRetry
  <2>2. \A u \in Units : ~ Held(u)'
    BY <1>1, <2>1, NotHeld
  <2>3. \A v \in Units : Leaves'[v] <= Leaves[v] /\ AtMost'[v] <= AtMost[v]
    <3>1. \A v \in Units : Leaves'[v] = Leaves[v] /\ AtMost'[v] = AtMost[v]
      BY <1>1, <1>2, <1>4, <2>1, CountsAre DEF TInv, Course
    <3> QED BY <3>1, CountsAre
  <2>4. Turns'
    BY <1>1, <2>1, <2>2, <2>3, TurnsOn DEF TInv
  <2> QED BY <1>2, <1>3, <2>4 DEF TInv
<1>7. CASE EndFails
  <2>1. /\ phase = "syncing" /\ Slack' = Slack /\ (complete' => due' >= 1)
        /\ \A u \in Units : outcome[u] # None
    BY <1>1, <1>7, OtherSlack DEF EndFails, Ended, FirstSyncRetry
  <2>2. \A u \in Units : walk[u] \in {"none", "done"}
    BY <2>1 DEF TInv, Course
  <2>3. \A u \in Units : ~ Held(u)'
    BY <1>1, <2>1, NotHeld
  <2>4. Turns'
    BY <1>1, <1>2, <1>4, <2>1, <2>2, <2>3, TurnsEnd
  <2> QED BY <1>2, <1>3, <2>4 DEF TInv
<1> QED BY <1>5, <1>6, <1>7

\* An update that succeeds, met a rate limit at its end or not.
LEMMA SucceedTurns ==
  ASSUME IInv, IInv', TInv, EndSync \/ EndLimited
  PROVE  TInv'
<1>1. /\ Succeeds /\ NoRun /\ phase' = "waiting" /\ units' = units /\ complete'
      /\ phase = "syncing" /\ \A u \in Units : outcome[u] # None
  BY DEF EndSync, EndLimited, Succeeds, Ends, Ended
<1>2. Course'
  BY <1>1 DEF NoRun, Course
<1>3. Waiting'
  BY <1>1 DEF TInv, Waiting
<1>4. /\ \A u \in Units : units'[u].notReached = units[u].notReached
      /\ \A u \in Units : walk[u] \in {"none", "done"}
  BY <1>1 DEF TInv, Course
<1>5. CASE EndSync
  <2>1. due' >= 1 /\ Slack' = Slack
    BY <1>5, OtherSlack DEF EndSync
  <2>2. \A u \in Units : ~ Held(u)'
    BY <1>1, <2>1, NotHeld
  <2>3. Turns'
    BY <1>1, <1>2, <1>4, <2>1, <2>2, TurnsEnd
  <2> QED BY <1>2, <1>3, <2>3 DEF TInv
<1>6. CASE EndLimited
  <2>1. Slack' = Slack + 1
    BY <1>6, AbortSlack DEF EndLimited
  <2>2. Turns'
    BY <1>1, <1>2, <1>4, <2>1, TurnsCut
  <2> QED BY <1>2, <1>3, <2>2 DEF TInv
<1> QED BY <1>5, <1>6

\* Counts of nothing are spread.
LEMMA SpreadNone ==
  ASSUME NEW c \in [Units -> Nat], NEW a \in Nat, \A u \in Units : c[u] = 0
  PROVE  Spread(c, a)
<1> SUFFICES ASSUME NEW n \in 1 .. Cardinality(Units)
             PROVE  Cardinality({u \in Units : c[u] >= n + a}) <= Cardinality(Units) - n
  BY DEF Spread
<1>1. Cardinality(Units) \in Nat
  BY SomeUnits
<1>2. {u \in Units : c[u] >= n + a} = {}
  BY <1>1
<1> QED BY <1>1, <1>2, FS_EmptySet

\* A new coordinator has passed over nobody.
LEMMA NewTurns ==
  ASSUME IInv, IInv', TInv, Reload \/ SignedIn
  PROVE  TInv'
<1>1. /\ phase' = "ready" /\ due' = 0 /\ NoRun
      /\ units' = [u \in Units |-> NewUnit] /\ complete' = FALSE
  BY DEF Reload, SignedIn, NewCoordinator
<1>2. Slack' = Slack
  BY OtherSlack DEF Reload, SignedIn
<1>3. \A u \in Units : units'[u].notReached = 0 /\ Brief(units'[u])
  BY <1>1 DEF NewUnit, Brief
<1>4. Course' /\ Waiting'
  BY <1>1, <1>3 DEF NoRun, Course, Waiting
<1>5. PICK a \in Nat : a = Slack'
  BY CountsAre
<1>6. PICK d \in [Units -> Nat] : d = AtMost' /\ d = Leaves'
  <2>1. \A u \in Units : AtMost'[u] = Leaves'[u]
    BY <1>1, <1>4, CountsAre DEF Course
  <2> QED BY <2>1, CountsAre
<1>7. \A u \in Units : d[u] = 0
  BY <1>1, <1>3, <1>4, <1>6, CountsAre DEF Course
<1>8. Spread(d, a) /\ Spread(d, a + 1)
  BY <1>7, SpreadNone
<1>9. \A u \in Units : ~ Held(u)'
  BY <1>3 DEF Held
<1>10. Turns'
  BY <1>5, <1>6, <1>8, <1>9 DEF Turns
<1> QED BY <1>4, <1>10 DEF TInv

\* What setup hands over of a unit was passed over once at most.
LEMMA SetupTurns ==
  ASSUME NEW how
  PROVE  /\ SetupUnit(how).notReached \in {0, 1} /\ Brief(SetupUnit(how))
         /\ how \in {"ok", "degraded"} => SetupUnit(how).notReached = 0
<1>1. /\ NewUnit \in UnitRecord /\ TellsWaits(NewUnit) /\ "initial" \in Modes
      /\ NewUnit.notReached = 0 /\ Brief(NewUnit)
  BY NewUnitKeeps DEF Modes, NewUnit, Brief
<1>2. Succeed(NewUnit) = NoteSuccess(NewUnit, "initial")
  BY DEF NoteSuccess, Covers, NewUnit
<1>3. /\ NoteSuccess(NewUnit, "initial").notReached = 0
      /\ Brief(NoteSuccess(NewUnit, "initial"))
      /\ NoteDegraded(NewUnit, "initial", FALSE).notReached = 0
      /\ Brief(NoteDegraded(NewUnit, "initial", FALSE))
      /\ NoteFailure(NewUnit, "initial", FALSE).notReached = 0
      /\ Brief(NoteFailure(NewUnit, "initial", FALSE))
  BY <1>1, NotesBrief
<1>4. PICK owing \in UnitRecord : owing = Owe(NewUnit, "initial") /\ Brief(owing)
  BY <1>1, OweWaits
<1>5. PICK late : late = [owing EXCEPT !.notReached = 1]
  OBVIOUS
<1>6. late.notReached = 1 /\ Brief(late)
  BY <1>4, <1>5 DEF Brief, UnitRecord
<1>7. SetupUnit(how) = IF how = "ok" THEN NoteSuccess(NewUnit, "initial")
                       ELSE IF how = "degraded" THEN NoteDegraded(NewUnit, "initial", FALSE)
                       ELSE IF how = "failed" THEN NoteFailure(NewUnit, "initial", FALSE)
                       ELSE late
  BY <1>2, <1>4, <1>5 DEF SetupUnit
<1> QED BY <1>3, <1>6, <1>7

\* To begin with nobody was passed over twice, and some not at all.
LEMMA InitTurns == Init => TInv
<1> SUFFICES ASSUME Init PROVE TInv
  OBVIOUS
<1>1. /\ phase = "ready" /\ due = 0 /\ ~ complete /\ ~ sent /\ cooling = {}
      /\ walk = [u \in Units |-> "none"] /\ outcome = [u \in Units |-> None]
      /\ used = [bound \in DOMAIN Bounds |-> 0]
  BY DEF Init
<1>2. Slack = 0
  BY <1>1 DEF Slack, Bounds
<1>3. /\ \A u \in Units : units[u].notReached \in {0, 1} /\ Brief(units[u])
      /\ \E u \in Units : units[u].notReached = 0
  <2>1. CASE FromSetup
    <3>1. PICK how \in [Units -> {"ok", "degraded", "failed", "late"}] :
            LET imported == {u \in Units : how[u] \in {"ok", "degraded"}}
            IN \E found \in SUBSET imported :
                 /\ SetupSucceeds(imported, found)
                 /\ units = [u \in Units |-> SetupUnit(how[u])]
      BY <2>1 DEF FromSetup
    <3>2. PICK imported : imported = {u \in Units : how[u] \in {"ok", "degraded"}}
      OBVIOUS
    <3>3. PICK found \in SUBSET imported : SetupSucceeds(imported, found)
      BY <3>1, <3>2
    <3>4. imported # {}
      BY <3>2, <3>3, SyncAssumption DEF SetupSucceeds
    <3>5. units = [u \in Units |-> SetupUnit(how[u])]
      BY <3>1
    <3> QED BY <3>2, <3>4, <3>5, SetupTurns
  <2>2. CASE Afresh
    <3>1. \A u \in Units : units[u].notReached = 0 /\ Brief(units[u])
      BY <2>2 DEF Afresh, NewUnit, Brief
    <3> QED BY <3>1, SyncAssumption
  <2> QED BY <2>1, <2>2 DEF Init
<1>4. Course /\ Waiting
  BY <1>1, <1>3 DEF Course, Waiting
<1>5. PICK d \in [Units -> Nat] : d = [u \in Units |-> units[u].notReached]
  <2>1. \A u \in Units : units[u].notReached \in Nat BY <1>3
  <2>2. [u \in Units |-> units[u].notReached] \in [Units -> Nat] BY <2>1
  <2> QED BY <2>2
<1>6. d = AtMost /\ d = Leaves
  BY <1>1, <1>5 DEF AtMost, Leaves
<1>7. PICK u \in Units : d[u] = 0
  BY <1>3, <1>5
<1>8. PICK c \in [Units -> Nat] : c = [v \in Units |-> 0]
  OBVIOUS
<1>9. Spread(d, 0)
  <2>1. Spread(c, 0) BY <1>8, SpreadNone
  <2>2. \A v \in Units : d[v] <= c[v] + 1 /\ c[v] <= c[u] BY <1>3, <1>5, <1>8
  <2> QED BY <1>7, <2>1, <2>2, SpreadFirst
<1>10. Spread(d, 1)
  <2>1. \A v \in Units : d[v] + 0 <= d[v] + 1 OBVIOUS
  <2> QED BY <1>9, <2>1, SpreadOn
<1>11. \A v \in Units : ~ Held(v)
  BY <1>1 DEF Held
<1> QED BY <1>2, <1>4, <1>6, <1>9, <1>10, <1>11 DEF TInv, Turns

\* No unit is passed over more often than there are others to go first, but for
\* updates that were cut short or planned again.
THEOREM NobodyStarves == Spec => []NoneStarves
<1>1. ASSUME IInv, IInv', TInv, [Next]_vars
      PROVE  TInv'
  <2>1. CASE TimePasses
    BY <1>1, <2>1, TimeTurns
  <2>2. CASE StartSync
    BY <1>1, <2>2, StartTurns
  <2>3. CASE CooldownPasses
    BY <1>1, <2>3, CooldownTurns
  <2>4. CASE Replan
    BY <1>1, <2>4, ReplanTurns
  <2>5. ASSUME NEW u \in Units, Newly(u)
        PROVE  TInv'
    BY <1>1, <2>5, NewestTurns
  <2>6. ASSUME NEW u \in Units, Finishes(u)
        PROVE  TInv'
    BY <1>1, <2>6, FinishTurns
  <2>7. CASE RateLimited \/ Rejected \/ NotStarted \/ EndFails
    BY <1>1, <2>7, FailTurns
  <2>8. CASE EndSync \/ EndLimited
    BY <1>1, <2>8, SucceedTurns
  <2>9. CASE Reload \/ SignedIn
    BY <1>1, <2>9, NewTurns
  <2>10. CASE UNCHANGED vars
    BY <1>1, <2>10, StutterTurns
  <2> QED
    BY <1>1, <2>1, <2>2, <2>3, <2>4, <2>5, <2>6, <2>7, <2>8, <2>9, <2>10 DEF Next
<1>2. ASSUME IInv, TInv
      PROVE  NoneStarves
  <2> SUFFICES ASSUME NEW u \in Units
               PROVE  units[u].notReached
                        <= Cardinality(Units) - 1 + used.aborts + 2 * used.replans
    BY DEF NoneStarves
  <2>1. UnitTypes /\ UsedTypes
    BY <1>2, TypeParts DEF IInv
  <2>2. PICK nr \in Nat : nr = units[u].notReached
    BY <2>1 DEF UnitTypes, UnitRecord
  <2>3. PICK a \in Nat : a = Slack /\ a = used.aborts + 2 * used.replans
    BY <2>1 DEF UsedTypes, Bounds, Slack
  <2>4. PICK N \in Nat \ {0} : N = Cardinality(Units)
    BY SomeUnits
  <2>5. ASSUME NEW c, Spread(c, a)
        PROVE  ~ (c[u] >= N + a)
    <3>1. PICK S : S = {v \in Units : c[v] >= N + a}
      OBVIOUS
    <3>2. Cardinality(S) <= N - N /\ S \in SUBSET Units
      BY <2>4, <2>5, <3>1 DEF Spread
    <3>3. Cardinality(S) = 0
      BY <2>4, <3>2, SomeUnits
    <3>4. S = {}
      BY <3>2, <3>3, SomeUnits
    <3> QED BY <3>1, <3>4
  <2>6. ASSUME NEW c, Spread(c, a + 1)
        PROVE  ~ (c[u] >= N + a + 1)
    <3>1. PICK S : S = {v \in Units : c[v] >= N + (a + 1)}
      OBVIOUS
    <3>2. Cardinality(S) <= N - N /\ S \in SUBSET Units
      BY <2>4, <2>6, <3>1 DEF Spread
    <3>3. Cardinality(S) = 0
      BY <2>4, <3>2, SomeUnits
    <3>4. S = {}
      BY <3>2, <3>3, SomeUnits
    <3>5. N + a + 1 = N + (a + 1)
      OBVIOUS
    <3> QED BY <3>1, <3>4, <3>5
  <2>7. Spread(Leaves, a) /\ Spread(AtMost, a + 1)
    BY <1>2, <2>3 DEF TInv, Turns
  <2>8. /\ ~ (Leaves[u] >= N + a) /\ ~ (AtMost[u] >= N + a + 1)
        /\ AtMost[u] = IF walk[u] \in {"none", "done"} THEN nr ELSE nr + 1
        /\ Leaves[u] = IF ~ sent THEN nr ELSE IF walk[u] \in {"begun", "failed"} THEN 0
                       ELSE AtMost[u]
    BY <2>2, <2>5, <2>6, <2>7 DEF AtMost, Leaves
  <2>9. nr < N + a
    <3>1. CASE walk[u] \in {"none", "done"}
      BY <2>3, <2>4, <2>8, <3>1
    <3>2. CASE walk[u] \notin {"none", "done"}
      BY <2>3, <2>4, <2>8, <3>2
    <3> QED BY <3>1, <3>2
  <2>10. nr <= N - 1 + a
    BY <2>9
  <2>11. UsedTypes /\ used.aborts \in Nat /\ used.replans \in Nat
    BY <2>1 DEF UsedTypes, Bounds
  <2> QED BY <2>2, <2>3, <2>4, <2>10, <2>11
<1>3. Init => TInv
  BY InitTurns
<1>4. IInv /\ IInv' /\ TInv /\ [Next]_vars => TInv'
  BY <1>1
<1>5. IInv /\ TInv => NoneStarves
  BY <1>2
<1> QED BY <1>3, <1>4, <1>5, Invariance, PTL DEF Spec

===============================================================================
