------------------------------ MODULE LaneProofs ------------------------------
(***************************************************************************)
(* Proofs about Lane, for any history, target and failures: what waits is  *)
(* counted, a step an import may have left wrong is replayed, a revision   *)
(* pass asks for every stored date; and of a Meridian that answers what it *)
(* is asked, a lane that reports its target has stored every hour, and one *)
(* that takes its history to start later has not left a reading before it. *)
(***************************************************************************)
EXTENDS Lane, WindowsProofs, TLAPS

-------------------------------------------------------------------------------
(***************************************************************************)
(* The inductive invariant.                                                *)
(***************************************************************************)
During == {"walked", "covering", "fetched", "settling", "settled"}
Open == {"walked", "covering", "fetched"}

DateWindow == [first : Dates, last : Dates]

RunRecord ==
  [energy : SUBSET Hours, target : Dates, fetchedFrom : Int \cup {None}, asked : Nat,
   ok : BOOLEAN, covers : BOOLEAN, complete : BOOLEAN, cancelled : BOOLEAN,
   window : DateWindow, kind : {"coverage", "revision"}, rows : SUBSET Hours]

StateOK ==
  /\ today \in FirstToday .. LastToday /\ billing \in Dates \cup {None}
  /\ meridian \in MeridianRecord /\ stored \subseteq Hours
  /\ kept \in [Dates -> Memory!Waits \cup {None}]
  /\ phase \in During \cup {"waiting", "gone"}
  /\ torn \subseteq Hours /\ late \subseteq Hours /\ owed \subseteq Dates
  /\ calm \in BOOLEAN /\ run \in RunRecord

\* Dates the lane never reaches back to.
Past(d) == d < today - Longest + 1

\* The update's target is before every date not confirmed that it may reach,
\* and what it read is what is stored from there on, until an import it cannot
\* confirm ends it.
Aimed ==
  phase \in During =>
    /\ ~ Past(run.target)
    /\ \A d \in lane.unsaved : run.target <= d \/ Past(d)

HasRead ==
  /\ phase \in Open => run.energy = {h \in stored : h >= Midnight(run.target)}
  /\ phase \in During => run.energy \subseteq {h \in stored : h >= Midnight(run.target)}

\* The window fetched is of dates the lane answers for, and its rows are of
\* these, of none before the history.
Rows ==
  phase = "fetched" =>
    /\ run.window.first <= run.window.last
    /\ \A d \in Days : run.target <= d /\ d < today - Overlap + 1
    /\ \A h \in run.rows :
         /\ DayOf(h) \in Days /\ h >= Midnight(run.target)
         /\ FirstDay(lane, run.energy, run.target) <= DayOf(h)

\* Steps that may be wrong are stored, of dates not confirmed.
TornOK ==
  /\ torn \subseteq stored
  /\ \A h \in torn : DayOf(h) \in lane.unsaved \/ Past(DayOf(h))
  /\ phase = "settling" =>
       \A h \in torn : \/ FirstDay(lane, run.energy, run.target) <= DayOf(h)
                       \/ Past(DayOf(h))

\* The owner is handed every date not confirmed.
KeptOK == phase \in {"waiting", "gone"} => \A d \in lane.unsaved : kept[d] # None

\* What a pass owes is stored, not asked for since, and was not the walk's.
Owed ==
  /\ owed \subseteq DaysOf(stored)
  /\ owed \cap (lane.fetched \cup lane.revised) = {}
  /\ \A d \in owed : d < today - Overlap + 1
  /\ phase \in During =>
       \A d \in owed : /\ d < run.target \/ d \in DaysOf(run.energy)
                       /\ run.fetchedFrom = None \/ d < run.fetchedFrom
  /\ ~ lane.revising =>
       \A d \in owed : \/ d \in Bad(lane)
                       \/ phase \in {"covering", "fetched", "settling"} /\ d < run.target

Reported ==
  phase = "settled" /\ lane.reaches =>
    ReachesTarget(lane, run.energy, run.target, End, Frontier)

IInv ==
  /\ StateOK /\ lane \in LaneRecord /\ WaitsAreCounted
  /\ Aimed /\ HasRead /\ Rows /\ TornOK /\ KeptOK /\ Owed /\ Reported

-------------------------------------------------------------------------------
(***************************************************************************)
(* Meridian answers for the dates it is asked for, and refuses only dates  *)
(* before its supply, whose readings go on for a window at least.          *)
(***************************************************************************)
Honest ==
  /\ meridian.reads = "asked"
  /\ \A d \in meridian.refuses : \A h \in meridian.has :
       /\ d < DayOf(h)
       /\ \A e \in DayOf(h) .. d + WindowDays - 1 : HoursOf(e) \cap meridian.has # {}

\* Of a date fetched, every hour Meridian had is stored.
WholeDate(d) == HoursOf(d) \cap meridian.has \subseteq stored \cup late

FetchedIsStored == \A d \in lane.fetched \cup lane.knownFetched : WholeDate(d)

\* The rows of a window fetched are all Meridian has of its dates.
RowsWhole ==
  phase = "fetched" =>
    \A d \in Days : {h \in HoursOf(d) \cap meridian.has : h < Now} \subseteq run.rows

-------------------------------------------------------------------------------
(***************************************************************************)
(* What waits, and what happens to it.                                     *)
(***************************************************************************)
Counted(l) ==
  /\ Bad(l) = {d \in Dates : l.tries[d] > 0}
  /\ l.unsaved \subseteq Bad(l)

\* What m and l agree on when only waits changed.
SameKnown(m, l) ==
  /\ m.fetched = l.fetched /\ m.empty = l.empty /\ m.refusedThrough = l.refusedThrough
  /\ m.revisionOn = l.revisionOn /\ m.revising = l.revising /\ m.revised = l.revised
  /\ m.knownFetched = l.knownFetched /\ m.knownEmpty = l.knownEmpty
  /\ m.knownRefused = l.knownRefused /\ m.reaches = l.reaches

\* The dates before the history, as a lane was shown them.
Shown(l, d) ==
  \/ d \in l.empty \cup l.knownEmpty
  \/ l.refusedThrough # None /\ d <= l.refusedThrough
  \/ l.knownRefused # None /\ d <= l.knownRefused

\* A failure more is a failure, and its wait is one; time leaves a wait a wait.
LEMMA WaitsAre ==
  /\ None \notin Memory!Waits /\ 0 \in Memory!Waits /\ {0, 1} \subseteq 0 .. MostFailures
  /\ \A n \in 0 .. MostFailures :
       /\ Memory!OneMore(n) \in 1 .. MostFailures
       /\ Memory!Backoff(Memory!OneMore(n)) \in Memory!Waits
  /\ \A w \in Memory!Waits \cup {None}, hours \in Nat :
       /\ Memory!Left(w, hours) \in Memory!Waits \cup {None}
       /\ Memory!Left(w, hours) = None <=> w = None
<1>1. /\ Memory!Doubled[1] = 1 /\ Memory!Doubled[2] = 2 /\ Memory!Doubled[3] = 4
      /\ Memory!Doubled[4] = 8 /\ Memory!Doubled[5] = 16 /\ Memory!Doubled[6] = 32
  BY DEF Memory!Doubled
<1>2. /\ None \notin Int /\ LongestBackoff \in 1 .. 32 /\ MostFailures \in 1 .. 6
  BY <1>1, LaneAssumption
<1>3. \A n \in 1 .. 6 : Memory!Doubled[n] \in Nat
  <2> TAKE n \in 1 .. 6
  <2>1. n = 1 \/ n = 2 \/ n = 3 \/ n = 4 \/ n = 5 \/ n = 6 OBVIOUS
  <2> QED BY <1>1, <2>1
<1>4. None \notin Memory!Waits /\ 0 \in Memory!Waits /\ {0, 1} \subseteq 0 .. MostFailures
  BY <1>2 DEF Memory!Waits
<1>5. ASSUME NEW n \in 0 .. MostFailures
      PROVE  /\ Memory!OneMore(n) \in 1 .. MostFailures
             /\ Memory!Backoff(Memory!OneMore(n)) \in Memory!Waits
  <2>1. PICK m : m = Memory!OneMore(n) OBVIOUS
  <2>2. m \in 1 .. MostFailures /\ m \in 1 .. 6 BY <2>1, <1>2 DEF Memory!OneMore
  <2>3. Memory!Doubled[m] \in Nat BY <2>2, <1>3
  <2>4. Memory!Backoff(m) \in 0 .. LongestBackoff
    <3>1. PICK x \in Nat : x = Memory!Doubled[m] BY <2>3
    <3> QED BY <3>1, <1>2 DEF Memory!Backoff
  <2> QED BY <2>1, <2>2, <2>4 DEF Memory!Waits
<1>6. ASSUME NEW w \in Memory!Waits \cup {None}, NEW hours \in Nat
      PROVE  /\ Memory!Left(w, hours) \in Memory!Waits \cup {None}
             /\ Memory!Left(w, hours) = None <=> w = None
  BY <1>2 DEF Memory!Waits, Memory!Left
<1> QED BY <1>4, <1>5, <1>6

\* What waits is a date, and a wait none of whose dates is one of a lane.
LEMMA LaneIs ==
  ASSUME NEW l \in LaneRecord
  PROVE  /\ l.fetched \subseteq Dates /\ l.empty \subseteq Dates
         /\ l.refusedThrough \in Dates \cup {None}
         /\ l.bad \in [Dates -> Memory!Waits \cup {None}]
         /\ l.tries \in [Dates -> 0 .. MostFailures]
         /\ l.unsaved \subseteq Dates /\ l.revisionOn \in Nat \cup {None}
         /\ l.revising \in BOOLEAN /\ l.revised \subseteq Dates
         /\ l.knownFetched \subseteq Dates /\ l.knownEmpty \subseteq Dates
         /\ l.knownRefused \in Dates \cup {None} /\ l.reaches \in BOOLEAN
BY DEF LaneRecord

\* Dates imported and confirmed wait no longer.
LEMMA SettleIs ==
  ASSUME NEW l \in LaneRecord, NEW dates, NEW m, m = Settle(l, dates)
  PROVE  /\ m \in LaneRecord /\ SameKnown(m, l)
         /\ Bad(m) = Bad(l) \ dates /\ m.unsaved = l.unsaved \ dates
         /\ Counted(l) => Counted(m)
<1>1. PICK bad : bad = [d \in Dates |-> IF d \in dates THEN None ELSE l.bad[d]]
  OBVIOUS
<1>2. PICK tries : tries = [d \in Dates |-> IF d \in dates THEN 0 ELSE l.tries[d]]
  OBVIOUS
<1>3. m = [l EXCEPT !.bad = bad, !.tries = tries, !.unsaved = l.unsaved \ dates]
  BY <1>1, <1>2 DEF Settle
<1>4. bad \in [Dates -> Memory!Waits \cup {None}]
  BY <1>1, LaneIs
<1>5. tries \in [Dates -> 0 .. MostFailures]
  BY <1>2, LaneIs, WaitsAre
<1>6. m \in LaneRecord /\ SameKnown(m, l) /\ m.bad = bad /\ m.tries = tries
      /\ m.unsaved = l.unsaved \ dates
  BY <1>3, <1>4, <1>5 DEF LaneRecord, SameKnown
<1>7. Bad(m) = Bad(l) \ dates
  BY <1>1, <1>6 DEF Bad
<1>8. {d \in Dates : m.tries[d] > 0} = {d \in Dates : l.tries[d] > 0} \ dates
  BY <1>2, <1>6
<1> QED BY <1>6, <1>7, <1>8 DEF Counted

\* Dates that failed wait, and those of an import are not confirmed.
LEMMA FailIs ==
  ASSUME NEW l \in LaneRecord, NEW dates \in SUBSET Dates, NEW unsaved \in BOOLEAN,
         NEW m, m = Fail(l, dates, unsaved)
  PROVE  /\ m \in LaneRecord /\ SameKnown(m, l)
         /\ Bad(m) = Bad(l) \cup dates
         /\ m.unsaved = IF unsaved THEN l.unsaved \cup dates ELSE l.unsaved
         /\ Counted(l) => Counted(m)
<1>1. PICK tries : tries = [d \in Dates |-> IF d \in dates THEN Memory!OneMore(l.tries[d])
                                            ELSE l.tries[d]]
  OBVIOUS
<1>2. PICK bad : bad = [d \in Dates |-> IF d \in dates THEN Memory!Backoff(tries[d])
                                        ELSE l.bad[d]]
  OBVIOUS
<1>3. PICK left : left = IF unsaved THEN l.unsaved \cup dates ELSE l.unsaved
  OBVIOUS
<1>4. m = [l EXCEPT !.tries = tries, !.bad = bad, !.unsaved = left]
  BY <1>1, <1>2, <1>3 DEF Fail
<1>5. \A d \in Dates : /\ l.tries[d] \in 0 .. MostFailures
                       /\ l.bad[d] \in Memory!Waits \cup {None}
  BY LaneIs
<1>6. tries \in [Dates -> 0 .. MostFailures]
      /\ \A d \in dates : tries[d] \in 1 .. MostFailures
  <2>1. \A d \in dates : Memory!OneMore(l.tries[d]) \in 1 .. MostFailures
    BY <1>5, WaitsAre
  <2>2. \A d \in Dates : tries[d] \in 0 .. MostFailures
    BY <1>1, <1>5, <2>1
  <2> QED BY <1>1, <2>1, <2>2
<1>7. bad \in [Dates -> Memory!Waits \cup {None}] /\ \A d \in dates : bad[d] \in Memory!Waits
  <2>1. \A d \in dates : Memory!Backoff(tries[d]) \in Memory!Waits
    BY <1>1, <1>5, WaitsAre
  <2> QED BY <1>2, <1>5, <2>1
<1>8. left \subseteq Dates
  BY <1>3, LaneIs
<1>9. m \in LaneRecord /\ SameKnown(m, l) /\ m.bad = bad /\ m.tries = tries
      /\ m.unsaved = left
  BY <1>4, <1>6, <1>7, <1>8, LaneIs DEF LaneRecord, SameKnown
<1>10. Bad(m) = Bad(l) \cup dates
  <2>1. \A d \in Dates : bad[d] # None <=> d \in dates \/ l.bad[d] # None
    BY <1>2, <1>7, WaitsAre
  <2> QED BY <2>1, <1>9 DEF Bad
<1>11. {d \in Dates : m.tries[d] > 0} = {d \in Dates : l.tries[d] > 0} \cup dates
  <2>1. \A d \in dates : tries[d] > 0
    BY <1>6
  <2>2. \A d \in Dates : tries[d] > 0 <=> d \in dates \/ l.tries[d] > 0
    BY <1>1, <2>1
  <2> QED BY <1>9, <2>2
<1> QED BY <1>3, <1>9, <1>10, <1>11 DEF Counted

\* Dates fetched in full.
LEMMA TookIs ==
  ASSUME NEW l \in LaneRecord, NEW dates \in SUBSET Dates, NEW empty \in SUBSET Dates,
         NEW revised \in BOOLEAN, NEW m, m = Took(l, dates, empty, revised)
  PROVE  /\ m \in LaneRecord /\ m.fetched = l.fetched \cup dates
         /\ m.refusedThrough = l.refusedThrough /\ m.revising = l.revising
         /\ m.revised \subseteq l.revised \cup dates
         /\ m.knownFetched = l.knownFetched \ dates /\ m.reaches = l.reaches
         /\ Bad(m) = Bad(l) \ dates /\ m.unsaved = l.unsaved \ dates
         /\ \A d : Shown(m, d) => Shown(l, d) \/ d \in empty
         /\ Counted(l) => Counted(m)
<1>1. PICK k : k = [l EXCEPT !.fetched = @ \cup dates, !.empty = (@ \ dates) \cup empty,
                   !.knownFetched = @ \ dates, !.knownEmpty = @ \ dates,
                   !.revised = IF revised THEN @ \cup dates ELSE @]
  OBVIOUS
<1>2. /\ k \in LaneRecord /\ k.fetched = l.fetched \cup dates
      /\ k.refusedThrough = l.refusedThrough /\ k.revising = l.revising
      /\ k.revised \subseteq l.revised \cup dates
      /\ k.knownFetched = l.knownFetched \ dates /\ k.reaches = l.reaches
      /\ k.bad = l.bad /\ k.tries = l.tries /\ k.unsaved = l.unsaved
      /\ k.empty = (l.empty \ dates) \cup empty /\ k.knownEmpty = l.knownEmpty \ dates
      /\ k.knownRefused = l.knownRefused
  BY <1>1, LaneIs DEF LaneRecord
<1>3. m = Settle(k, dates)
  BY <1>1 DEF Took
<1>4. Bad(k) = Bad(l) /\ (Counted(l) => Counted(k))
  BY <1>2 DEF Bad, Counted
<1>5. /\ m \in LaneRecord /\ SameKnown(m, k)
      /\ Bad(m) = Bad(k) \ dates /\ m.unsaved = k.unsaved \ dates
      /\ Counted(k) => Counted(m)
  BY <1>2, <1>3, SettleIs
<1>6. \A d : Shown(m, d) => Shown(l, d) \/ d \in empty
  BY <1>2, <1>5 DEF Shown, SameKnown
<1> QED BY <1>2, <1>4, <1>5, <1>6 DEF SameKnown

\* What a lane forgets before a date.
LEMMA ForgetIs ==
  ASSUME NEW l \in LaneRecord, NEW day, NEW m, m = ForgetBefore(l, day)
  PROVE  /\ m \in LaneRecord /\ m.fetched \subseteq l.fetched
         /\ m.refusedThrough = l.refusedThrough /\ m.revising = l.revising
         /\ m.revised \subseteq l.revised /\ m.knownFetched \subseteq l.knownFetched
         /\ m.reaches = l.reaches
         /\ Bad(m) = {d \in Bad(l) : ~ (d < day)}
         /\ m.unsaved = {d \in l.unsaved : ~ (d < day)}
         /\ \A d : Shown(m, d) => Shown(l, d)
         /\ Counted(l) => Counted(m)
<1>1. PICK k : k = [l EXCEPT !.fetched = {d \in @ : d >= day}, !.empty = {d \in @ : d >= day},
              !.revised = {d \in @ : d >= day},
              !.knownFetched = {d \in @ : d >= day},
              !.knownEmpty = {d \in @ : d >= day}]
  OBVIOUS
<1>2. /\ k \in LaneRecord /\ k.fetched \subseteq l.fetched
      /\ k.refusedThrough = l.refusedThrough /\ k.revising = l.revising
      /\ k.revised \subseteq l.revised /\ k.knownFetched \subseteq l.knownFetched
      /\ k.reaches = l.reaches
      /\ k.bad = l.bad /\ k.tries = l.tries /\ k.unsaved = l.unsaved
      /\ k.empty \subseteq l.empty /\ k.knownEmpty \subseteq l.knownEmpty
      /\ k.knownRefused = l.knownRefused
  BY <1>1, LaneIs DEF LaneRecord
<1>3. PICK dates : dates = {d \in Dates : d < day}
  OBVIOUS
<1>4. m = Settle(k, dates)
  BY <1>1, <1>3 DEF ForgetBefore, ForgetBadBefore
<1>5. Bad(k) = Bad(l) /\ (Counted(l) => Counted(k))
  BY <1>2 DEF Bad, Counted
<1>6. /\ m \in LaneRecord /\ SameKnown(m, k)
      /\ Bad(m) = Bad(k) \ dates /\ m.unsaved = k.unsaved \ dates
      /\ Counted(k) => Counted(m)
  BY <1>2, <1>4, SettleIs
<1>7. /\ Bad(m) = {d \in Bad(l) : ~ (d < day)}
      /\ m.unsaved = {d \in l.unsaved : ~ (d < day)}
  <2>1. Bad(l) \subseteq Dates /\ l.unsaved \subseteq Dates BY LaneIs DEF Bad
  <2> QED BY <2>1, <1>2, <1>3, <1>5, <1>6
<1>8. \A d : Shown(m, d) => Shown(l, d)
  BY <1>2, <1>6 DEF Shown, SameKnown
<1> QED BY <1>2, <1>5, <1>6, <1>7, <1>8 DEF SameKnown

\* A revision pass that starts asks for every date again.
LEMMA RevisionIs ==
  ASSUME NEW l \in LaneRecord, NEW date \in Nat, NEW m, m = StartRevision(l, date)
  PROVE  /\ m \in LaneRecord /\ Bad(m) = Bad(l) /\ m.unsaved = l.unsaved
         /\ m.reaches = l.reaches
         /\ m.fetched \subseteq l.fetched
         /\ m.fetched \cup m.knownFetched \subseteq l.fetched \cup l.knownFetched
         /\ ~ Starts(l, date) => m = l
         /\ Starts(l, date) => m.revising /\ m.fetched = {} /\ m.revised = {}
         /\ \A d : Shown(m, d) => Shown(l, d)
         /\ Counted(l) => Counted(m)
<1>1. CASE ~ Starts(l, date)
  BY <1>1 DEF StartRevision
<1>2. CASE Starts(l, date)
  <2>1. PICK due : due = RevisionDue(date)
    OBVIOUS
  <2>2. due \in Nat
    <3>1. PICK passed : passed = {r \in RevisionDates : r <= date}
      OBVIOUS
    <3>2. due # None BY <2>1, <1>2 DEF Starts
    <3>3. passed # {} /\ due = Greatest(passed)
      BY <3>1, <3>2, <2>1 DEF RevisionDue
    <3>6. RevisionDates \subseteq Nat
      BY LaneAssumption
    <3>7. \A s \in passed : s \in Nat /\ s <= date
      BY <3>1, <3>6
    <3>4. passed \in SUBSET Int /\ \A s \in passed : s <= date
      BY <3>7
    <3>5. Greatest(passed) \in passed
      BY <3>3, <3>4, GreatestIs
    <3> QED BY <3>1, <3>3, <3>5, LaneAssumption
  <2>3. PICK fetched : fetched = l.knownFetched \cup (l.fetched \ Bad(l))
    OBVIOUS
  <2>4. PICK empty : empty = l.knownEmpty \cup l.empty
    OBVIOUS
  <2>5. PICK refused : refused = IF l.refusedThrough # None THEN l.refusedThrough
                                 ELSE l.knownRefused
    OBVIOUS
  <2>6. m = [l EXCEPT !.revisionOn = due, !.revising = TRUE, !.revised = {},
                 !.knownFetched = fetched, !.knownEmpty = empty, !.knownRefused = refused,
                 !.fetched = {}, !.empty = {}, !.refusedThrough = None]
    BY <1>2, <2>1, <2>3, <2>4, <2>5 DEF StartRevision
  <2>9. fetched \subseteq Dates /\ empty \subseteq Dates /\ refused \in Dates \cup {None}
    BY <2>3, <2>4, <2>5, LaneIs
  <2>7. /\ m \in LaneRecord /\ m.bad = l.bad /\ m.tries = l.tries /\ m.unsaved = l.unsaved
        /\ m.revising /\ m.fetched = {} /\ m.revised = {} /\ m.knownFetched = fetched
        /\ m.reaches = l.reaches
    <3>1. m \in LaneRecord
      <4>1. PICK begun : begun = [l EXCEPT !.revisionOn = due, !.revising = TRUE,
                                           !.revised = {}]
        OBVIOUS
      <4>2. begun \in LaneRecord BY <2>2, <4>1 DEF LaneRecord
      <4>3. PICK known : known = [begun EXCEPT !.knownFetched = fetched, !.knownEmpty = empty,
                                               !.knownRefused = refused]
        OBVIOUS
      <4>4. known \in LaneRecord BY <2>9, <4>2, <4>3 DEF LaneRecord
      <4>5. m = [known EXCEPT !.fetched = {}, !.empty = {}, !.refusedThrough = None]
        BY <2>6, <4>1, <4>3 DEF LaneRecord
      <4> QED BY <4>4, <4>5 DEF LaneRecord
    <3>2. /\ m.bad = l.bad /\ m.tries = l.tries /\ m.unsaved = l.unsaved
          /\ m.revising /\ m.fetched = {} /\ m.revised = {} /\ m.knownFetched = fetched
          /\ m.reaches = l.reaches
      BY <2>6 DEF LaneRecord
    <3> QED BY <3>1, <3>2
  <2>8. Bad(m) = Bad(l)
    BY <2>7 DEF Bad
  <2>10. m.empty = {} /\ m.knownEmpty = empty /\ m.refusedThrough = None
         /\ m.knownRefused = refused
    BY <2>6 DEF LaneRecord
  <2>11. \A d : Shown(m, d) => Shown(l, d)
    BY <2>4, <2>5, <2>10 DEF Shown
  <2> QED BY <1>2, <2>3, <2>7, <2>8, <2>11 DEF Counted
<1> QED BY <1>1, <1>2

\* The dates not confirmed that a coordinator is handed wait on.
LEMMA RestoreIs ==
  ASSUME NEW retries \in [Dates -> Memory!Waits \cup {None}],
         NEW m, m = RestoreUnsaved(NewLane, retries)
  PROVE  /\ m \in LaneRecord /\ Counted(m) /\ m.fetched = {} /\ m.knownFetched = {}
         /\ m.unsaved = {d \in Dates : retries[d] # None} /\ ~ m.reaches
         /\ \A d : ~ Shown(m, d)
<1>1. PICK dates : dates = {d \in Dates : retries[d] # None}
  OBVIOUS
<1>2. PICK bad : bad = [d \in Dates |-> IF d \in dates THEN retries[d] ELSE None]
  OBVIOUS
<1>3. PICK tries : tries = [d \in Dates |-> IF d \in dates THEN 1 ELSE 0]
  OBVIOUS
<1>4. m = [NewLane EXCEPT !.bad = bad, !.tries = tries, !.unsaved = dates]
  <2>1. NewLane.bad = [d \in Dates |-> None] /\ NewLane.tries = [d \in Dates |-> 0]
        /\ NewLane.unsaved = {}
    BY DEF NewLane
  <2>2. bad = [d \in Dates |-> IF d \in dates THEN retries[d] ELSE NewLane.bad[d]]
    BY <1>2, <2>1
  <2>3. tries = [d \in Dates |-> IF d \in dates /\ NewLane.tries[d] = 0 THEN 1
                                 ELSE NewLane.tries[d]]
    BY <1>3, <2>1
  <2> QED BY <1>1, <2>1, <2>2, <2>3 DEF RestoreUnsaved
<1>5. bad \in [Dates -> Memory!Waits \cup {None}] /\ tries \in [Dates -> 0 .. MostFailures]
      /\ dates \subseteq Dates
  BY <1>1, <1>2, <1>3, WaitsAre
<1>6. /\ m \in LaneRecord /\ m.bad = bad /\ m.tries = tries /\ m.unsaved = dates
      /\ m.fetched = {} /\ m.knownFetched = {} /\ ~ m.reaches
  BY <1>4, <1>5 DEF LaneRecord, NewLane
<1>7. Bad(m) = dates /\ {d \in Dates : m.tries[d] > 0} = dates
  BY <1>1, <1>2, <1>3, <1>6 DEF Bad
<1>8. m.empty = {} /\ m.knownEmpty = {} /\ m.refusedThrough = None /\ m.knownRefused = None
  BY <1>4 DEF NewLane
<1>9. \A d : ~ Shown(m, d)
  BY <1>8 DEF Shown
<1> QED BY <1>1, <1>6, <1>7, <1>9 DEF Counted

-------------------------------------------------------------------------------
(***************************************************************************)
(* Hours, and where a history starts.                                      *)
(***************************************************************************)
\* An hour of the lane is of one of its dates; later hours are of later ones.
LEMMA HoursAre ==
  /\ Hours \subseteq Int /\ Dates \subseteq Nat /\ None \notin Int
  /\ \A h \in Hours : h >= 0 /\ DayOf(h) \in Dates /\ h < Midnight(LastToday + 1)
  /\ Midnight(LastToday + 1) \in Int
<1>1. /\ LastToday \in Nat /\ None \notin Int
  BY LaneAssumption
<1>2. Midnight(0) = 0 /\ Midnight(LastToday + 1) \in Int
  BY <1>1, WindowsAssumption DEF Midnight
<1>3. Hours \subseteq Int /\ \A h \in Hours : h >= 0 /\ h < Midnight(LastToday + 1)
  BY <1>2 DEF Hours
<1>4. ASSUME NEW h \in Hours PROVE DayOf(h) \in Dates
  <2>1. h \in Int /\ h >= Midnight(0) /\ h < Midnight(LastToday + 1)
    BY <1>2, <1>3
  <2>2. DayOf(h) \in Int /\ 0 <= DayOf(h) /\ DayOf(h) < LastToday + 1
    BY <1>1, <2>1, DayIs
  <2> QED BY <1>1, <2>2 DEF Dates
<1> QED BY <1>1, <1>2, <1>3, <1>4 DEF Dates

\* A lane's dates are numbers.
LEMMA DatesAre == \A d \in Dates : d \in Nat /\ d \in Int
BY HoursAre

\* Later hours are of later dates.
LEMMA DaysGrow ==
  ASSUME NEW g \in Int, NEW h \in Int, g <= h
  PROVE  DayOf(g) \in Int /\ DayOf(h) \in Int /\ DayOf(g) <= DayOf(h)
<1>1. DayOf(g) \in Int BY DayIs
<1>2. Midnight(DayOf(g)) \in Int /\ Midnight(DayOf(g)) <= g BY <1>1, DayIs
<1>3. Midnight(DayOf(g)) <= h BY <1>2
<1> QED BY <1>1, <1>3, DayIs

\* The least and the greatest hour of some are theirs.
LEMMA SomeHours ==
  ASSUME NEW S \in SUBSET Hours, S # {}
  PROVE  /\ Least(S) \in S /\ Greatest(S) \in S /\ Least(S) \in Int /\ Greatest(S) \in Int
         /\ \A h \in S : Least(S) <= h /\ h <= Greatest(S)
<1>1. S \in SUBSET Int /\ \A h \in S : 0 <= h /\ h <= Midnight(LastToday + 1)
  BY HoursAre
<1>2. Midnight(LastToday + 1) \in Int
  BY HoursAre
<1>3. Least(S) \in S /\ \A t \in S : Least(S) <= t
  BY <1>1, LeastIs
<1>4. Greatest(S) \in S /\ \A t \in S : t <= Greatest(S)
  BY <1>1, <1>2, GreatestIs
<1> QED BY <1>1, <1>3, <1>4

\* The oldest date of some hours is before each one's.
LEMMA OldestIs ==
  ASSUME NEW S \in SUBSET Hours, NEW oldest, oldest = OldestDay(S)
  PROVE  /\ oldest \in Int \cup {None} /\ (oldest = None <=> S = {})
         /\ \A h \in S : DayOf(h) \in Int /\ oldest <= DayOf(h)
<1>1. CASE S = {}
  BY <1>1 DEF OldestDay
<1>2. CASE S # {}
  <2>1. /\ Least(S) \in Int /\ \A h \in S : h \in Int /\ Least(S) <= h
    BY <1>2, SomeHours, HoursAre
  <2>2. oldest = DayOf(Least(S))
    BY <1>2 DEF OldestDay
  <2>3. oldest \in Int /\ oldest # None
    BY <2>1, <2>2, DayIs, HoursAre
  <2>4. \A h \in S : DayOf(h) \in Int /\ oldest <= DayOf(h)
    BY <2>1, <2>2, DaysGrow
  <2> QED BY <1>2, <2>3, <2>4
<1> QED BY <1>1, <1>2

\* A start shown is not after the oldest stored date.
LEMMA ShownIs ==
  ASSUME NEW refused \in Int \cup {None}, NEW empty, NEW oldest \in Int \cup {None},
         NEW start, start = StartShown(refused, empty, oldest)
  PROVE  /\ start \in Int \cup {None}
         /\ start # None /\ oldest # None => start <= oldest
         /\ refused # None /\ (oldest = None \/ refused < oldest) => start = refused + 1
<1>1. None \notin Int
  BY LaneAssumption
<1>2. CASE refused # None /\ (oldest = None \/ refused < oldest)
  <2>1. start = refused + 1 /\ refused \in Int
    BY <1>2 DEF StartShown
  <2> QED BY <2>1, <1>1, <1>2
<1>3. CASE ~ (refused # None /\ (oldest = None \/ refused < oldest))
  <2>1. start = None \/ (start = oldest /\ oldest # None)
    BY <1>3 DEF StartShown
  <2> QED BY <2>1, <1>1, <1>3
<1> QED BY <1>2, <1>3

\* A lane's first date is its target's, or a later one its history starts on.
LEMMA FirstIs ==
  ASSUME NEW l \in LaneRecord, NEW S \in SUBSET Hours, NEW target \in Int,
         NEW first, first = FirstDay(l, S, target)
  PROVE  /\ first \in Int /\ target <= first
         /\ \A h \in S : target <= DayOf(h) => first <= DayOf(h)
         /\ \A through \in Int :
              /\ l.refusedThrough = through
              /\ \A h \in S : through < DayOf(h)
              => \A d \in Int : target <= d /\ through < d => first <= d
<1>1. PICK oldest : oldest = OldestDay(S)
  OBVIOUS
<1>2. /\ oldest \in Int \cup {None} /\ (oldest = None <=> S = {})
      /\ \A h \in S : DayOf(h) \in Int /\ oldest <= DayOf(h)
  BY <1>1, OldestIs
<1>3. l.refusedThrough \in Int \cup {None} /\ None \notin Int
  <2>1. l.refusedThrough \in Dates \cup {None} BY LaneIs
  <2>2. \A d \in Dates : d \in Int BY HoursAre
  <2> QED BY <2>1, <2>2, HoursAre
<1>4. PICK start : start = HistoryStart(l, oldest)
  OBVIOUS
<1>5. /\ start \in Int \cup {None}
      /\ start # None /\ oldest # None => start <= oldest
      /\ l.refusedThrough # None /\ (oldest = None \/ l.refusedThrough < oldest)
           => start = l.refusedThrough + 1
  <2>1. PICK through \in Int \cup {None} : through = l.refusedThrough BY <1>3
  <2>3. PICK empty : empty = l.empty OBVIOUS
  <2>2. start = StartShown(through, empty, oldest) BY <2>1, <2>3, <1>4 DEF HistoryStart
  <2>4. /\ start \in Int \cup {None}
        /\ start # None /\ oldest # None => start <= oldest
        /\ through # None /\ (oldest = None \/ through < oldest) => start = through + 1
    BY <2>2, <1>2, ShownIs
  <2> QED BY <2>1, <2>4
<1>6. first = IF start = None THEN target ELSE Larger(target, start)
  BY <1>1, <1>4 DEF FirstDay
<1>7. /\ first \in Int /\ target <= first /\ (start = None => first = target)
      /\ start # None => start \in Int /\ first \in {target, start}
  BY <1>5, <1>6, Chosen
<1>8. ASSUME NEW h \in S, target <= DayOf(h) PROVE first <= DayOf(h)
  <2>1. DayOf(h) \in Int /\ oldest \in Int /\ oldest # None /\ oldest <= DayOf(h)
    BY <1>2, <1>3
  <2> QED BY <2>1, <1>5, <1>7, <1>8
<1>9. ASSUME NEW through \in Int, l.refusedThrough = through,
             \A h \in S : through < DayOf(h),
             NEW d \in Int, target <= d, through < d
      PROVE  first <= d
  <2>1. oldest = None \/ through < oldest
    <3>1. CASE S = {}
      BY <3>1, <1>2
    <3>2. CASE S # {}
      <4>1. oldest = DayOf(Least(S)) BY <3>2, <1>1 DEF OldestDay
      <4>2. Least(S) \in S BY <3>2, SomeHours
      <4> QED BY <4>1, <4>2, <1>9
    <3> QED BY <3>1, <3>2
  <2>2. start = through + 1
    BY <2>1, <1>3, <1>5, <1>9
  <2> QED BY <2>2, <1>3, <1>7, <1>9
<1> QED BY <1>7, <1>8, <1>9

\* The first date a lane answers for is its target's, or a later one.
LEMMA FirstKnownIs ==
  ASSUME NEW l \in LaneRecord, NEW S \in SUBSET Hours, NEW target \in Int,
         NEW first, first = FirstKnownDay(l, S, target)
  PROVE  first \in Int /\ target <= first
<1>1. PICK oldest : oldest = OldestDay(S)
  OBVIOUS
<1>2. oldest \in Int \cup {None}
  BY <1>1, OldestIs
<1>3. /\ l.refusedThrough \in Int \cup {None} /\ l.knownRefused \in Int \cup {None}
  <2>1. {l.refusedThrough, l.knownRefused} \subseteq Dates \cup {None} BY LaneIs
  <2>2. \A d \in Dates : d \in Int BY HoursAre
  <2> QED BY <2>1, <2>2
<1>4. PICK refused : refused = IF l.refusedThrough # None THEN l.refusedThrough
                               ELSE l.knownRefused
  OBVIOUS
<1>5. PICK start : start = KnownStart(l, oldest)
  OBVIOUS
<1>6. start \in Int \cup {None}
  <2>1. StartShown(l.refusedThrough, l.empty, oldest) \in Int \cup {None}
    <3>1. PICK through \in Int \cup {None} : through = l.refusedThrough BY <1>3
    <3>2. PICK empty : empty = l.empty OBVIOUS
    <3>3. StartShown(through, empty, oldest) \in Int \cup {None} BY <1>2, ShownIs
    <3> QED BY <3>1, <3>2, <3>3
  <2>2. refused \in Int \cup {None} BY <1>3, <1>4
  <2>3. StartShown(refused, l.empty \cup l.knownEmpty, oldest) \in Int \cup {None}
    BY <1>2, <2>2, ShownIs
  <2> QED BY <1>4, <1>5, <2>1, <2>3 DEF KnownStart, HistoryStart
<1>7. first = IF start = None THEN target ELSE Larger(target, start)
  BY <1>1, <1>5 DEF FirstKnownDay
<1> QED BY <1>6, <1>7, Chosen

-------------------------------------------------------------------------------
(***************************************************************************)
(* Which dates a lane asks for.                                            *)
(***************************************************************************)
\* The target is a date within reach, before each one not confirmed that is.
LEMMA TargetIs ==
  ASSUME NEW date \in FirstToday .. LastToday, NEW start \in Dates \cup {None},
         NEW unsaved \in SUBSET Dates, NEW target, target = Target(date, start, unsaved)
  PROVE  /\ target \in Dates /\ ~ (target < date - Longest + 1)
         /\ \A d \in unsaved : target <= d \/ d < date - Longest + 1
<1>1. /\ date \in Int /\ Depth \in Int /\ Longest \in Int /\ 1 <= Depth /\ Depth <= Longest
      /\ Longest <= date /\ date <= LastToday /\ LastToday \in Int /\ None \notin Int
  BY LaneAssumption
<1>2. PICK S : S = {date - Depth} \cup ({start} \ {None}) \cup unsaved
  OBVIOUS
<1>3. S \in SUBSET Int /\ \A s \in S : 0 <= s
  <2>1. \A d \in Dates : d \in Int /\ 0 <= d BY HoursAre
  <2>2. \A s \in S : s = date - Depth \/ s \in Dates BY <1>2
  <2>3. \A s \in S : s \in Int /\ 0 <= s BY <1>1, <2>1, <2>2
  <2> QED BY <2>3
<1>4. S # {} /\ date - Depth \in S
  BY <1>2
<1>5. Least(S) \in S /\ \A t \in S : Least(S) <= t
  BY <1>3, <1>4, LeastIs
<1>6. PICK least \in Int : least = Least(S) /\ 0 <= least /\ least <= date - Depth
                           /\ \A d \in unsaved : least <= d
  BY <1>2, <1>3, <1>4, <1>5
<1>7. target = Larger(least, date - Longest + 1)
  BY <1>2, <1>6 DEF Target
<1>8. \A d \in unsaved : d \in Int
  BY HoursAre
<1> QED BY <1>1, <1>6, <1>7, <1>8 DEF Larger, Dates

\* What a lane no longer asks for is after the dates revised, or was the walk's.
LEMMA EndIs ==
  ASSUME StateOK, NEW from \in Int \cup {None},
         NEW end, end = CoverageEnd(today, Frontier, from)
  PROVE  /\ end \in Int /\ end <= today - Overlap + 1
         /\ \A d \in Int : /\ d < today - Overlap + 1
                           /\ stored # {} /\ d <= DayOf(Frontier)
                           /\ from = None \/ d < from
                           => d < end
         /\ from # None => end <= from
<1>1. /\ today \in Int /\ Overlap \in Int /\ None \notin Int
  BY LaneAssumption DEF StateOK
<1>2. PICK edge \in Int : edge = today - Overlap + 1
  BY <1>1
<1>3. PICK newest : newest = IF Frontier = None THEN {} ELSE {DayOf(Frontier) + 1}
  OBVIOUS
<1>4. newest \subseteq Int /\ \A n \in newest : stored # {} /\ n = DayOf(Frontier) + 1
  <2>1. CASE Frontier = None
    BY <2>1, <1>3
  <2>2. CASE Frontier # None
    <3>1. stored # {} /\ stored \subseteq Hours /\ Frontier = Greatest(stored)
      BY <2>2 DEF Frontier, StateOK
    <3>2. Frontier \in Int BY <3>1, SomeHours
    <3>3. DayOf(Frontier) + 1 \in Int BY <3>2, DayIs
    <3> QED BY <2>2, <3>1, <3>3, <1>3
  <2> QED BY <2>1, <2>2
<1>5. PICK S : S = {edge} \cup newest \cup ({from} \ {None})
  OBVIOUS
<1>6. end = Least(S)
  BY <1>2, <1>3, <1>5 DEF CoverageEnd
<1>7. \E low \in Int : \A s \in S : low <= s
  <2>1. PICK a \in Int : from = None \/ a = from
    BY <1>1
  <2>2. PICK b \in Int : \A n \in newest : b = n
    <3>1. CASE newest = {} BY <3>1
    <3>2. CASE newest # {}
      <4>1. PICK n \in newest : TRUE BY <3>2
      <4> QED BY <4>1, <1>4
    <3> QED BY <3>1, <3>2
  <2>3. PICK c \in Int : c <= a /\ c <= b BY Chosen
  <2>4. PICK e \in Int : e <= c /\ e <= edge BY Chosen
  <2>5. \A s \in S : e <= s
    BY <2>1, <2>2, <2>3, <2>4, <1>5
  <2> QED BY <2>5
<1>8. S \in SUBSET Int /\ S # {} /\ edge \in S
  BY <1>1, <1>4, <1>5
<1>9. end \in S /\ \A t \in S : end <= t
  BY <1>6, <1>7, <1>8, LeastIs
<1>10. ASSUME NEW d \in Int, d < edge, d <= DayOf(Frontier), from = None \/ d < from
       PROVE  d < end
  <2>1. end \in newest => d < end
    <3>1. end \in newest => DayOf(Frontier) + 1 \in Int /\ end = DayOf(Frontier) + 1
      BY <1>4
    <3>2. end \in newest => DayOf(Frontier) \in Int
      <4>1. end \in newest => stored # {} BY <1>4
      <4>2. stored # {} => Frontier \in Int BY SomeHours DEF StateOK, Frontier
      <4> QED BY <4>1, <4>2, DayIs
    <3> QED BY <3>1, <3>2, <1>10
  <2> QED BY <2>1, <1>5, <1>9, <1>10
<1>11. from # None => from \in S
  BY <1>5
<1> QED BY <1>2, <1>8, <1>9, <1>10, <1>11

\* The window a lane asks for next holds dates it asks for, each of them.
LEMMA SpanIs ==
  ASSUME NEW l, NEW dates \in SUBSET Dates, dates # {},
         NEW w, w = NewestSpan(l, dates)
  PROVE  /\ w \in DateWindow /\ w.first <= w.last /\ WindowDates(w) \subseteq dates
         /\ w.last - w.first < WindowDays
<1>1. Dates \subseteq Int /\ LastToday \in Int /\ \A d \in Dates : 0 <= d /\ d <= LastToday
  BY LaneAssumption DEF Dates
<1>2. dates \in SUBSET Int /\ \A d \in dates : d <= LastToday
  BY <1>1
<1>3. PICK last : last = Greatest(dates)
  OBVIOUS
<1>4. last \in dates /\ \A d \in dates : d <= last
  BY <1>1, <1>2, <1>3, GreatestIs
<1>5. PICK S : S = {first \in dates :
                      /\ first .. last \subseteq dates
                      /\ first = last \/ first .. last \cap Bad(l) = {}
                      /\ last - first < WindowDays}
  OBVIOUS
<1>6. w = Window(Least(S), last)
  BY <1>3, <1>5 DEF NewestSpan
<1>7. last \in S
  <2>1. last .. last = {last} /\ last - last = 0 BY <1>2, <1>4
  <2>2. 0 < WindowDays BY WindowsAssumption
  <2> QED BY <2>1, <2>2, <1>4, <1>5
<1>8. S \in SUBSET Int /\ \A d \in S : 0 <= d
  BY <1>1, <1>5
<1>9. Least(S) \in S /\ \A d \in S : Least(S) <= d
  BY <1>7, <1>8, LeastIs
<1>10. PICK first \in S : first = Least(S) /\ first <= last
  BY <1>7, <1>9
<1> QED BY <1>4, <1>5, <1>6, <1>10 DEF Window, DateWindow, WindowDates

-------------------------------------------------------------------------------
(***************************************************************************)
(* What Meridian returns for a window.                                     *)
(***************************************************************************)
\* A window of a lane is one of dates.
LEMMA WindowIs ==
  ASSUME NEW w \in DateWindow
  PROVE  /\ w \in AWindow /\ w.first \in Dates /\ w.last \in Dates
         /\ w.first \in Int /\ w.last \in Int
         /\ WindowDates(w) \subseteq Dates /\ WindowDates(w) \subseteq Int
<1>1. LastToday \in Int
  BY LaneAssumption
<1>2. w = [first |-> w.first, last |-> w.last] /\ w.first \in Dates /\ w.last \in Dates
  BY DEF DateWindow
<1>3. w.first \in 0 .. LastToday /\ w.last \in 0 .. LastToday
  BY <1>2 DEF Dates
<1>4. WindowDates(w) \subseteq 0 .. LastToday /\ WindowDates(w) \subseteq Int
  BY <1>1, <1>3 DEF WindowDates
<1>5. w.first \in Int /\ w.last \in Int
  BY <1>1, <1>3
<1>6. w \in AWindow
  BY <1>2, <1>5 DEF AWindow
<1> QED BY <1>2, <1>4, <1>5, <1>6 DEF Dates

\* Meridian's hours, and what it reads of a window, are of the window's dates.
LEMMA ReturnedIs ==
  ASSUME StateOK, NEW w, w.first \in Int, w.last \in Int
  PROVE  /\ Returned(w) \subseteq Hours /\ Returned(w) \subseteq meridian.has
         /\ \A h \in Returned(w) : DayOf(h) \in WindowDates(w) /\ h < Now
         /\ meridian.reads = "asked" =>
              Returned(w) = {h \in meridian.has : DayOf(h) \in WindowDates(w) /\ h < Now}
<1>1. meridian.has \subseteq Hours /\ meridian.reads \in Readings
  BY DEF StateOK, MeridianRecord
<1>2. WindowDates(Window(w.first, w.last - 1)) \subseteq WindowDates(w)
      /\ WindowDates(Window(w.first + 1, w.last)) \subseteq WindowDates(w)
  BY DEF WindowDates, Window
<1>3. Read(w) \subseteq Hours /\ \A h \in Read(w) : DayOf(h) \in WindowDates(w)
  <2>1. CASE meridian.reads = "asked" BY <2>1 DEF Read, InWindow
  <2>2. CASE meridian.reads = "no last date" BY <2>2, <1>2 DEF Read, InWindow
  <2>3. CASE meridian.reads = "no first date" BY <2>3, <1>2 DEF Read, InWindow
  <2>4. CASE meridian.reads = "no last hour" BY <2>4 DEF Read, InWindow
  <2>5. CASE meridian.reads = "no first hour" BY <2>5 DEF Read, InWindow
  <2> QED BY <1>1, <2>1, <2>2, <2>3, <2>4, <2>5 DEF Readings
<1>4. meridian.reads = "asked" => Read(w) = {h \in Hours : DayOf(h) \in WindowDates(w)}
  BY DEF Read, InWindow
<1> QED BY <1>1, <1>3, <1>4 DEF Returned

\* A refused window whose dates came back alone shows a start or none.
LEMMA CoverStartIs ==
  ASSUME NEW w \in DateWindow, w.first <= w.last,
         NEW start, start = CoverStart(w), start \notin {AllCame, RefusalFails}
  PROVE  /\ Refuses(w) /\ start \in Dates /\ w.first <= start /\ start <= w.last
         /\ \/ start \in meridian.refuses
            \/ start = w.last /\ w.last \notin DatesReturned(w.first - 1 .. w.last)
<1>1. Refuses(w) /\ MayBeRefusal(w) /\ w.first \in meridian.refuses
  BY DEF CoverStart, Refuses
<1>2. w \in AWindow
  BY WindowIs
<1>3. PICK readings : readings = DatesReturned(w.first - 1 .. w.last)
  OBVIOUS
<1>4. PICK newer \in BOOLEAN : newer = TRUE
  OBVIOUS
<1>5. PICK precedes \in BOOLEAN : precedes = FALSE
  OBVIOUS
<1>6. start = StartAfter(w, run.target, newer, precedes, readings, meridian.refuses)
  BY <1>1, <1>3, <1>4, <1>5 DEF CoverStart
<1>7. PICK oldest : oldest = run.target
  OBVIOUS
<1>8. PICK refusing : refusing = meridian.refuses
  OBVIOUS
<1>9. /\ start \in Int /\ w.first <= start /\ start <= w.last
      /\ start \in refusing \/ (newer /\ start = w.last /\ w.last \notin readings)
  <2>1. start = StartAfter(w, oldest, newer, precedes, readings, refusing)
    BY <1>6, <1>7, <1>8
  <2>2. w.first \in refusing BY <1>1, <1>8
  <2> QED BY <2>1, <2>2, <1>2, StartIn
<1>10. start \in Dates
  <2>1. LastToday \in Int /\ w.first \in 0 .. LastToday /\ w.last \in 0 .. LastToday
    BY WindowIs, LaneAssumption DEF Dates
  <2> QED BY <2>1, <1>9 DEF Dates
<1> QED BY <1>1, <1>3, <1>8, <1>9, <1>10

\* The rows kept of a window are of its dates, after the start it shows.
LEMMA CoverRowsAre ==
  ASSUME StateOK, NEW w \in DateWindow, w.first <= w.last
  PROVE  /\ CoverRows(w) \subseteq Hours /\ CoverRows(w) \subseteq meridian.has
         /\ \A h \in CoverRows(w) :
              /\ DayOf(h) \in WindowDates(w) /\ h >= Midnight(run.target) /\ h < Now
              /\ CoverStart(w) \notin {AllCame, RefusalFails} => CoverStart(w) < DayOf(h)
         /\ meridian.reads = "asked" /\ CoverStart(w) # RefusalFails =>
              \A h \in meridian.has :
                /\ DayOf(h) \in WindowDates(w) /\ h >= Midnight(run.target) /\ h < Now
                /\ CoverStart(w) = AllCame \/ CoverStart(w) < DayOf(h)
                => h \in CoverRows(w)
<1>1. /\ w.first \in Int /\ w.last \in Int /\ WindowDates(w) \subseteq Int
  BY WindowIs
<1>2. PICK start : start = CoverStart(w)
  OBVIOUS
<1>3. CASE ~ Refuses(w)
  <2>1. CoverRows(w) = {h \in Returned(w) : h >= Midnight(run.target)}
    BY <1>3 DEF CoverRows
  <2>2. CoverStart(w) = AllCame BY <1>3 DEF CoverStart
  <2> QED BY <2>1, <2>2, <1>1, ReturnedIs
<1>4. CASE Refuses(w)
  <2>1. CoverRows(w) =
          {h \in UNION {Returned(Window(d, d)) : d \in KeptDates(w, start)} :
             h >= Midnight(run.target)}
    BY <1>2, <1>4 DEF CoverRows
  <2>2. /\ KeptDates(w, start) \subseteq WindowDates(w)
        /\ start \notin {AllCame, RefusalFails} =>
              KeptDates(w, start) = {d \in WindowDates(w) : start < d}
        /\ start = AllCame => KeptDates(w, start) = WindowDates(w)
    <3>1. start = AllCame => KeptDates(w, start) = WindowDates(w)
      BY WindowsAssumption DEF KeptDates
    <3>2. PICK win : win = w OBVIOUS
    <3>3. /\ KeptDates(win, start) \subseteq WindowDates(win)
          /\ start \notin {AllCame, RefusalFails} =>
                KeptDates(win, start) = {d \in WindowDates(win) : start < d}
      BY KeptIn
    <3> QED BY <3>1, <3>2, <3>3
  <2>3. ASSUME NEW d \in KeptDates(w, start)
        PROVE  /\ Returned(Window(d, d)) \subseteq Hours
               /\ Returned(Window(d, d)) \subseteq meridian.has
               /\ \A h \in Returned(Window(d, d)) : DayOf(h) = d /\ h < Now
               /\ meridian.reads = "asked" =>
                    \A h \in meridian.has :
                      DayOf(h) = d /\ h < Now => h \in Returned(Window(d, d))
    <3>1. PICK one : one = Window(d, d) OBVIOUS
    <3>2. one.first = d /\ one.last = d /\ d \in Int
      BY <3>1, <2>2, <1>1 DEF Window
    <3>3. WindowDates(one) = {d} BY <3>2 DEF WindowDates
    <3>4. /\ Returned(one) \subseteq Hours /\ Returned(one) \subseteq meridian.has
          /\ \A h \in Returned(one) : DayOf(h) \in WindowDates(one) /\ h < Now
          /\ meridian.reads = "asked" =>
               Returned(one) = {h \in meridian.has : DayOf(h) \in WindowDates(one) /\ h < Now}
      BY <3>2, ReturnedIs
    <3> QED BY <3>1, <3>3, <3>4
  <2>4. ASSUME NEW h \in CoverRows(w)
        PROVE  /\ h \in Hours /\ h \in meridian.has
               /\ DayOf(h) \in WindowDates(w) /\ h >= Midnight(run.target) /\ h < Now
               /\ start \notin {AllCame, RefusalFails} => start < DayOf(h)
    <3>1. PICK d \in KeptDates(w, start) : h \in Returned(Window(d, d))
      BY <2>1
    <3>2. DayOf(h) = d /\ h \in Hours /\ h \in meridian.has /\ h < Now
      BY <3>1, <2>3
    <3>3. h >= Midnight(run.target) BY <2>1
    <3> QED BY <3>1, <3>2, <3>3, <2>2
  <2>5. ASSUME meridian.reads = "asked", start # RefusalFails,
               NEW h \in meridian.has,
               DayOf(h) \in WindowDates(w), h >= Midnight(run.target), h < Now,
               start = AllCame \/ start < DayOf(h)
        PROVE  h \in CoverRows(w)
    <3>1. DayOf(h) \in KeptDates(w, start)
      BY <2>2, <2>5
    <3>2. h \in Returned(Window(DayOf(h), DayOf(h)))
      BY <3>1, <2>3, <2>5
    <3> QED BY <3>1, <3>2, <2>1, <2>5
  <2> QED BY <2>4, <2>5, <1>2
<1> QED BY <1>3, <1>4

-------------------------------------------------------------------------------
(***************************************************************************)
(* The update's walk.                                                      *)
(***************************************************************************)
\* So many dates before now is an hour of the date that many before today.
LEMMA BackIs ==
  ASSUME StateOK, NEW k \in 0 .. FirstToday
  PROVE  /\ Now \in Int /\ DayOf(Now) = today
         /\ Now - k * HoursPerDay \in Int /\ DayOf(Now - k * HoursPerDay) = today - k
         /\ \A d \in Int : d < today => Midnight(d + 1) <= Now
<1> DEFINE H == HoursPerDay
<1>1. /\ H \in Nat /\ H > 0 /\ today \in Int /\ k \in Int
  BY WindowsAssumption, LaneAssumption DEF StateOK
<1>2. /\ H \div 2 \in Int /\ 0 <= H \div 2 /\ H \div 2 < H
  BY <1>1
<1>3. /\ Midnight(today) \in Int /\ Now = Midnight(today) + H \div 2 /\ Now \in Int
  BY <1>1, <1>2 DEF Midnight, Now
<1>4. /\ k * H \in Int /\ Midnight(today - k) = Midnight(today) - k * H
      /\ Midnight(today - k) \in Int
  BY <1>1 DEF Midnight
<1>5. PICK since \in Int : since = Now - k * H
  BY <1>3, <1>4
<1>6. Midnight(today - k) <= since /\ since < Midnight(today - k) + H
  BY <1>1, <1>2, <1>3, <1>4, <1>5
<1>7. today - k \in Int BY <1>1
<1>8. DayOf(since) = today - k
  <2>1. PICK d \in Int : d = today - k BY <1>7
  <2>2. Midnight(d + 1) = Midnight(d) + H BY DayIs
  <2>3. Midnight(d) <= since /\ since < Midnight(d + 1) BY <2>1, <2>2, <1>6
  <2> QED BY <2>1, <2>3, DayIs
<1>9. DayOf(Now) = today
  BY <1>1, <1>2, <1>3, DayIs
<1>10. ASSUME NEW d \in Int, d < today PROVE Midnight(d + 1) <= Now
  <2>1. PICK e \in Int : e = d + 1 BY <1>10
  <2>2. e <= DayOf(Now) BY <2>1, <1>1, <1>9, <1>10
  <2> QED BY <2>1, <2>2, <1>3, DayIs
<1> QED BY <1>3, <1>5, <1>8, <1>9, <1>10

\* A walk reaches back to a date of the lane, today or before it.
LEMMA CutoffIs ==
  ASSUME StateOK, NEW initial \in BOOLEAN, NEW since, since = Cutoff(initial)
  PROVE  /\ since \in Int /\ 0 <= DayOf(since) /\ DayOf(since) <= today
         /\ OldestAsked(since, today) = DayOf(since)
<1>1. /\ Depth \in 0 .. FirstToday /\ Overlap \in 0 .. FirstToday /\ today \in Int
      /\ FirstToday <= today /\ FirstToday \in Int
  BY LaneAssumption DEF StateOK
<1>2. PICK deep \in Int : deep = Now - Depth * HoursPerDay /\ DayOf(deep) = today - Depth
  BY <1>1, BackIs
<1>3. PICK near \in Int : near = Now - Overlap * HoursPerDay /\ DayOf(near) = today - Overlap
  BY <1>1, BackIs
<1>4. since \in Int /\ 0 <= DayOf(since) /\ DayOf(since) <= today
  <2>1. CASE since = deep
    BY <2>1, <1>1, <1>2
  <2>2. CASE since = near
    BY <2>2, <1>1, <1>3
  <2>3. CASE since \notin {deep, near}
    <3>1. Frontier # None /\ Frontier < near /\ since = Larger(deep, Frontier)
      BY <2>3, <1>2, <1>3 DEF Cutoff
    <3>2. Frontier \in Int
      <4>1. stored # {} /\ stored \subseteq Hours /\ Frontier = Greatest(stored)
        BY <3>1 DEF Frontier, StateOK
      <4> QED BY <4>1, SomeHours
    <3>3. since = Frontier /\ deep <= Frontier
      BY <2>3, <3>1, <3>2 DEF Larger
    <3>4. DayOf(deep) <= DayOf(since) /\ DayOf(since) <= DayOf(near) /\ DayOf(since) \in Int
      BY <3>1, <3>2, <3>3, DaysGrow
    <3> QED BY <3>2, <3>3, <3>4, <1>1, <1>2, <1>3
  <2> QED BY <2>1, <2>2, <2>3
<1>5. OldestAsked(since, today) = DayOf(since)
  BY <1>1, <1>4, DayIs DEF OldestAsked, Smaller
<1> QED BY <1>4, <1>5

\* What of a walk the lane is noted.
WalkOK(walk) ==
  /\ walk.since \in Int
  /\ walk.rows \subseteq {h \in meridian.has : h >= walk.since}
  /\ walk.start \in Dates \cup {None} /\ walk.completed \in Dates \cup {None}
  /\ walk.failing \subseteq Dates
  /\ \A w \in walk.kept :
       /\ w \in DateWindow /\ walk.completed # None /\ walk.completed <= w.first
       /\ {h \in Has(w) : h >= walk.since} \subseteq walk.rows

\* Windows planned back from today, a first few of which a walk kept.
LEMMA WalkOfPlan ==
  ASSUME StateOK, NEW since \in Int, NEW m \in Nat, NEW ws,
         \A k \in 1 .. m : /\ ws[k] \in DateWindow /\ ws[k].first <= ws[k].last
                           /\ \A j \in 1 .. k - 1 : ws[k].last < ws[j].first,
         NEW n \in 0 .. m, NEW refused \in SUBSET meridian.has,
         NEW start \in Dates \cup {None}, NEW failing \in BOOLEAN,
         start # None \/ failing => n < m,
         NEW walk, walk = Walk(since, ws, n, refused, start, failing)
  PROVE  WalkOK(walk)
<1>1. /\ walk.since = since /\ walk.kept = {ws[k] : k \in 1 .. n} /\ walk.start = start
      /\ walk.rows = {h \in refused \cup UNION {Has(ws[k]) : k \in 1 .. n} : h >= since}
      /\ walk.completed = IF start # None THEN ws[n + 1].first
                          ELSE IF n = 0 THEN None ELSE ws[n].first
      /\ walk.failing = IF failing THEN WindowDates(ws[n + 1]) ELSE {}
  BY DEF Walk
<1>2. \A w : Has(w) \subseteq meridian.has
  BY DEF Has, InWindow
<1>3. walk.rows \subseteq {h \in meridian.has : h >= since}
  <2>1. refused \cup UNION {Has(ws[k]) : k \in 1 .. n} \subseteq meridian.has BY <1>2
  <2> QED BY <2>1, <1>1
<1>4. n \in Int /\ n <= m /\ m \in Int /\ n >= 0
  OBVIOUS
<1>5. start # None => ws[n + 1].first \in Dates
  <2>1. ASSUME start # None PROVE n + 1 \in 1 .. m BY <2>1, <1>4
  <2>2. start # None => ws[n + 1] \in DateWindow BY <2>1
  <2> QED BY <2>2 DEF DateWindow
<1>6. walk.completed \in Dates \cup {None}
  <2>1. CASE n = 0 BY <2>1, <1>1, <1>5
  <2>2. CASE n # 0
    <3>1. n \in 1 .. m BY <2>2, <1>4
    <3>2. ws[n].first \in Dates BY <3>1, WindowIs
    <3> QED BY <3>2, <1>1, <1>5
  <2> QED BY <2>1, <2>2
<1>7. walk.failing \subseteq Dates
  <2>1. CASE failing
    <3>1. n + 1 \in 1 .. m BY <2>1, <1>4
    <3>2. WindowDates(ws[n + 1]) \subseteq Dates BY <3>1, WindowIs
    <3> QED BY <2>1, <3>2, <1>1
  <2>2. CASE ~ failing BY <2>2, <1>1
  <2> QED BY <2>1, <2>2
<1>8. ASSUME NEW k \in 1 .. n
      PROVE  /\ ws[k] \in DateWindow /\ walk.completed # None
             /\ walk.completed <= ws[k].first
             /\ {h \in Has(ws[k]) : h >= since} \subseteq walk.rows
  <2>1. k \in 1 .. m /\ n \in 1 .. m /\ n # 0 /\ k <= n BY <1>4
  <2>2. /\ ws[k] \in DateWindow /\ ws[k].first \in Int /\ ws[n].first \in Int
        /\ ws[n].last \in Int
    BY <2>1, WindowIs
  <2>3. {h \in Has(ws[k]) : h >= since} \subseteq walk.rows BY <1>1
  <2>4. ws[n].first <= ws[k].first
    <3>1. CASE k = n BY <3>1, <2>2
    <3>2. CASE k # n
      <4>1. k \in 1 .. n - 1 BY <2>1, <3>2
      <4>2. ws[n].last < ws[k].first /\ ws[n].first <= ws[n].last BY <2>1, <4>1
      <4> QED BY <4>2, <2>2
    <3> QED BY <3>1, <3>2
  <2>5. CASE start = None
    <3>1. walk.completed = ws[n].first BY <2>1, <2>5, <1>1
    <3> QED BY <3>1, <2>2, <2>3, <2>4, HoursAre
  <2>6. CASE start # None
    <3>1. n + 1 \in 1 .. m /\ k \in 1 .. (n + 1) - 1 BY <2>1, <2>6, <1>4
    <3>2. ws[n + 1].last < ws[k].first /\ ws[n + 1].first <= ws[n + 1].last
      BY <3>1
    <3>3. ws[n + 1].first \in Int /\ ws[n + 1].last \in Int BY <3>1, WindowIs
    <3>4. walk.completed = ws[n + 1].first BY <2>6, <1>1
    <3> QED BY <3>2, <3>3, <3>4, <2>2, <2>3, HoursAre
  <2> QED BY <2>5, <2>6
<1> QED BY <1>1, <1>3, <1>6, <1>7, <1>8 DEF WalkOK

\* Every walk of an update is such a one.
LEMMA WalkIs ==
  ASSUME StateOK, NEW initial \in BOOLEAN, NEW walk \in Walks(Cutoff(initial))
  PROVE  WalkOK(walk)
<1>1. PICK since : since = Cutoff(initial)
  OBVIOUS
<1>2. /\ since \in Int /\ 0 <= DayOf(since) /\ DayOf(since) <= today
      /\ OldestAsked(since, today) = DayOf(since)
  BY <1>1, CutoffIs
<1>3. PICK ws : ws = PlanWindows(since, today)
  OBVIOUS
<1>4. today \in Int /\ LastToday \in Int /\ today <= LastToday
  BY LaneAssumption DEF StateOK
<1>5. PICK first : first = OldestAsked(since, today)
  OBVIOUS
<1>6. PICK m \in Nat \ {0} :
        /\ first \in Int /\ first <= today
        /\ ws = [k \in 1 .. m |-> ws[k]]
        /\ \A k \in 1 .. m :
             /\ ws[k] \in AWindow /\ ws[k].first <= ws[k].last
             /\ first <= ws[k].first
             /\ ws[k].last - ws[k].first < WindowDays
             /\ ws[k].last = IF k = 1 THEN today ELSE ws[k - 1].first - 1
             /\ \A j \in 1 .. k - 1 : ws[k].last < ws[j].first
        /\ ws[m].first = first
  BY <1>2, <1>3, <1>4, <1>5, PlanCovers
<1>7. Len(ws) = m
  <2>1. ws \in [1 .. m -> AWindow] BY <1>6
  <2> QED BY <2>1
<1>8. ASSUME NEW k \in 1 .. m PROVE ws[k] \in DateWindow /\ ws[k].last <= today
  <2>1. /\ ws[k].first \in Int /\ ws[k].last \in Int /\ ws[k].first <= ws[k].last
        /\ first <= ws[k].first /\ ws[k] = [first |-> ws[k].first, last |-> ws[k].last]
    BY <1>6 DEF AWindow
  <2>2. ws[k].last <= today
    <3>1. CASE k = 1
      <4>1. ws[k].last = today BY <3>1, <1>6
      <4> QED BY <4>1, <1>4
    <3>2. CASE k # 1
      <4>1. 1 \in 1 .. k - 1 /\ 1 \in 1 .. m BY <3>2
      <4>2. ws[k].last < ws[1].first /\ ws[1].first <= ws[1].last /\ ws[1].last = today
        BY <4>1, <1>6
      <4>3. ws[1].first \in Int BY <4>1, <1>6 DEF AWindow
      <4> QED BY <4>2, <4>3, <2>1, <1>4
    <3> QED BY <3>1, <3>2
  <2>3. 0 <= ws[k].first
    BY <2>1, <1>2, <1>5, <1>6
  <2>4. ws[k].first \in Dates /\ ws[k].last \in Dates
    BY <2>1, <2>2, <2>3, <1>4 DEF Dates
  <2> QED BY <2>1, <2>2, <2>4 DEF DateWindow
<1>9. \E n \in 0 .. m, refused \in SUBSET meridian.has, start \in Dates \cup {None},
         failing \in BOOLEAN :
        /\ start # None \/ failing => n < m
        /\ walk = Walk(since, ws, n, refused, start, failing)
  <2>1. PICK no \in BOOLEAN : no = FALSE OBVIOUS
  <2>2. PICK yes \in BOOLEAN : yes = TRUE OBVIOUS
  <2>3. \/ \E n \in 1 .. m : walk = Walk(since, ws, n, {}, None, no)
        \/ \E n \in 1 .. m, dates \in SUBSET Dates, start \in Dates :
             walk = Walk(since, ws, n - 1, UNION {Has(Window(d, d)) : d \in dates}, start, no)
        \/ \E n \in 1 .. m : walk = Walk(since, ws, n - 1, {}, None, yes)
    <3> DEFINE W == PlanWindows(since, today)
               Fetched(n) == UNION {Has(W[k]) : k \in 1 .. n}
               Start(n) == StartAfter(W[n + 1], DayOf(since), Fetched(n) # {}, stored = {},
                    {d \in Dates : Has(Window(d, d)) # {}}, meridian.refuses)
               Answered(n) == \A k \in 1 .. n : ~ Refuses(W[k])
               counts == 1 .. Len(W)
               Ended == {k \in counts : Answered(k) /\ (k = Len(W) \/ Has(W[k]) = {})}
               Began == {k \in counts : Answered(k - 1) /\ Refuses(W[k])
                  /\ Start(k - 1) \in Dates
                  /\ \A h \in stored : h < since - 1 \/ DayOf(h) > Start(k - 1)}
               Failed == {k \in counts : Answered(k - 1)}
    <3>1. walk \in Walks(since) BY <1>1
    <3>2. walk \in
            {Walk(since, W, n, {}, None, FALSE) : n \in Ended}
            \cup {Walk(since, W, n - 1,
                    UNION {Has(Window(d, d)) : d \in KeptDates(W[n], Start(n - 1))},
                    Start(n - 1), FALSE) : n \in Began}
            \cup {Walk(since, W, n - 1, {}, None, TRUE) : n \in Failed}
      BY <3>1 DEF Walks
    <3>3. Ended \subseteq 1 .. m /\ Failed \subseteq 1 .. m
          /\ \A n \in Began : n \in 1 .. m /\ Start(n - 1) \in Dates
      BY <1>3, <1>7
    <3>4. W = ws BY <1>3
    <3> HIDE DEF Ended, Began, Failed, Start, W
    <3>5. ASSUME NEW n \in Ended, walk = Walk(since, W, n, {}, None, FALSE)
          PROVE  \E k \in 1 .. m : walk = Walk(since, ws, k, {}, None, no)
      <4>1. n \in 1 .. m BY <3>3
      <4>2. walk = Walk(since, ws, n, {}, None, no) BY <3>4, <3>5, <2>1
      <4> QED BY <4>1, <4>2
    <3>6. ASSUME NEW n \in Failed, walk = Walk(since, W, n - 1, {}, None, TRUE)
          PROVE  \E k \in 1 .. m : walk = Walk(since, ws, k - 1, {}, None, yes)
      <4>1. n \in 1 .. m BY <3>3
      <4>2. walk = Walk(since, ws, n - 1, {}, None, yes) BY <3>4, <3>6, <2>2
      <4> QED BY <4>1, <4>2
    <3>7. ASSUME NEW n \in Began,
                 walk = Walk(since, W, n - 1,
                          UNION {Has(Window(d, d)) : d \in KeptDates(W[n], Start(n - 1))},
                          Start(n - 1), FALSE)
          PROVE  \E k \in 1 .. m, dates \in SUBSET Dates, start \in Dates :
                   walk = Walk(since, ws, k - 1, UNION {Has(Window(d, d)) : d \in dates}, start, no)
      <4>1. n \in 1 .. m /\ Start(n - 1) \in Dates BY <3>3
      <4>2. PICK start \in Dates : start = Start(n - 1) BY <4>1
      <4>3. PICK dates : dates = KeptDates(W[n], start) OBVIOUS
      <4>5. dates \in SUBSET Dates
        <5>1. PICK w \in DateWindow : w = W[n] BY <4>1, <3>4, <1>8
        <5>2. dates \subseteq WindowDates(w) BY <5>1, <4>3, KeptIn
        <5> QED BY <5>1, <5>2, WindowIs
      <4>4. walk = Walk(since, ws, n - 1, UNION {Has(Window(d, d)) : d \in dates}, start, no)
        BY <3>4, <3>7, <4>2, <4>3, <2>1
      <4> QED BY <4>1, <4>4, <4>5
    <3> QED BY <3>2, <3>5, <3>6, <3>7
  <2>4. CASE \E n \in 1 .. m : walk = Walk(since, ws, n, {}, None, no)
    <3>1. PICK n \in 1 .. m : walk = Walk(since, ws, n, {}, None, no) BY <2>4
    <3>2. n \in 0 .. m OBVIOUS
    <3> QED BY <3>1, <3>2, <2>1
  <2>5. CASE \E n \in 1 .. m, dates \in SUBSET Dates, start \in Dates :
             walk = Walk(since, ws, n - 1, UNION {Has(Window(d, d)) : d \in dates}, start, no)
    <3>1. PICK n \in 1 .. m, dates \in SUBSET Dates, start \in Dates :
             walk = Walk(since, ws, n - 1, UNION {Has(Window(d, d)) : d \in dates}, start, no)
      BY <2>5
    <3>2. n - 1 \in 0 .. m /\ n - 1 < m OBVIOUS
    <3>3. UNION {Has(Window(d, d)) : d \in dates} \in SUBSET meridian.has
      BY DEF Has, InWindow
    <3> QED BY <3>1, <3>2, <3>3
  <2>6. CASE \E n \in 1 .. m : walk = Walk(since, ws, n - 1, {}, None, yes)
    <3>1. PICK n \in 1 .. m : walk = Walk(since, ws, n - 1, {}, None, yes) BY <2>6
    <3>2. n - 1 \in 0 .. m /\ n - 1 < m OBVIOUS
    <3> QED BY <3>1, <3>2
  <2> QED BY <2>3, <2>4, <2>5, <2>6
<1>10. PICK n \in 0 .. m, refused \in SUBSET meridian.has, start \in Dates \cup {None},
            failing \in BOOLEAN :
         /\ start # None \/ failing => n < m
         /\ walk = Walk(since, ws, n, refused, start, failing)
  BY <1>9
<1>11. \A k \in 1 .. m : /\ ws[k] \in DateWindow /\ ws[k].first <= ws[k].last
                         /\ \A j \in 1 .. k - 1 : ws[k].last < ws[j].first
  BY <1>6, <1>8
<1>12. m \in Nat BY <1>6
<1> HIDE <1>6, <1>9
<1> QED BY <1>2, <1>10, <1>11, <1>12, WalkOfPlan

\* What is left out of a walk's import ends on a date.
LEMMA LeftOutIs ==
  ASSUME StateOK, NEW walk, WalkOK(walk)
  PROVE  /\ LeftOutThrough(walk) \in Int \cup {None}
         /\ walk.completed # None => FetchedFrom(walk) \in Int
<1>1. /\ walk.rows \subseteq Hours /\ WalkStored(walk) \subseteq Hours
      /\ today \in Int /\ None \notin Int
  BY LaneAssumption DEF StateOK, WalkOK, WalkStored, MeridianRecord
<1>2. PICK holes : holes = Holes(walk.rows, WalkStored(walk))
  OBVIOUS
<1>3. holes \in SUBSET Hours
  BY <1>1, <1>2 DEF Holes
<1>4. holes # {} => DayOf(Greatest(holes)) \in Int
  BY <1>3, SomeHours, DayIs
<1>5. LeftOutThrough(walk) \in Int \cup {None}
  BY <1>1, <1>2, <1>4 DEF LeftOutThrough
<1>6. ASSUME walk.completed # None PROVE FetchedFrom(walk) \in Int
  <2>1. walk.completed \in Int
    <3>1. walk.completed \in Dates BY <1>6 DEF WalkOK
    <3> QED BY <3>1, DatesAre
  <2>2. PICK first \in Int :
          first = IF Midnight(walk.completed) < walk.since THEN walk.completed + 1
                  ELSE walk.completed
    BY <2>1
  <2>3. PICK left : left = LeftOutThrough(walk)
    OBVIOUS
  <2>4. FetchedFrom(walk) = IF left = None THEN first ELSE Larger(first, left + 1)
    BY <2>2, <2>3 DEF FetchedFrom
  <2>5. left # None => left + 1 \in Int BY <1>5, <2>3
  <2> QED BY <2>2, <2>4, <2>5, Chosen
<1> QED BY <1>5, <1>6

\* A date a walk fetched in full is not before the first it did.
LEMMA WalkDatesAre ==
  ASSUME StateOK, NEW walk, WalkOK(walk), NEW newest, NEW d \in WalkDates(walk, newest)
  PROVE  /\ d \in Dates /\ Midnight(d) >= walk.since /\ d < newest
         /\ walk.completed # None /\ FetchedFrom(walk) <= d
         /\ LeftOutThrough(walk) = None \/ d > LeftOutThrough(walk)
         /\ \E w \in walk.kept : d \in WindowDates(w)
<1>1. PICK w \in walk.kept : d \in WindowDates(w)
  BY DEF WalkDates
<1>2. /\ d < newest /\ Midnight(d) >= walk.since
      /\ LeftOutThrough(walk) = None \/ d > LeftOutThrough(walk)
  BY DEF WalkDates
<1>3. /\ w \in DateWindow /\ walk.completed # None /\ walk.completed <= w.first
  BY <1>1 DEF WalkOK
<1>4. d \in Dates /\ d \in Int /\ w.first <= d /\ w.first \in Int
  BY <1>1, <1>3, WindowIs DEF WindowDates
<1>5. walk.completed \in Int /\ walk.completed <= d
  <2>1. walk.completed \in Dates BY <1>3 DEF WalkOK
  <2>2. w.first \in Int /\ d \in Int /\ walk.completed \in Int BY <2>1, <1>4, DatesAre
  <2> QED BY <2>2, <1>3, <1>4
<1>6. PICK left : left = LeftOutThrough(walk)
  OBVIOUS
<1>7. left \in Int \cup {None} /\ (left = None \/ d > left) /\ None \notin Int
  BY <1>2, <1>6, LeftOutIs, HoursAre
<1>8. Midnight(walk.completed) < walk.since => walk.completed + 1 <= d
  <2>1. Midnight(walk.completed) < walk.since => walk.completed # d
    <3>1. walk.since \in Int /\ Midnight(d) \in Int BY <1>4, DayIs DEF WalkOK
    <3> QED BY <3>1, <1>2
  <2> QED BY <2>1, <1>4, <1>5
<1>9. PICK first \in Int :
        /\ first = IF Midnight(walk.completed) < walk.since THEN walk.completed + 1
                   ELSE walk.completed
        /\ first <= d
  BY <1>5, <1>8, <1>4
<1>10. FetchedFrom(walk) = IF left = None THEN first ELSE Larger(first, left + 1)
  BY <1>6, <1>9 DEF FetchedFrom
<1>11. FetchedFrom(walk) <= d
  <2>1. CASE left = None BY <2>1, <1>9, <1>10
  <2>2. CASE left # None
    <3>1. left \in Int /\ left + 1 <= d BY <2>2, <1>4, <1>7
    <3> QED BY <2>2, <3>1, <1>9, <1>10 DEF Larger
  <2> QED BY <2>1, <2>2
<1> QED BY <1>1, <1>2, <1>3, <1>4, <1>11

\* What a walk leaves the lane m of l: dates of it fetched in full, and of these
\* the ones whose stored hours its import wrote again wait no longer.
WalkNoted(m, l, walk, frontier, taken, settled) ==
  /\ settled \subseteq taken
  /\ \A d \in taken : /\ frontier # None /\ d \in WalkDates(walk, DayOf(frontier))
                      /\ d < today - Overlap
  /\ \A d \in settled : Within(WalkStored(walk) \cap HoursOf(d), WalkImports(walk))
  /\ m \in LaneRecord /\ m.fetched = l.fetched \cup taken
  /\ m.revised = l.revised /\ m.revising = l.revising /\ m.reaches = l.reaches
  /\ m.knownFetched = l.knownFetched
  /\ Bad(m) = Bad(l) \ settled /\ m.unsaved = l.unsaved \ settled
  /\ \A d : Shown(m, d) =>
       \/ Shown(l, d)
       \/ walk.start # None /\ d <= walk.start
       \/ frontier # None /\ d \in WalkDates(walk, DayOf(frontier)) \ DaysOf(walk.rows)
  /\ Counted(l) => Counted(m)

\* A walk leaves the lane so.
LEMMA NoteWalkIs ==
  ASSUME StateOK, NEW l \in LaneRecord, NEW walk, WalkOK(walk),
         NEW frontier, NEW m, m = NoteWalk(l, walk, frontier)
  PROVE  \E taken, settled \in SUBSET Dates :
           WalkNoted(m, l, walk, frontier, taken, settled)
<1>1. PICK started : started = IF walk.start = None THEN l
                               ELSE [l EXCEPT !.refusedThrough = walk.start]
  OBVIOUS
<1>2. /\ started \in LaneRecord /\ started.fetched = l.fetched
      /\ started.revised = l.revised /\ started.revising = l.revising
      /\ started.reaches = l.reaches /\ started.knownFetched = l.knownFetched
      /\ started.bad = l.bad /\ started.tries = l.tries /\ started.unsaved = l.unsaved
      /\ started.empty = l.empty /\ started.knownEmpty = l.knownEmpty
      /\ started.knownRefused = l.knownRefused
      /\ started.refusedThrough = l.refusedThrough
         \/ (walk.start # None /\ started.refusedThrough = walk.start)
  <2>1. CASE walk.start = None BY <2>1, <1>1
  <2>2. CASE walk.start # None
    <3>1. walk.start \in Dates \cup {None} BY DEF WalkOK
    <3>2. started = [l EXCEPT !.refusedThrough = walk.start] BY <2>2, <1>1
    <3> QED BY <2>2, <3>1, <3>2 DEF LaneRecord
  <2> QED BY <2>1, <2>2
<1>3. Bad(started) = Bad(l) /\ (Counted(l) => Counted(started))
  BY <1>2 DEF Bad, Counted
<1>6. \A d : Shown(started, d) => Shown(l, d) \/ (walk.start # None /\ d <= walk.start)
  BY <1>2 DEF Shown
<1>4. CASE frontier = None
  <2>1. m = started BY <1>1, <1>4 DEF NoteWalk
  <2>2. PICK none \in SUBSET Dates : none = {} OBVIOUS
  <2>3. WalkNoted(m, l, walk, frontier, none, none)
    BY <1>2, <1>3, <1>6, <2>1, <2>2 DEF WalkNoted
  <2> QED BY <2>3
<1>5. CASE frontier # None
  <2>1. PICK dates : dates = WalkDates(walk, DayOf(frontier))
    OBVIOUS
  <2>2. dates \subseteq Dates
    BY <2>1, WalkDatesAre
  <2>3. PICK returned : returned = dates \cap DaysOf(walk.rows)
    OBVIOUS
  <2>4. PICK gap : gap = dates \ (DaysOf(walk.rows) \cup DaysOf(WalkStored(walk)))
    OBVIOUS
  <2>5. PICK taken : taken = {d \in returned \cup gap : d < today - Overlap}
    OBVIOUS
  <2>6. PICK noted : noted = [started EXCEPT !.empty = (@ \ returned) \cup gap,
                               !.knownEmpty = @ \ returned,
                               !.fetched = @ \cup taken]
    OBVIOUS
  <2>7. PICK settled : settled = ReplayedDates(taken, WalkImports(walk), WalkStored(walk), {}, {})
    OBVIOUS
  <2>8. m = Settle(noted, settled)
    BY <1>1, <1>5, <2>1, <2>3, <2>4, <2>5, <2>6, <2>7 DEF NoteWalk
  <2>9. returned \subseteq Dates /\ gap \subseteq Dates /\ taken \subseteq Dates
        /\ taken \subseteq dates
    BY <2>2, <2>3, <2>4, <2>5
  <2>10. /\ noted \in LaneRecord /\ noted.fetched = l.fetched \cup taken
         /\ noted.revised = l.revised /\ noted.revising = l.revising
         /\ noted.reaches = l.reaches /\ noted.knownFetched = l.knownFetched
         /\ noted.bad = l.bad /\ noted.tries = l.tries /\ noted.unsaved = l.unsaved
         /\ noted.empty = (started.empty \ returned) \cup gap
         /\ noted.knownEmpty = started.knownEmpty \ returned
         /\ noted.refusedThrough = started.refusedThrough
         /\ noted.knownRefused = started.knownRefused
    BY <1>2, <2>6, <2>9, LaneIs DEF LaneRecord
  <2>11. Bad(noted) = Bad(l) /\ (Counted(l) => Counted(noted))
    BY <2>10 DEF Bad, Counted
  <2>12. /\ m \in LaneRecord /\ SameKnown(m, noted)
         /\ Bad(m) = Bad(noted) \ settled /\ m.unsaved = noted.unsaved \ settled
         /\ Counted(noted) => Counted(m)
    BY <2>8, <2>10, SettleIs
  <2>13. settled \subseteq taken
         /\ \A d \in settled : Within(WalkStored(walk) \cap HoursOf(d), WalkImports(walk))
    BY <2>7 DEF ReplayedDates
  <2>14. \A d \in taken : d < today - Overlap
    BY <2>5
  <2>17. \A d : Shown(m, d) => Shown(started, d) \/ d \in dates \ DaysOf(walk.rows)
    BY <2>4, <2>10, <2>12 DEF Shown, SameKnown
  <2>15. WalkNoted(m, l, walk, frontier, taken, settled)
    BY <1>5, <1>6, <2>1, <2>9, <2>10, <2>11, <2>12, <2>13, <2>14, <2>17
       DEF SameKnown, WalkNoted
  <2>16. settled \in SUBSET Dates BY <2>9, <2>13
  <2> QED BY <2>9, <2>15, <2>16
<1> QED BY <1>4, <1>5

\* An hour a replay wrote again is in its span.
LEMMA WithinIs ==
  ASSUME NEW X \in SUBSET Hours, NEW S \in SUBSET Hours, Within(X, S), NEW h \in X
  PROVE  h \in Span(S)
<1>1. S # {} /\ Least(S) <= Least(X) /\ Greatest(X) <= Greatest(S)
  BY DEF Within
<1>2. /\ Least(S) \in Int /\ Greatest(S) \in Int
      /\ Least(X) \in Int /\ Greatest(X) \in Int /\ Least(X) <= h /\ h <= Greatest(X)
  BY <1>1, SomeHours
<1>3. h \in Int BY HoursAre
<1>4. PICK low \in Int : low = Least(S) BY <1>2
<1>5. PICK high \in Int : high = Greatest(S) BY <1>2
<1>6. low <= h /\ h <= high
  BY <1>1, <1>2, <1>3, <1>4, <1>5
<1>7. Span(S) = low .. high
  BY <1>1, <1>4, <1>5 DEF Span
<1> QED BY <1>3, <1>6, <1>7

\* Time leaves what waits waiting.
LEMMA AgedIs ==
  ASSUME NEW l \in LaneRecord, NEW hours \in Nat,
         NEW m, m = [l EXCEPT !.bad = [d \in Dates |-> Memory!Left(@[d], hours)]]
  PROVE  /\ m \in LaneRecord /\ SameKnown(m, l) /\ Bad(m) = Bad(l)
         /\ m.unsaved = l.unsaved /\ (Counted(l) => Counted(m))
<1>1. PICK bad : bad = [d \in Dates |-> Memory!Left(l.bad[d], hours)]
  OBVIOUS
<1>2. m = [l EXCEPT !.bad = bad]
  BY <1>1
<1>3. \A d \in Dates : l.bad[d] \in Memory!Waits \cup {None}
  BY LaneIs
<1>4. /\ bad \in [Dates -> Memory!Waits \cup {None}]
      /\ \A d \in Dates : bad[d] = None <=> l.bad[d] = None
  BY <1>1, <1>3, WaitsAre
<1>5. /\ m \in LaneRecord /\ SameKnown(m, l) /\ m.bad = bad /\ m.tries = l.tries
      /\ m.unsaved = l.unsaved
  BY <1>2, <1>4 DEF LaneRecord, SameKnown
<1>6. Bad(m) = Bad(l)
  BY <1>4, <1>5 DEF Bad
<1> QED BY <1>5, <1>6 DEF Counted

-------------------------------------------------------------------------------
(***************************************************************************)
(* Each step keeps the invariant.                                          *)
(***************************************************************************)
\* Nothing is stored, torn or owed as a behaviour begins.
LEMMA InitIInv == Init => IInv
<1> SUFFICES ASSUME Init PROVE IInv
  OBVIOUS
<1>1. PICK trial \in Trials : meridian \in trial.meridians /\ stored \in trial.stored
  BY DEF Init
<1>2. /\ meridian \in MeridianRecord /\ stored \subseteq Hours
      /\ FirstToday \in FirstToday .. LastToday /\ 0 \in Dates
  BY <1>1, LaneAssumption DEF Dates
<1>3. /\ today = FirstToday /\ billing = None /\ lane = NewLane
      /\ kept = [d \in Dates |-> None] /\ phase = "waiting" /\ run = Idle
      /\ torn = {} /\ late = {} /\ owed = {} /\ calm = FALSE
  BY DEF Init
<1>4. Idle \in RunRecord
  <2>1. Window(0, 0) \in DateWindow BY <1>2 DEF Window, DateWindow
  <2> QED BY <2>1, <1>2 DEF Idle, RunRecord
<1>5. lane \in LaneRecord /\ Bad(lane) = {} /\ {d \in Dates : lane.tries[d] > 0} = {}
      /\ lane.unsaved = {}
  <2>1. /\ NewLane.bad = [d \in Dates |-> None] /\ NewLane.tries = [d \in Dates |-> 0]
        /\ NewLane.unsaved = {}
    BY DEF NewLane
  <2>2. /\ [d \in Dates |-> None] \in [Dates -> Memory!Waits \cup {None}]
        /\ [d \in Dates |-> 0] \in [Dates -> 0 .. MostFailures]
    BY WaitsAre
  <2>3. NewLane \in LaneRecord BY <2>2 DEF NewLane, LaneRecord
  <2> QED BY <1>3, <2>1, <2>3 DEF Bad
<1>6. StateOK
  BY <1>2, <1>3, <1>4 DEF StateOK
<1>7. WaitsAreCounted /\ TornOK /\ KeptOK /\ Owed
  BY <1>3, <1>5 DEF WaitsAreCounted, TornOK, KeptOK, Owed
<1>8. Aimed /\ HasRead /\ Rows /\ Reported
  BY <1>3 DEF Aimed, HasRead, Rows, Reported, During, Open
<1> QED BY <1>5, <1>6, <1>7, <1>8 DEF IInv

\* What waits is counted, whatever lane it is of.
LEMMA CountedIs == WaitsAreCounted <=> Counted(lane)
BY DEF WaitsAreCounted, Counted

\* An hour, or the rest of a date, passes.
LEMMA TimeKeeps == IInv /\ TimePasses => IInv'
<1> SUFFICES ASSUME IInv, TimePasses PROVE IInv'
  OBVIOUS
<1>1. /\ phase = "waiting" /\ phase' = "waiting"
      /\ UNCHANGED <<billing, meridian, stored, run, torn, late, owed, calm>>
  BY DEF TimePasses, history
<1>2. PICK hours \in Nat :
        /\ lane' = [lane EXCEPT !.bad = [d \in Dates |-> Memory!Left(@[d], hours)]]
        /\ kept' = [d \in Dates |-> Memory!Left(kept[d], hours)]
  <2>1. LongestBackoff \in Nat /\ 1 \in Nat BY LaneAssumption
  <2> QED BY <2>1 DEF TimePasses, Aged, Tried
<1>3. today' \in FirstToday .. LastToday /\ today \in Int /\ today' \in Int /\ today <= today'
  BY LaneAssumption DEF TimePasses, IInv, StateOK
<1>4. /\ lane' \in LaneRecord /\ SameKnown(lane', lane) /\ Bad(lane') = Bad(lane)
      /\ lane'.unsaved = lane.unsaved /\ Counted(lane')
  <2>1. lane \in LaneRecord /\ Counted(lane) BY CountedIs DEF IInv
  <2>2. PICK m : m = lane' OBVIOUS
  <2>3. /\ m \in LaneRecord /\ SameKnown(m, lane) /\ Bad(m) = Bad(lane)
        /\ m.unsaved = lane.unsaved /\ (Counted(lane) => Counted(m))
    BY <1>2, <2>1, <2>2, AgedIs
  <2> QED BY <2>1, <2>2, <2>3
<1>5. /\ kept' \in [Dates -> Memory!Waits \cup {None}]
      /\ \A d \in Dates : kept'[d] = None <=> kept[d] = None
  <2>1. \A d \in Dates : kept[d] \in Memory!Waits \cup {None} BY DEF IInv, StateOK
  <2> QED BY <2>1, <1>2, WaitsAre
<1>6. StateOK'
  BY <1>1, <1>3, <1>5 DEF IInv, StateOK
<1>7. WaitsAreCounted'
  BY <1>4 DEF WaitsAreCounted, Counted, Bad
<1>8. Aimed' /\ HasRead' /\ Rows' /\ Reported'
  BY <1>1 DEF Aimed, HasRead, Rows, Reported, During, Open
<1>9. ASSUME NEW d \in Dates
      PROVE  /\ Past(d) => Past(d)'
             /\ d < today - Overlap + 1 => d < today' - Overlap + 1
  BY <1>3, DatesAre, LaneAssumption DEF Past
<1>10. TornOK'
  <2>1. \A h \in torn : DayOf(h) \in Dates
    BY HoursAre DEF IInv, StateOK
  <2>2. \A h \in torn : DayOf(h) \in lane'.unsaved \/ Past(DayOf(h))'
    <3> TAKE h \in torn
    <3>1. DayOf(h) \in lane.unsaved \/ Past(DayOf(h)) BY DEF IInv, TornOK
    <3>2. PICK d \in Dates : d = DayOf(h) BY <2>1
    <3>3. Past(d) => Past(d)' BY <1>9
    <3>4. Past(DayOf(h)) => Past(DayOf(h))' BY <3>2, <3>3 DEF Past
    <3> QED BY <3>1, <3>4, <1>4
  <2>3. torn' \subseteq stored' /\ phase' # "settling"
    BY <1>1 DEF IInv, TornOK
  <2> QED BY <2>2, <2>3, <1>1 DEF TornOK, Past
<1>11. KeptOK'
  <2>1. lane.unsaved \subseteq Dates BY LaneIs DEF IInv
  <2> QED BY <2>1, <1>1, <1>4, <1>5 DEF IInv, KeptOK
<1>12. Owed'
  <2>1. owed \subseteq Dates BY DEF IInv, StateOK
  <2>2. \A d \in owed : d < today' - Overlap + 1
    <3> TAKE d \in owed
    <3>1. d \in Dates /\ d < today - Overlap + 1 BY <2>1 DEF IInv, Owed
    <3> QED BY <3>1, <1>9
  <2>3. Bad(lane)' = Bad(lane) BY <1>4 DEF Bad
  <2> QED BY <2>2, <2>3, <1>1, <1>4 DEF IInv, Owed, During, SameKnown
<1> QED BY <1>4, <1>6, <1>7, <1>8, <1>10, <1>11, <1>12 DEF IInv

\* Meridian, or the billing period, changes between two updates.
LEMMA ChangesKeep == IInv /\ (BillingMoves \/ MeridianChanges) => IInv'
<1> SUFFICES ASSUME IInv, BillingMoves \/ MeridianChanges PROVE IInv'
  OBVIOUS
<1>1. /\ phase = "waiting" /\ phase' = "waiting" /\ calm' = FALSE
      /\ UNCHANGED <<today, stored, lane, kept, run, torn, owed>>
  BY DEF BillingMoves, MeridianChanges
<1>2. billing' \in Dates \cup {None}
  BY LaneAssumption DEF BillingMoves, MeridianChanges, IInv, StateOK
<1>3. meridian' \in MeridianRecord /\ late' \subseteq Hours
  <2>1. CASE BillingMoves
    BY <2>1 DEF BillingMoves, IInv, StateOK
  <2>2. CASE MeridianChanges
    <3>1. PICK h \in Hours :
            \/ meridian' = [meridian EXCEPT !.has = @ \cup {h}] /\ late' = late \cup {h}
            \/ meridian' = [meridian EXCEPT !.revised = @ \cup {h}] /\ late' = late
            \/ meridian' = [meridian EXCEPT !.has = @ \ {h}, !.revised = @ \ {h}]
                 /\ late' = late
      BY <2>2 DEF MeridianChanges
    <3> QED BY <3>1 DEF IInv, StateOK, MeridianRecord
  <2> QED BY <2>1, <2>2
<1>4. StateOK'
  BY <1>1, <1>2, <1>3 DEF IInv, StateOK
<1>5. WaitsAreCounted' /\ TornOK' /\ KeptOK' /\ Owed'
  BY <1>1 DEF IInv, WaitsAreCounted, TornOK, KeptOK, Owed, Bad, Past, During, FirstDay
<1>6. Aimed' /\ HasRead' /\ Rows' /\ Reported'
  BY <1>1 DEF Aimed, HasRead, Rows, Reported, During, Open
<1> QED BY <1>1, <1>4, <1>5, <1>6 DEF IInv

\* The next coordinator is handed the dates not confirmed, or nothing.
LEMMA ReloadKeeps == IInv /\ Reload => IInv'
<1> SUFFICES ASSUME IInv, Reload PROVE IInv'
  OBVIOUS
<1>1. /\ phase \in {"waiting", "gone"} /\ phase' = "waiting" /\ run' = Idle
      /\ owed' = {} /\ calm' = FALSE
      /\ UNCHANGED <<today, billing, meridian, stored, late>>
      /\ lane' = RestoreUnsaved(NewLane, kept')
  BY DEF Reload
<1>2. \/ kept' = kept /\ torn' = torn
      \/ kept' = [d \in Dates |-> None] /\ torn' = {}
  BY DEF Reload
<1>3. kept' \in [Dates -> Memory!Waits \cup {None}] /\ torn' \subseteq torn
  BY <1>2 DEF IInv, StateOK
<1>4. /\ lane' \in LaneRecord /\ Counted(lane') /\ lane'.fetched = {}
      /\ lane'.unsaved = {d \in Dates : kept'[d] # None}
  <2>1. PICK retries \in [Dates -> Memory!Waits \cup {None}] : retries = kept'
    BY <1>3
  <2>2. PICK m : m = lane' OBVIOUS
  <2> QED BY <1>1, <2>1, <2>2, RestoreIs
<1>5. Idle \in RunRecord
  <2>1. 0 \in Dates BY LaneAssumption DEF Dates
  <2>2. Window(0, 0) \in DateWindow BY <2>1 DEF Window, DateWindow
  <2> QED BY <2>1, <2>2 DEF Idle, RunRecord
<1>6. StateOK'
  BY <1>1, <1>3, <1>5 DEF IInv, StateOK
<1>7. WaitsAreCounted'
  BY <1>4 DEF WaitsAreCounted, Counted, Bad
<1>8. KeptOK' /\ Owed' /\ Aimed' /\ HasRead' /\ Rows' /\ Reported'
  BY <1>1, <1>4 DEF KeptOK, Owed, Aimed, HasRead, Rows, Reported, During, Open
<1>9. TornOK'
  <2>1. \A h \in torn' : DayOf(h) \in lane'.unsaved \/ Past(DayOf(h))
    <3> TAKE h \in torn'
    <3>1. kept' = kept /\ h \in torn BY <1>2
    <3>2. DayOf(h) \in lane.unsaved \/ Past(DayOf(h)) BY <3>1 DEF IInv, TornOK
    <3>3. \A d \in lane.unsaved : d \in Dates /\ kept[d] # None
      BY <1>1, LaneIs DEF IInv, KeptOK
    <3> QED BY <3>1, <3>2, <3>3, <1>4
  <2> QED BY <2>1, <1>1, <1>3 DEF IInv, TornOK, Past
<1> QED BY <1>4, <1>6, <1>7, <1>8, <1>9 DEF IInv

\* An update hands its dates not confirmed to the owner.
LEMMA EndKeeps == IInv /\ EndUpdate => IInv'
<1> SUFFICES ASSUME IInv, EndUpdate PROVE IInv'
  OBVIOUS
<1>1. /\ phase \in {"walked", "settled"} /\ phase' \in {"waiting", "gone"}
      /\ kept' = UnsavedRetries(lane)
      /\ UNCHANGED <<today, billing, meridian, stored, lane, torn, late, owed, calm>>
  BY DEF EndUpdate, history
<1>2. run' \in RunRecord
  <2>1. 0 \in Dates BY LaneAssumption DEF Dates
  <2>2. Window(0, 0) \in DateWindow BY <2>1 DEF Window, DateWindow
  <2>3. PICK complete \in BOOLEAN : complete = (run.complete \/ run.ok)
    OBVIOUS
  <2>4. run' = [Idle EXCEPT !.complete = complete] BY <2>3 DEF EndUpdate
  <2> QED BY <2>1, <2>2, <2>4 DEF Idle, RunRecord
<1>3. /\ kept' \in [Dates -> Memory!Waits \cup {None}]
      /\ \A d \in lane.unsaved : kept'[d] # None
  <2>1. /\ \A d \in Dates : lane.bad[d] \in Memory!Waits \cup {None}
        /\ lane.unsaved \subseteq Dates
    BY LaneIs DEF IInv
  <2>2. kept' = [d \in Dates |-> IF d \notin lane.unsaved THEN None
                                 ELSE IF lane.bad[d] = None THEN 0 ELSE lane.bad[d]]
    BY <1>1 DEF UnsavedRetries
  <2>3. 0 # None BY LaneAssumption
  <2> QED BY <2>1, <2>2, <2>3, WaitsAre
<1>4. StateOK'
  BY <1>1, <1>2, <1>3 DEF IInv, StateOK
<1>5. WaitsAreCounted' /\ KeptOK'
  BY <1>1, <1>3 DEF IInv, WaitsAreCounted, KeptOK, Bad
<1>6. Aimed' /\ HasRead' /\ Rows' /\ Reported'
  BY <1>1 DEF Aimed, HasRead, Rows, Reported, During, Open
<1>7. TornOK'
  BY <1>1 DEF IInv, TornOK, Past
<1>8. Owed'
  BY <1>1 DEF IInv, Owed, Bad, During
<1> QED BY <1>1, <1>4, <1>5, <1>6, <1>7, <1>8 DEF IInv

-------------------------------------------------------------------------------
(***************************************************************************)
(* Imports, and the update that walks.                                     *)
(***************************************************************************)
\* An import adds hours, some of whose steps it may leave wrong.
LEMMA ImportIs ==
  ASSUME StateOK, torn \subseteq stored, NEW changes \in SUBSET Hours,
         Confirmed(changes) \/ (Unconfirmed(changes) /\ changes # {})
  PROVE  /\ stored \subseteq stored' /\ stored' \subseteq stored \cup changes
         /\ stored' \subseteq Hours
         /\ torn' \subseteq torn \cup changes /\ torn' \subseteq stored'
         /\ Confirmed(changes) => stored' = stored \cup changes /\ torn' = torn \ Span(changes)
         /\ meridian' \in MeridianRecord /\ meridian'.has = meridian.has
         /\ meridian'.reads = meridian.reads /\ meridian'.refuses = meridian.refuses
<1>1. /\ stored \subseteq Hours /\ torn \subseteq Hours /\ meridian \in MeridianRecord
  BY DEF StateOK
<1>2. CASE Confirmed(changes)
  <2>1. /\ stored' = stored \cup changes /\ torn' = torn \ Span(changes)
        /\ meridian' = [meridian EXCEPT !.revised = @ \ changes]
    BY <1>2 DEF Confirmed
  <2> QED BY <2>1, <1>1 DEF MeridianRecord
<1>3. CASE UNCHANGED <<stored, torn, meridian>> /\ ~ Confirmed(changes)
  BY <1>1, <1>3
<1>4. CASE SavedUnshifted(changes) /\ changes # {} /\ ~ Confirmed(changes)
  <2>1. Greatest(changes) \in changes
    BY <1>4, SomeHours
  <2>2. /\ stored' = stored \cup changes /\ torn' \subseteq torn \cup {Greatest(changes)}
        /\ meridian' = [meridian EXCEPT !.revised = @ \ changes]
    BY <1>4 DEF SavedUnshifted
  <2> QED BY <2>1, <2>2, <1>1, <1>4 DEF MeridianRecord
<1> QED BY <1>2, <1>3, <1>4 DEF Unconfirmed

\* The hours stored of a date at or after the target are what the update reads.
LEMMA ReadIs ==
  ASSUME NEW S \in SUBSET Hours, NEW target \in Dates, NEW h \in S
  PROVE  /\ DayOf(h) \in Dates /\ DayOf(h) \in Int /\ target \in Int /\ h \in Int
         /\ h >= Midnight(target) <=> target <= DayOf(h)
         /\ h \in HoursOf(DayOf(h))
         /\ Midnight(DayOf(h)) <= h /\ Midnight(DayOf(h)) \in Int
<1>1. DayOf(h) \in Dates /\ DayOf(h) \in Int /\ target \in Int /\ h \in Int
  BY HoursAre, DatesAre
<1>2. h >= Midnight(target) <=> target <= DayOf(h)
  BY <1>1, DayIs
<1>3. PICK d \in Int : d = DayOf(h)
  BY <1>1
<1>4. Midnight(d) <= h /\ h < Midnight(d + 1) /\ Midnight(d) \in Int
      /\ Midnight(d + 1) \in Int
  <2>1. d + 1 \in Int OBVIOUS
  <2>2. Midnight(d + 1) \in Int BY <2>1, DayIs
  <2> QED BY <1>1, <1>3, <2>2, DayIs
<1> QED BY <1>1, <1>2, <1>3, <1>4 DEF HoursOf

\* An update after its walk: what it imported, the dates this took and the ones
\* of these that wait no longer.
WalkChanges(walk) == IF walk.completed # None THEN WalkImports(walk) ELSE {}

UpdateTook(walk, taken, settled) ==
  /\ \E initial \in BOOLEAN : walk \in Walks(Cutoff(initial))
  /\ WalkOK(walk) /\ settled \subseteq taken
  /\ \A d \in taken : /\ walk.completed # None /\ d \in WalkDates(walk, DayOf(Frontier'))
                      /\ d < today - Overlap
  /\ \A d \in settled : Within(WalkStored(walk) \cap HoursOf(d), WalkChanges(walk))
  /\ Confirmed(WalkChanges(walk)) /\ WalkChanges(walk) \in SUBSET Hours
  /\ lane' \in LaneRecord /\ lane'.fetched = lane.fetched \cup taken
  /\ lane'.knownFetched = lane.knownFetched
  /\ lane'.revised = lane.revised /\ lane'.revising = lane.revising
  /\ \A d : Shown(lane', d) =>
       \/ Shown(lane, d)
       \/ walk.start # None /\ d <= walk.start
       \/ /\ walk.completed # None
          /\ d \in WalkDates(walk, DayOf(Frontier')) \ DaysOf(walk.rows)
          /\ Frontier' # None
  /\ Bad(lane) \ settled \subseteq Bad(lane') /\ lane'.unsaved = lane.unsaved \ settled
  /\ Counted(lane')
  /\ run' \in RunRecord /\ run'.energy = {h \in stored' : h >= Midnight(run'.target)}
  /\ run'.target \in Dates /\ ~ (run'.target < today - Longest + 1)
  /\ \A d \in lane.unsaved : run'.target <= d \/ d < today - Longest + 1
  /\ run'.fetchedFrom = IF walk.completed # None THEN FetchedFrom(walk) ELSE None
  /\ late' = late \ UNION {HoursOf(d) : d \in lane'.fetched \ lane.fetched}
  /\ owed' = {d \in owed : walk.completed = None \/ d < FetchedFrom(walk)}
  /\ calm' \in BOOLEAN

\* An update walks, and reads what is then stored from its target on.
LEMMA UpdateIs ==
  ASSUME IInv, Update
  PROVE  \E walk : \E taken, settled \in SUBSET Dates : UpdateTook(walk, taken, settled)
<1>1. /\ StateOK /\ lane \in LaneRecord /\ Counted(lane) /\ phase = "waiting"
      /\ phase' = "walked" /\ UNCHANGED <<today, billing, kept>>
  BY CountedIs DEF IInv, Update
<1>2. PICK initial \in BOOLEAN : \E walk \in Walks(Cutoff(initial)) :
       LET target == Target(today, billing, lane.unsaved)
           imports == walk.completed # None
           ok == walk.failing = {}
           energy == {h \in stored' : h >= Midnight(target)}
           noted == IF imports THEN NoteWalk(lane, walk, Frontier') ELSE lane
           after == IF ok THEN noted ELSE NoteWalkFailure(noted, walk)
       IN  /\ Confirmed(IF imports THEN WalkImports(walk) ELSE {})
           /\ lane' = [after EXCEPT !.reaches = @ \/ (ok /\ energy = {})]
           /\ run' = [run EXCEPT
                !.energy = energy, !.target = target, !.asked = 0, !.ok = ok,
                !.fetchedFrom = IF imports THEN FetchedFrom(walk) ELSE None,
                !.covers = run.complete /\ ok /\ energy # {} /\ ~ initial]
           /\ late' = late \ UNION {HoursOf(d) : d \in after.fetched \ lane.fetched}
           /\ owed' = {d \in owed : ~ imports \/ d < FetchedFrom(walk)}
           /\ calm' = (calm /\ ok)
  BY ZenonT(40) DEF Update
<1>3. PICK walk \in Walks(Cutoff(initial)) :
       LET target == Target(today, billing, lane.unsaved)
           imports == walk.completed # None
           ok == walk.failing = {}
           energy == {h \in stored' : h >= Midnight(target)}
           noted == IF imports THEN NoteWalk(lane, walk, Frontier') ELSE lane
           after == IF ok THEN noted ELSE NoteWalkFailure(noted, walk)
       IN  /\ Confirmed(IF imports THEN WalkImports(walk) ELSE {})
           /\ lane' = [after EXCEPT !.reaches = @ \/ (ok /\ energy = {})]
           /\ run' = [run EXCEPT
                !.energy = energy, !.target = target, !.asked = 0, !.ok = ok,
                !.fetchedFrom = IF imports THEN FetchedFrom(walk) ELSE None,
                !.covers = run.complete /\ ok /\ energy # {} /\ ~ initial]
           /\ late' = late \ UNION {HoursOf(d) : d \in after.fetched \ lane.fetched}
           /\ owed' = {d \in owed : ~ imports \/ d < FetchedFrom(walk)}
           /\ calm' = (calm /\ ok)
  BY <1>2
<1>4. PICK target : target = Target(today, billing, lane.unsaved)
  OBVIOUS
<1>5. PICK energy : energy = {h \in stored' : h >= Midnight(target)}
  OBVIOUS
<1>6. PICK noted : noted = IF walk.completed # None THEN NoteWalk(lane, walk, Frontier')
                           ELSE lane
  OBVIOUS
<1>7. PICK after : after = IF walk.failing = {} THEN noted ELSE NoteWalkFailure(noted, walk)
  OBVIOUS
<1>8. PICK changes : changes = WalkChanges(walk)
  OBVIOUS
<1>9. PICK from : from = IF walk.completed # None THEN FetchedFrom(walk) ELSE None
  OBVIOUS
<1>10. /\ Confirmed(changes)
       /\ lane' = [after EXCEPT !.reaches = @ \/ (walk.failing = {} /\ energy = {})]
       /\ run' = [run EXCEPT
            !.energy = energy, !.target = target, !.asked = 0, !.ok = walk.failing = {},
            !.fetchedFrom = from,
            !.covers = run.complete /\ walk.failing = {} /\ energy # {} /\ ~ initial]
       /\ late' = late \ UNION {HoursOf(d) : d \in after.fetched \ lane.fetched}
       /\ owed' = {d \in owed : walk.completed = None \/ d < FetchedFrom(walk)}
       /\ calm' = (calm /\ walk.failing = {})
  BY <1>3, <1>4, <1>5, <1>6, <1>7, <1>8, <1>9 DEF WalkChanges
<1>11. WalkOK(walk)
  BY <1>1, WalkIs
<1> HIDE <1>2, <1>3
<1>12. /\ target \in Dates /\ ~ (target < today - Longest + 1)
       /\ \A d \in lane.unsaved : target <= d \/ d < today - Longest + 1
  <2>1. /\ today \in FirstToday .. LastToday /\ billing \in Dates \cup {None}
        /\ lane.unsaved \in SUBSET Dates
    BY <1>1, LaneIs DEF StateOK
  <2>2. PICK start \in Dates \cup {None} : start = billing BY <2>1
  <2>3. PICK date \in FirstToday .. LastToday : date = today BY <2>1
  <2>4. PICK unsaved \in SUBSET Dates : unsaved = lane.unsaved BY <2>1
  <2>5. target = Target(date, start, unsaved) BY <1>4, <2>2, <2>3, <2>4
  <2> QED BY <2>2, <2>3, <2>4, <2>5, TargetIs
<1>13. PICK taken \in SUBSET Dates, settled \in SUBSET Dates :
         /\ settled \subseteq taken
         /\ \A d \in taken : /\ walk.completed # None /\ d < today - Overlap
                             /\ d \in WalkDates(walk, DayOf(Frontier'))
         /\ \A d \in settled : Within(WalkStored(walk) \cap HoursOf(d), changes)
         /\ noted \in LaneRecord /\ noted.fetched = lane.fetched \cup taken
         /\ noted.knownFetched = lane.knownFetched
         /\ noted.revised = lane.revised /\ noted.revising = lane.revising
         /\ Bad(noted) = Bad(lane) \ settled /\ noted.unsaved = lane.unsaved \ settled
         /\ \A d : Shown(noted, d) =>
              \/ Shown(lane, d)
              \/ walk.start # None /\ d <= walk.start
              \/ /\ walk.completed # None
                 /\ d \in WalkDates(walk, DayOf(Frontier')) \ DaysOf(walk.rows)
                 /\ Frontier' # None
         /\ Counted(noted)
  <2>1. CASE walk.completed = None
    <3>1. noted = lane BY <2>1, <1>6
    <3>2. {} \in SUBSET Dates OBVIOUS
    <3> QED BY <3>1, <3>2, <1>1
  <2>2. CASE walk.completed # None
    <3>1. PICK frontier : frontier = Frontier' OBVIOUS
    <3>2. noted = NoteWalk(lane, walk, frontier) /\ changes = WalkImports(walk)
      BY <2>2, <3>1, <1>6, <1>8 DEF WalkChanges
    <3>5. StateOK /\ lane \in LaneRecord /\ WalkOK(walk) BY <1>1, <1>11
    <3>6. PICK l \in LaneRecord : l = lane BY <3>5
    <3>7. noted = NoteWalk(l, walk, frontier) BY <3>2, <3>6
    <3>3. PICK taken, settled \in SUBSET Dates :
            WalkNoted(noted, l, walk, frontier, taken, settled)
      BY <3>5, <3>7, NoteWalkIs
    <3> QED BY <2>2, <3>1, <3>2, <3>3, <3>6, <1>1 DEF WalkNoted
  <2> QED BY <2>1, <2>2
<1>14. /\ after \in LaneRecord /\ after.fetched = noted.fetched
       /\ after.knownFetched = noted.knownFetched
       /\ after.revised = noted.revised /\ after.revising = noted.revising
       /\ Bad(noted) \subseteq Bad(after) /\ after.unsaved = noted.unsaved /\ Counted(after)
       /\ \A d : Shown(after, d) => Shown(noted, d)
  <2>1. CASE walk.failing = {}
    BY <2>1, <1>7, <1>13
  <2>2. CASE walk.failing # {}
    <3>1. PICK dates \in SUBSET Dates : dates = {d \in walk.failing : d < today - Overlap}
      BY <1>11 DEF WalkOK
    <3>2. PICK unsaved \in BOOLEAN : unsaved = FALSE OBVIOUS
    <3>3. after = Fail(noted, dates, unsaved)
      BY <2>2, <3>1, <3>2, <1>7 DEF NoteWalkFailure
    <3>5. noted \in LaneRecord BY <1>13
    <3>4. /\ after \in LaneRecord /\ SameKnown(after, noted)
          /\ Bad(after) = Bad(noted) \cup dates
          /\ after.unsaved = IF unsaved THEN noted.unsaved \cup dates ELSE noted.unsaved
          /\ Counted(noted) => Counted(after)
      BY <3>3, <3>5, FailIs
    <3>6. \A d : Shown(after, d) => Shown(noted, d) BY <3>4 DEF Shown, SameKnown
    <3> QED BY <3>2, <3>4, <3>6, <1>13 DEF SameKnown
  <2> QED BY <2>1, <2>2
<1>15. /\ lane' \in LaneRecord /\ lane'.fetched = lane.fetched \cup taken
       /\ lane'.knownFetched = lane.knownFetched /\ lane'.fetched = after.fetched
       /\ lane'.revised = lane.revised /\ lane'.revising = lane.revising
       /\ Bad(lane) \ settled \subseteq Bad(lane') /\ lane'.unsaved = lane.unsaved \ settled
       /\ Counted(lane') /\ \A d : Shown(lane', d) => Shown(after, d)
  <2>1. PICK reaches \in BOOLEAN :
          reaches = (after.reaches \/ (walk.failing = {} /\ energy = {}))
    OBVIOUS
  <2>2. lane' = [after EXCEPT !.reaches = reaches]
    BY <2>1, <1>10
  <2>3. /\ lane' \in LaneRecord /\ lane'.fetched = after.fetched
        /\ lane'.knownFetched = after.knownFetched
        /\ lane'.revised = after.revised /\ lane'.revising = after.revising
        /\ lane'.bad = after.bad /\ lane'.tries = after.tries
        /\ lane'.unsaved = after.unsaved
        /\ lane'.empty = after.empty /\ lane'.knownEmpty = after.knownEmpty
        /\ lane'.refusedThrough = after.refusedThrough
        /\ lane'.knownRefused = after.knownRefused
    BY <2>2, <1>14 DEF LaneRecord
  <2>4. Bad(lane') = Bad(after) /\ (Counted(after) => Counted(lane'))
    BY <2>3 DEF Bad, Counted
  <2>5. \A d : Shown(lane', d) => Shown(after, d) BY <2>3 DEF Shown
  <2> QED BY <2>3, <2>4, <2>5, <1>13, <1>14
<1>16. changes \in SUBSET Hours
  <2>1. WalkImports(walk) \subseteq walk.rows
    BY ImportsFetched DEF WalkImports
  <2>2. walk.rows \subseteq Hours
    BY <1>1, <1>11 DEF WalkOK, StateOK, MeridianRecord
  <2> QED BY <2>1, <2>2, <1>8 DEF WalkChanges
<1>17. stored' \subseteq Hours
  BY <1>1, <1>10, <1>16, ImportIs DEF IInv, TornOK
<1>18. /\ run' \in RunRecord /\ run'.energy = energy /\ run'.target = target
       /\ run'.fetchedFrom = from
  <2>1. energy \subseteq Hours BY <1>5, <1>17
  <2>2. from \in Int \cup {None} BY <1>1, <1>9, <1>11, LeftOutIs
  <2>3. PICK ok \in BOOLEAN : ok = (walk.failing = {}) OBVIOUS
  <2>4. PICK covers \in BOOLEAN :
          covers = (run.complete /\ walk.failing = {} /\ energy # {} /\ ~ initial)
    OBVIOUS
  <2>5. run' = [run EXCEPT !.energy = energy, !.target = target, !.asked = 0, !.ok = ok,
                           !.fetchedFrom = from, !.covers = covers]
    BY <2>3, <2>4, <1>10
  <2> QED BY <2>1, <2>2, <2>5, <1>1, <1>12 DEF StateOK, RunRecord
<1>19. calm' \in BOOLEAN
  <2>1. PICK ok \in BOOLEAN : ok = (walk.failing = {}) OBVIOUS
  <2>2. calm' = (calm /\ ok) BY <2>1, <1>10
  <2> QED BY <2>2, <1>1 DEF StateOK
<1>21. \A d : Shown(lane', d) =>
         \/ Shown(lane, d)
         \/ walk.start # None /\ d <= walk.start
         \/ /\ walk.completed # None
            /\ d \in WalkDates(walk, DayOf(Frontier')) \ DaysOf(walk.rows)
            /\ Frontier' # None
  BY <1>13, <1>14, <1>15
<1>20. UpdateTook(walk, taken, settled)
  BY <1>5, <1>8, <1>9, <1>10, <1>11, <1>12, <1>13, <1>15, <1>16, <1>18, <1>19, <1>21
     DEF UpdateTook
<1> QED BY <1>20

\* It keeps the invariant.
LEMMA UpdateKeeps == IInv /\ Update => IInv'
<1> SUFFICES ASSUME IInv, Update PROVE IInv'
  OBVIOUS
<1>1. /\ StateOK /\ lane \in LaneRecord /\ Counted(lane) /\ phase = "waiting"
      /\ phase' = "walked" /\ UNCHANGED <<today, billing, kept>>
  BY CountedIs DEF IInv, Update
<1>2. PICK walk : \E taken, settled \in SUBSET Dates : UpdateTook(walk, taken, settled)
  BY UpdateIs
<1>3. PICK taken, settled \in SUBSET Dates : UpdateTook(walk, taken, settled)
  BY <1>2
<1>4. PICK changes \in SUBSET Hours : changes = WalkChanges(walk)
  BY <1>3 DEF UpdateTook
<1>5. PICK from : from = IF walk.completed # None THEN FetchedFrom(walk) ELSE None
  OBVIOUS
<1>6. PICK target : target = run'.target
  OBVIOUS
<1>7. PICK energy : energy = {h \in stored' : h >= Midnight(target)}
  OBVIOUS
<1>8. Confirmed(changes)
  BY <1>3, <1>4 DEF UpdateTook
<1>9. /\ WalkOK(walk) /\ settled \subseteq taken
      /\ \A d \in settled : Within(WalkStored(walk) \cap HoursOf(d), changes)
  BY <1>3, <1>4 DEF UpdateTook
<1>10. \A d \in taken : walk.completed # None /\ FetchedFrom(walk) <= d /\ Midnight(d) >= walk.since
  BY <1>1, <1>3, <1>9, WalkDatesAre DEF UpdateTook
<1>11. /\ target \in Dates /\ ~ (target < today - Longest + 1)
       /\ \A d \in lane.unsaved : target <= d \/ d < today - Longest + 1
  BY <1>3, <1>6 DEF UpdateTook
<1>12. /\ lane' \in LaneRecord /\ lane'.fetched = lane.fetched \cup taken
       /\ lane'.revised = lane.revised /\ lane'.revising = lane.revising
       /\ Bad(lane) \ settled \subseteq Bad(lane') /\ lane'.unsaved = lane.unsaved \ settled
       /\ Counted(lane')
  BY <1>3 DEF UpdateTook
<1>13. /\ stored \subseteq stored' /\ stored' \subseteq Hours
       /\ torn' = torn \ Span(changes) /\ torn' \subseteq stored'
       /\ meridian' \in MeridianRecord
  BY <1>1, <1>8, ImportIs DEF IInv, TornOK
<1>14. /\ run' \in RunRecord /\ run'.energy = energy /\ run'.target = target
       /\ run'.fetchedFrom = from
  BY <1>3, <1>5, <1>6, <1>7 DEF UpdateTook
<1>15. /\ late' \subseteq late /\ calm' \in BOOLEAN
       /\ owed' = {d \in owed : walk.completed = None \/ d < FetchedFrom(walk)}
  BY <1>3 DEF UpdateTook
<1>16. StateOK'
  <2>1. late' \subseteq Hours /\ owed' \subseteq Dates /\ calm' \in BOOLEAN
    BY <1>1, <1>15 DEF StateOK
  <2>2. torn' \subseteq Hours BY <1>1, <1>13 DEF StateOK
  <2> QED BY <2>1, <2>2, <1>1, <1>13, <1>14 DEF StateOK, During
<1>17. WaitsAreCounted'
  BY <1>12 DEF WaitsAreCounted, Counted, Bad
<1>18. Aimed'
  BY <1>1, <1>11, <1>12, <1>14 DEF Aimed, Past
<1>19. HasRead'
  BY <1>7, <1>14 DEF HasRead
<1>20. Rows' /\ Reported' /\ KeptOK'
  BY <1>1 DEF Rows, Reported, KeptOK
<1>21. ASSUME NEW h \in torn', DayOf(h) \in settled PROVE FALSE
  <2>1. h \in stored /\ h \in Hours /\ h \notin Span(changes)
    BY <1>1, <1>13 DEF IInv, TornOK, StateOK
  <2>2. PICK d \in settled : d = DayOf(h)
    BY <1>21
  <2>3. /\ Midnight(d) >= walk.since /\ Within(WalkStored(walk) \cap HoursOf(d), changes)
        /\ walk.since \in Int /\ d \in Dates
    BY <1>9, <1>10 DEF WalkOK
  <2>4. /\ h \in HoursOf(d) /\ Midnight(d) <= h /\ h \in Int /\ Midnight(d) \in Int
    BY <2>1, <2>2, <2>3, ReadIs
  <2>5. h \in WalkStored(walk) \cap HoursOf(d)
    <3>1. h >= walk.since - 1 BY <2>3, <2>4
    <3> QED BY <2>1, <2>4, <3>1 DEF WalkStored
  <2>6. PICK X \in SUBSET Hours : X = WalkStored(walk) \cap HoursOf(d)
    BY <1>1 DEF WalkStored, StateOK
  <2> QED BY <2>1, <2>3, <2>5, <2>6, WithinIs
<1>22. TornOK'
  <2>1. \A h \in torn' : DayOf(h) \in lane'.unsaved \/ Past(DayOf(h))
    BY <1>12, <1>13, <1>21 DEF IInv, TornOK
  <2> QED BY <2>1, <1>1, <1>13 DEF TornOK, Past
<1>23. ASSUME NEW d \in owed'
       PROVE  /\ d \in owed /\ d \notin taken /\ (from = None \/ d < from)
              /\ d \in DaysOf(stored') /\ (d < target \/ d \in DaysOf(energy))
  <2>1. d \in owed /\ d \in Dates /\ (from = None \/ d < from)
    BY <1>1, <1>5, <1>15 DEF StateOK
  <2>2. d \notin taken
    <3>1. ASSUME walk.completed # None PROVE FetchedFrom(walk) \in Int
      BY <3>1, <1>1, <1>9, LeftOutIs
    <3> QED BY <2>1, <3>1, <1>10, <1>15, DatesAre
  <2>3. PICK h \in stored : DayOf(h) = d
    BY <2>1 DEF IInv, Owed, DaysOf
  <2>4. h \in stored' BY <1>13
  <2>5. d \in DaysOf(stored') BY <2>3, <2>4 DEF DaysOf
  <2>6. /\ d \in Int /\ target \in Int /\ (h >= Midnight(target) <=> target <= d)
    BY <2>3, <2>4, <1>11, <1>13, ReadIs
  <2>7. target <= d => h \in energy
    BY <2>4, <2>6, <1>7
  <2>8. target <= d => d \in DaysOf(energy)
    BY <2>3, <2>7 DEF DaysOf
  <2> QED BY <2>1, <2>2, <2>5, <2>6, <2>8
<1>24. Owed'
  <2>1. owed' \subseteq DaysOf(stored')
    BY <1>23
  <2>2. owed' \cap (lane'.fetched \cup lane'.revised) = {}
    BY <1>12, <1>23 DEF IInv, Owed
  <2>3. \A d \in owed' : d < today' - Overlap + 1
    BY <1>1, <1>23 DEF IInv, Owed
  <2>4. \A d \in owed' : /\ d < run'.target \/ d \in DaysOf(run'.energy)
                         /\ run'.fetchedFrom = None \/ d < run'.fetchedFrom
    BY <1>14, <1>23
  <2>5. ~ lane'.revising => \A d \in owed' : d \in Bad(lane')
    <3> SUFFICES ASSUME ~ lane'.revising, NEW d \in owed' PROVE d \in Bad(lane')
      OBVIOUS
    <3>1. d \in Bad(lane) BY <1>1, <1>12, <1>23 DEF IInv, Owed
    <3> QED BY <3>1, <1>9, <1>12, <1>23
  <2>6. Bad(lane') = Bad(lane)' BY DEF Bad
  <2> QED BY <2>1, <2>2, <2>3, <2>4, <2>5, <2>6 DEF Owed
<1> QED BY <1>12, <1>16, <1>17, <1>18, <1>19, <1>20, <1>22, <1>24 DEF IInv

-------------------------------------------------------------------------------
(***************************************************************************)
(* The coverage's steps.                                                   *)
(***************************************************************************)
\* A lane forgets what is before its target, and its pass may start.
LEMMA PlanKeeps == IInv /\ PlanLane => IInv'
<1> SUFFICES ASSUME IInv, PlanLane PROVE IInv'
  OBVIOUS
<1>1. /\ StateOK /\ lane \in LaneRecord /\ Counted(lane) /\ phase = "walked"
      /\ phase' = "covering"
      /\ UNCHANGED <<today, billing, meridian, stored, kept, run, torn, late, calm>>
  BY CountedIs DEF IInv, PlanLane
<1>2. PICK planned : planned = ForgetBefore(lane, run.target)
  OBVIOUS
<1>3. /\ lane' = StartRevision(planned, today)
      /\ owed' = IF Starts(planned, today) THEN {d \in DaysOf(run.energy) : d < End}
                 ELSE owed
  BY <1>2 DEF PlanLane
<1>4. /\ planned \in LaneRecord /\ planned.fetched \subseteq lane.fetched
      /\ planned.revising = lane.revising /\ planned.revised \subseteq lane.revised
      /\ Bad(planned) = {d \in Bad(lane) : ~ (d < run.target)}
      /\ planned.unsaved = {d \in lane.unsaved : ~ (d < run.target)}
      /\ Counted(planned)
  <2>1. PICK day : day = run.target OBVIOUS
  <2> QED BY <2>1, <1>1, <1>2, ForgetIs
<1>5. /\ lane' \in LaneRecord /\ Bad(lane') = Bad(planned)
      /\ lane'.unsaved = planned.unsaved
      /\ ~ Starts(planned, today) => lane' = planned
      /\ Starts(planned, today) => lane'.revising /\ lane'.fetched = {} /\ lane'.revised = {}
      /\ Counted(lane')
  <2>1. today \in Nat BY <1>1, LaneAssumption DEF StateOK
  <2>2. PICK m : m = lane' OBVIOUS
  <2>3. PICK date \in Nat : date = today BY <2>1
  <2>4. m = StartRevision(planned, date) BY <2>2, <2>3, <1>3
  <2>5. planned \in LaneRecord BY <1>4
  <2>6. /\ m \in LaneRecord /\ Bad(m) = Bad(planned) /\ m.unsaved = planned.unsaved
        /\ ~ Starts(planned, date) => m = planned
        /\ Starts(planned, date) => m.revising /\ m.fetched = {} /\ m.revised = {}
        /\ Counted(planned) => Counted(m)
    BY <2>4, <2>5, RevisionIs
  <2> QED BY <2>2, <2>3, <2>6, <1>4
<1>6. /\ run.energy \subseteq stored /\ stored \subseteq Hours
      /\ owed \subseteq Dates /\ DaysOf(run.energy) \subseteq DaysOf(stored)
      /\ DaysOf(stored) \subseteq Dates
  <2>1. run.energy \subseteq stored /\ stored \subseteq Hours /\ owed \subseteq Dates
    BY <1>1 DEF IInv, HasRead, During, StateOK
  <2> QED BY <2>1, HoursAre DEF DaysOf
<1>7. StateOK'
  BY <1>1, <1>3, <1>6 DEF StateOK, During
<1>8. WaitsAreCounted' /\ KeptOK' /\ Rows' /\ Reported'
  BY <1>1, <1>5 DEF WaitsAreCounted, Counted, Bad, KeptOK, Rows, Reported
<1>9. Aimed' /\ HasRead'
  BY <1>1, <1>4, <1>5 DEF IInv, Aimed, HasRead, During, Open, Past
<1>10. TornOK'
  <2>1. \A h \in torn : DayOf(h) \in lane'.unsaved \/ Past(DayOf(h))
    <3> TAKE h \in torn
    <3>1. PICK d : d = DayOf(h) OBVIOUS
    <3>2. d \in lane.unsaved \/ Past(d) BY <3>1 DEF IInv, TornOK
    <3>3. d \in lane.unsaved => d \in Int /\ run.target \in Int
                                /\ (run.target <= d \/ Past(d))
      <4>1. lane.unsaved \subseteq Dates /\ run.target \in Dates
        BY <1>1, LaneIs DEF StateOK, RunRecord
      <4> QED BY <1>1, <4>1, DatesAre DEF IInv, Aimed, During
    <3> QED BY <3>1, <3>2, <3>3, <1>4, <1>5
  <2> QED BY <2>1, <1>1 DEF IInv, TornOK, Past
<1>11. ASSUME Starts(planned, today) PROVE Owed'
  <2>1. PICK end : end = End OBVIOUS
  <2>2. owed' = {d \in DaysOf(run.energy) : d < end} BY <2>1, <1>3, <1>11
  <2>3. /\ end \in Int /\ end <= today - Overlap + 1
        /\ run.fetchedFrom # None => end <= run.fetchedFrom
    <3>1. PICK from \in Int \cup {None} : from = run.fetchedFrom
      BY <1>1 DEF StateOK, RunRecord
    <3>2. end = CoverageEnd(today, Frontier, from) BY <2>1, <3>1 DEF End
    <3> QED BY <3>1, <3>2, <1>1, EndIs
  <2>4. \A d \in owed' : /\ d \in DaysOf(run.energy) /\ d < today - Overlap + 1
                         /\ run.fetchedFrom = None \/ d < run.fetchedFrom
    <3> TAKE d \in owed'
    <3>1. d \in DaysOf(run.energy) /\ d \in Int /\ d < end BY <2>2, <1>6, DatesAre
    <3>2. today - Overlap + 1 \in Int BY <1>1, LaneAssumption DEF StateOK
    <3>3. run.fetchedFrom # None => run.fetchedFrom \in Int BY <1>1 DEF StateOK, RunRecord
    <3> QED BY <2>3, <3>1, <3>2, <3>3
  <2> QED BY <2>4, <1>1, <1>5, <1>6, <1>11 DEF Owed
<1>12. ASSUME ~ Starts(planned, today) PROVE Owed'
  <2>1. owed' = owed /\ lane' = planned BY <1>3, <1>5, <1>12
  <2>2. owed' \cap (lane'.fetched \cup lane'.revised) = {}
    BY <2>1, <1>4 DEF IInv, Owed
  <2>3. ~ lane'.revising => \A d \in owed' : d \in Bad(lane') \/ d < run.target
    BY <2>1, <1>1, <1>4 DEF IInv, Owed
  <2>4. Bad(lane') = Bad(lane)' BY DEF Bad
  <2> QED BY <2>1, <2>2, <2>3, <2>4, <1>1 DEF IInv, Owed, During
<1> QED BY <1>5, <1>7, <1>8, <1>9, <1>10, <1>11, <1>12 DEF IInv

\* The window asked for next is of dates from the history's start to the end.
LEMMA AskedIs ==
  ASSUME StateOK, lane \in LaneRecord, Asks, NEW w, w = NextWindow
  PROVE  /\ w \in DateWindow /\ w.first <= w.last /\ WindowDates(w) \subseteq Dates
         /\ w.last - w.first < WindowDays
         /\ \A d \in WindowDates(w) :
              /\ FirstDay(lane, run.energy, run.target) <= d
              /\ run.target <= d /\ d < today - Overlap + 1
<1>1. PICK first : first = FirstDay(lane, run.energy, run.target)
  OBVIOUS
<1>2. run.target \in Dates /\ run.target \in Int /\ run.energy \subseteq Hours
      /\ 0 <= run.target /\ today \in Int /\ today <= LastToday /\ LastToday \in Int
      /\ today - Overlap + 1 <= today /\ today - Overlap + 1 \in Int
  <2>1. run.target \in Dates /\ run.energy \subseteq Hours BY DEF StateOK, RunRecord
  <2>2. today \in Int /\ today <= LastToday /\ LastToday \in Int
        /\ today - Overlap + 1 <= today /\ today - Overlap + 1 \in Int
    BY LaneAssumption DEF StateOK
  <2> QED BY <2>1, <2>2, DatesAre
<1>3. first \in Int /\ run.target <= first
  <2>1. PICK S \in SUBSET Hours : S = run.energy BY <1>2
  <2>2. PICK target \in Int : target = run.target BY <1>2
  <2>3. first = FirstDay(lane, S, target) BY <1>1, <2>1, <2>2
  <2>4. lane \in LaneRecord OBVIOUS
  <2> QED BY <2>2, <2>3, <2>4, FirstIs
<1>4. PICK end \in Int : end = End /\ end <= today - Overlap + 1
  <2>1. PICK from \in Int \cup {None} : from = run.fetchedFrom
    BY DEF StateOK, RunRecord
  <2>2. PICK end : end = End OBVIOUS
  <2>3. end = CoverageEnd(today, Frontier, from) BY <2>1, <2>2 DEF End
  <2> QED BY <2>2, <2>3, EndIs
<1>5. /\ \A d \in Missing(lane) : d \in Int /\ first <= d /\ d < end
      /\ \A d \in Revision(lane) : d \in Int /\ first <= d /\ d < end
  <2>1. \A d \in Missing(lane) : d \in first .. end - 1
    BY <1>1, <1>4 DEF Missing, MissingDays
  <2>2. \A d \in Revision(lane) : d \in DaysOf(run.energy) /\ first <= d /\ d < end
    BY <1>1, <1>4 DEF Revision, RevisionDays
  <2>3. \A d \in DaysOf(run.energy) : d \in Int
    BY <1>2, HoursAre, DatesAre DEF DaysOf
  <2> QED BY <2>1, <2>2, <2>3, <1>3, <1>4
<1>6. PICK dates : /\ dates # {} /\ w = NewestSpan(lane, dates)
                   /\ dates = Missing(lane) \/ dates = Revision(lane)
  <2>1. Missing(lane) # {} \/ Revision(lane) # {} BY DEF Asks
  <2>2. PICK dates : dates = IF Missing(lane) # {} THEN Missing(lane) ELSE Revision(lane)
    OBVIOUS
  <2>3. w = NewestSpan(lane, dates) BY <2>2 DEF NextWindow
  <2> QED BY <2>1, <2>2, <2>3
<1>7. \A d \in dates : d \in Int /\ first <= d /\ d < end
  BY <1>5, <1>6
<1>8. \A d \in dates : d \in Dates /\ first <= d /\ run.target <= d /\ d < today - Overlap + 1
  BY <1>2, <1>3, <1>4, <1>7 DEF Dates
<1>9. /\ w \in DateWindow /\ w.first <= w.last /\ WindowDates(w) \subseteq dates
      /\ w.last - w.first < WindowDays
  <2>1. dates \in SUBSET Dates BY <1>8
  <2>2. dates # {} /\ w = NewestSpan(lane, dates) BY <1>6
  <2>3. PICK l : l = lane OBVIOUS
  <2>4. w = NewestSpan(l, dates) BY <2>2, <2>3
  <2> QED BY <2>1, <2>2, <2>4, SpanIs
<1> QED BY <1>1, <1>8, <1>9

\* Meridian answers for the window, with its rows and maybe a start.
LEMMA FetchKeeps == IInv /\ FetchWindow => IInv'
<1> SUFFICES ASSUME IInv, FetchWindow PROVE IInv'
  OBVIOUS
<1>1. /\ StateOK /\ lane \in LaneRecord /\ Counted(lane) /\ phase = "covering" /\ Asks
      /\ phase' = "fetched"
      /\ UNCHANGED <<today, billing, meridian, stored, kept, torn, late, owed, calm>>
  BY CountedIs DEF IInv, FetchWindow, history
<1>2. PICK w : w = NextWindow
  OBVIOUS
<1>3. PICK kind \in {"coverage", "revision"} : kind = NextKind
  BY DEF NextKind
<1>4. PICK rows : rows = CoverRows(w)
  OBVIOUS
<1>5. PICK start : start = CoverStart(w)
  OBVIOUS
<1>6. /\ ~ CoverFails(w)
      /\ run' = [run EXCEPT !.asked = @ + 1, !.window = w, !.kind = kind, !.rows = rows]
      /\ lane' = IF start = AllCame THEN lane ELSE [lane EXCEPT !.refusedThrough = start]
  BY <1>2, <1>3, <1>4, <1>5 DEF FetchWindow
<1>7. /\ w \in DateWindow /\ w.first <= w.last /\ WindowDates(w) \subseteq Dates
      /\ \A d \in WindowDates(w) :
           /\ FirstDay(lane, run.energy, run.target) <= d
           /\ run.target <= d /\ d < today - Overlap + 1
  BY <1>1, <1>2, AskedIs
<1>8. /\ rows \subseteq Hours
      /\ \A h \in rows :
           /\ DayOf(h) \in WindowDates(w) /\ h >= Midnight(run.target)
           /\ start \notin {AllCame, RefusalFails} => start < DayOf(h)
  BY <1>1, <1>4, <1>5, <1>7, CoverRowsAre
<1>9. /\ start # RefusalFails
      /\ start # AllCame => start \in Dates /\ \A h \in run.energy : ~ (DayOf(h) <= start)
  <2>1. start # RefusalFails BY <1>5, <1>6 DEF CoverFails
  <2>2. ASSUME start # AllCame PROVE start \in Dates
    BY <2>1, <2>2, <1>5, <1>7, CoverStartIs
  <2>3. ASSUME start # AllCame PROVE \A h \in run.energy : ~ (DayOf(h) <= start)
    BY <2>1, <2>3, <1>5, <1>6 DEF CoverFails
  <2> QED BY <2>1, <2>2, <2>3
<1>10. /\ lane' \in LaneRecord /\ lane'.fetched = lane.fetched
       /\ lane'.revised = lane.revised /\ lane'.revising = lane.revising
       /\ lane'.bad = lane.bad /\ lane'.tries = lane.tries /\ lane'.unsaved = lane.unsaved
       /\ start # AllCame => lane'.refusedThrough = start
       /\ start = AllCame => lane' = lane
  <2>1. CASE start = AllCame BY <2>1, <1>1, <1>6
  <2>2. CASE start # AllCame
    <3>1. lane' = [lane EXCEPT !.refusedThrough = start] /\ start \in Dates
      BY <2>2, <1>6, <1>9
    <3> QED BY <3>1, <2>2, <1>1 DEF LaneRecord
  <2> QED BY <2>1, <2>2
<1>11. /\ run' \in RunRecord /\ run'.energy = run.energy /\ run'.target = run.target
       /\ run'.fetchedFrom = run.fetchedFrom /\ run'.window = w /\ run'.rows = rows
  <2>1. w \in DateWindow /\ rows \in SUBSET Hours BY <1>7, <1>8
  <2>2. run \in RunRecord BY <1>1 DEF StateOK
  <2>3. run.asked \in Nat BY <2>2 DEF RunRecord
  <2>4. PICK asked \in Nat : asked = run.asked + 1 BY <2>3
  <2>5. run' = [run EXCEPT !.asked = asked, !.window = w, !.kind = kind, !.rows = rows]
    BY <2>4, <1>6
  <2>6. kind \in {"coverage", "revision"} OBVIOUS
  <2> HIDE <2>4
  <2> QED BY <2>1, <2>2, <2>5, <2>6 DEF RunRecord
<1>12. StateOK'
  BY <1>1, <1>11 DEF StateOK, During
<1>13. WaitsAreCounted' /\ KeptOK' /\ Reported'
  BY <1>1, <1>10 DEF IInv, WaitsAreCounted, Bad, KeptOK, Reported
<1>14. Aimed' /\ HasRead'
  BY <1>1, <1>10, <1>11 DEF IInv, Aimed, HasRead, During, Open, Past
<1>15. TornOK' /\ Owed'
  BY <1>1, <1>10, <1>11 DEF IInv, TornOK, Owed, Past, During, Bad
<1>16. Rows'
  <2>1. ASSUME NEW h \in rows
        PROVE  FirstDay(lane', run.energy, run.target) <= DayOf(h)
    <3>1. CASE start = AllCame
      BY <3>1, <1>7, <1>8, <1>10
    <3>2. CASE start # AllCame
      <4>1. PICK S \in SUBSET Hours : S = run.energy BY <1>1 DEF StateOK, RunRecord
      <4>2. run.target \in Dates /\ start \in Dates BY <1>1, <3>2, <1>9 DEF StateOK, RunRecord
      <4>3. PICK target \in Int : target = run.target BY <4>2, DatesAre
      <4>4. PICK through \in Int : through = start BY <4>2, DatesAre
      <4>5. PICK l \in LaneRecord : l = lane' BY <1>10
      <4>6. PICK first : first = FirstDay(l, S, target) OBVIOUS
      <4>7. l.refusedThrough = through BY <4>4, <4>5, <3>2, <1>10
      <4>8. \A g \in S : through < DayOf(g)
        <5> TAKE g \in S
        <5>1. DayOf(g) \in Int BY HoursAre, DatesAre
        <5>2. ~ (DayOf(g) <= through) BY <4>1, <4>4, <3>2, <1>9
        <5> QED BY <5>1, <5>2
      <4>9. PICK d \in Int : d = DayOf(h) BY <1>8, HoursAre, DatesAre
      <4>10. target <= d /\ through < d
        BY <4>3, <4>4, <4>9, <1>7, <1>8, <1>9, <3>2
      <4>11. \A e \in Int : target <= e /\ through < e => first <= e
        BY <4>6, <4>7, <4>8, FirstIs
      <4> QED BY <4>1, <4>3, <4>5, <4>6, <4>9, <4>10, <4>11
    <3> QED BY <3>1, <3>2
  <2>2. Days' = WindowDates(w) BY <1>11 DEF Days
  <2> QED BY <2>1, <2>2, <1>1, <1>7, <1>8, <1>11 DEF Rows
<1> QED BY <1>10, <1>12, <1>13, <1>14, <1>15, <1>16 DEF IInv

\* Whatever a lane of the same update takes its history's start for, a step
\* that may be wrong is of a date from there on.
LEMMA TornAfter ==
  ASSUME IInv, phase \in Open, NEW l \in LaneRecord, NEW h \in torn
  PROVE  FirstDay(l, run.energy, run.target) <= DayOf(h) \/ Past(DayOf(h))
<1>1. h \in stored /\ stored \in SUBSET Hours
  BY DEF IInv, TornOK, StateOK
<1>2. PICK S \in SUBSET Hours : S = run.energy
  BY DEF IInv, StateOK, RunRecord
<1>3. PICK target \in Dates : target = run.target
  BY DEF IInv, StateOK, RunRecord
<1>4. target <= DayOf(h) \/ Past(DayOf(h))
  BY <1>3 DEF IInv, TornOK, Aimed, During, Open
<1>5. h >= Midnight(target) <=> target <= DayOf(h)
  BY <1>1, ReadIs
<1>6. h >= Midnight(target) => h \in S
  BY <1>1, <1>2, <1>3 DEF IInv, HasRead
<1>7. PICK first : first = FirstDay(l, S, target)
  OBVIOUS
<1>8. target \in Int
  BY DatesAre
<1>9. \A g \in S : target <= DayOf(g) => first <= DayOf(g)
  BY <1>7, <1>8, FirstIs
<1> QED BY <1>2, <1>3, <1>4, <1>5, <1>6, <1>7, <1>9

\* A window fails, the coverage is stopped, or nothing is left to ask for.
LEMMA StopsKeep == IInv /\ (CoverWindowFails \/ CoverStops \/ CoverDone) => IInv'
<1> SUFFICES ASSUME IInv, CoverWindowFails \/ CoverStops \/ CoverDone PROVE IInv'
  OBVIOUS
<1>1. /\ StateOK /\ lane \in LaneRecord /\ Counted(lane) /\ phase = "covering"
      /\ phase' = "settling" /\ calm' \in BOOLEAN
      /\ UNCHANGED <<today, billing, meridian, stored, kept, torn, late, owed>>
  BY CountedIs DEF IInv, StateOK, CoverWindowFails, CoverStops, CoverDone, history
<1>2. /\ run' \in RunRecord /\ run'.energy = run.energy /\ run'.target = run.target
      /\ run'.fetchedFrom = run.fetchedFrom
  <2>1. \/ run' = run
        \/ run' = [run EXCEPT !.asked = @ + 1]
        \/ \E cancelled \in BOOLEAN : run' = [run EXCEPT !.cancelled = cancelled]
    BY DEF CoverWindowFails, CoverStops, CoverDone
  <2> QED BY <2>1, <1>1 DEF StateOK, RunRecord
<1>3. /\ lane' \in LaneRecord /\ SameKnown(lane', lane) /\ Bad(lane) \subseteq Bad(lane')
      /\ lane'.unsaved = lane.unsaved /\ Counted(lane')
  <2>1. CASE CoverWindowFails
    <3>1. PICK w : w = NextWindow OBVIOUS
    <3>2. PICK unsaved \in BOOLEAN : unsaved = FALSE OBVIOUS
    <3>3. PICK m : m = lane' OBVIOUS
    <3>4. PICK dates : dates = WindowDates(w) OBVIOUS
    <3>5. m = Fail(lane, dates, unsaved)
      BY <2>1, <3>1, <3>2, <3>3, <3>4 DEF CoverWindowFails
    <3>6. Asks BY <2>1 DEF CoverWindowFails
    <3>7. dates \in SUBSET Dates BY <1>1, <3>1, <3>4, <3>6, AskedIs
    <3>8. lane \in LaneRecord BY <1>1
    <3>9. /\ m \in LaneRecord /\ SameKnown(m, lane)
          /\ Bad(m) = Bad(lane) \cup dates
          /\ m.unsaved = IF unsaved THEN lane.unsaved \cup dates ELSE lane.unsaved
          /\ Counted(lane) => Counted(m)
      BY <3>5, <3>7, <3>8, FailIs
    <3> QED BY <3>2, <3>3, <3>9, <1>1
  <2>2. CASE ~ CoverWindowFails
    <3>1. lane' = lane BY <2>2 DEF CoverStops, CoverDone
    <3> QED BY <3>1, <1>1 DEF SameKnown
  <2> QED BY <2>1, <2>2
<1>4. StateOK'
  BY <1>1, <1>2 DEF StateOK, During
<1>5. WaitsAreCounted'
  BY <1>3 DEF WaitsAreCounted, Counted, Bad
<1>6. KeptOK' /\ Rows' /\ Reported' /\ Aimed' /\ HasRead'
  BY <1>1, <1>2, <1>3 DEF IInv, KeptOK, Rows, Reported, Aimed, HasRead, During, Open, Past
<1>7. TornOK'
  <2>1. \A h \in torn : \/ FirstDay(lane', run.energy, run.target) <= DayOf(h)
                        \/ Past(DayOf(h))
    <3> TAKE h \in torn
    <3>1. PICK l \in LaneRecord : l = lane' BY <1>3
    <3>2. FirstDay(l, run.energy, run.target) <= DayOf(h) \/ Past(DayOf(h))
      BY <1>1, TornAfter DEF Open
    <3> QED BY <3>1, <3>2
  <2> QED BY <2>1, <1>1, <1>2, <1>3 DEF IInv, TornOK, Past
<1>8. Owed'
  <2>1. Bad(lane') = Bad(lane)' BY DEF Bad
  <2> QED BY <2>1, <1>1, <1>2, <1>3 DEF IInv, Owed, SameKnown, During
<1> QED BY <1>3, <1>4, <1>5, <1>6, <1>7, <1>8 DEF IInv

\* What an import writes is of rows of the window, and what it leaves out is of
\* the window's dates.
LEMMA ImportedIs ==
  ASSUME StateOK, Rows, phase = "fetched"
  PROVE  /\ Changes \subseteq run.rows /\ Changes \subseteq Hours
         /\ \A h \in Changes : DayOf(h) \in Days /\ h >= Midnight(run.target)
         /\ Days \subseteq Dates /\ LeftOut \subseteq Days
         /\ StoredIn \subseteq Hours
<1>1. run.window \in DateWindow /\ run.rows \subseteq Hours /\ run.energy \subseteq Hours
  BY DEF StateOK, RunRecord
<1>2. Changes \subseteq run.rows
  <2>1. Importable(run.rows, StoredIn) \subseteq run.rows BY ImportsFetched
  <2> QED BY <2>1 DEF Changes
<1>3. Days \subseteq Dates
  BY <1>1, WindowIs DEF Days
<1>4. StoredIn \subseteq run.energy /\ \A h \in StoredIn : DayOf(h) \in Days
  BY DEF StoredIn, InWindow, Days
<1>5. LeftOut \subseteq Days
  <2>1. LeftOutDates(run.rows, StoredIn, Days) \subseteq Days BY DEF LeftOutDates
  <2>2. DaysOf(StoredIn) \subseteq Days BY <1>4 DEF DaysOf
  <2> QED BY <2>1, <2>2 DEF LeftOut
<1> QED BY <1>1, <1>2, <1>3, <1>4, <1>5 DEF Rows

\* The dates taken are fetched, and those left out that are still missing wait.
LEMMA NotedIs ==
  ASSUME NEW l \in LaneRecord, Counted(l), Days \in SUBSET Dates,
         NEW out, NEW retry \in SUBSET Dates, NEW m, m = Noted(l, out, retry)
  PROVE  /\ m \in LaneRecord /\ Counted(m)
         /\ m.fetched = l.fetched \cup (Days \ retry)
         /\ m.refusedThrough = l.refusedThrough /\ m.revising = l.revising
         /\ m.revised \subseteq l.revised \cup (Days \ retry)
         /\ m.knownFetched = l.knownFetched \ (Days \ retry) /\ m.reaches = l.reaches
         /\ Bad(m) = (Bad(l) \cup retry) \ (Days \ retry)
         /\ m.unsaved = l.unsaved \ (Days \ retry)
         /\ \A d : Shown(m, d) => Shown(l, d) \/ d \in Days \ retry
<1>1. PICK unsaved \in BOOLEAN : unsaved = FALSE
  OBVIOUS
<1>2. PICK k : k = Fail(l, retry, unsaved)
  OBVIOUS
<1>3. /\ k \in LaneRecord /\ SameKnown(k, l) /\ Bad(k) = Bad(l) \cup retry
      /\ k.unsaved = l.unsaved /\ Counted(k)
  BY <1>1, <1>2, FailIs
<1>4. PICK taken \in SUBSET Dates : taken = Days \ retry
  OBVIOUS
<1>5. PICK empty \in SUBSET Dates : empty = taken \ (DaysOf(run.rows) \cup out)
  OBVIOUS
<1>6. PICK revised \in BOOLEAN : revised = (run.kind = "revision")
  OBVIOUS
<1>7. m = Took(k, taken, empty, revised)
  BY <1>1, <1>2, <1>4, <1>5, <1>6 DEF Noted
<1>8. k \in LaneRecord
  BY <1>3
<1>9. /\ m \in LaneRecord /\ m.fetched = k.fetched \cup taken
      /\ m.refusedThrough = k.refusedThrough /\ m.revising = k.revising
      /\ m.revised \subseteq k.revised \cup taken
      /\ m.knownFetched = k.knownFetched \ taken /\ m.reaches = k.reaches
      /\ Bad(m) = Bad(k) \ taken /\ m.unsaved = k.unsaved \ taken
      /\ \A d : Shown(m, d) => Shown(k, d) \/ d \in empty
      /\ Counted(k) => Counted(m)
  BY <1>7, <1>8, TookIs
<1>10. \A d : Shown(m, d) => Shown(l, d) \/ d \in Days \ retry
  BY <1>3, <1>4, <1>5, <1>9 DEF Shown, SameKnown
<1> QED BY <1>3, <1>4, <1>9, <1>10 DEF SameKnown

\* A stored hour of a date not confirmed that an import takes is one it wrote
\* again: the whole date is replayed.
LEMMA TakenReplayed ==
  ASSUME StateOK, Rows, phase = "fetched", NEW h \in StoredIn,
         DayOf(h) \in lane.unsaved, DayOf(h) \in Days \ LeftOut
  PROVE  h \in Span(Changes)
<1>1. Whole
  BY DEF Whole
<1>2. Changes = Importable(run.rows, StoredIn)
  BY <1>1 DEF Changes
<1>3. PICK d : d = DayOf(h)
  OBVIOUS
<1>4. d \notin LeftOutDates(run.rows, StoredIn, Days) /\ d \in DaysOf(run.rows)
  <2>1. d \notin LeftOutDates(run.rows, StoredIn, Days) \cup (DaysOf(StoredIn) \ DaysOf(run.rows))
    BY <1>3 DEF LeftOut
  <2>2. d \in DaysOf(StoredIn) BY <1>3 DEF DaysOf
  <2> QED BY <2>1, <2>2
<1>5. /\ Changes \in SUBSET Hours /\ StoredIn \in SUBSET Hours
      /\ run.rows \in SUBSET Hours
  BY ImportedIs DEF StateOK, RunRecord
<1>6. run.rows # {} /\ StoredIn # {}
  BY <1>4 DEF DaysOf
<1>7. ~ TailNotReturned(run.rows, StoredIn)
  BY <1>3, <1>4, <1>6 DEF LeftOutDates
<1>8. Changes = AfterHoles(run.rows, StoredIn)
  BY <1>2, <1>6, <1>7 DEF Importable
<1>9. Changes # {}
  <2>1. PICK last \in run.rows : last \in Int /\ last = Greatest(run.rows)
    BY <1>5, <1>6, SomeHours
  <2>2. \A hole \in Holes(run.rows, StoredIn) : hole \in Int /\ hole # last /\ hole <= last
    BY <1>5, <2>1, HoursAre DEF Holes
  <2>3. last \in AfterHoles(run.rows, StoredIn)
    BY <2>1, <2>2 DEF AfterHoles
  <2> QED BY <2>3, <1>8
<1>10. d \in ReplayedDates(Days, Changes, StoredIn, {}, {})
  BY <1>1, <1>3, <1>9 DEF LeftOut
<1>11. Within(StoredIn \cap HoursOf(d), Changes)
  BY <1>10 DEF ReplayedDates
<1>12. h \in StoredIn \cap HoursOf(d)
  <2>1. run.target \in Dates BY DEF StateOK, RunRecord
  <2> QED BY <1>3, <1>5, <2>1, ReadIs
<1>13. PICK X \in SUBSET Hours : X = StoredIn \cap HoursOf(d)
  BY <1>5
<1> QED BY <1>5, <1>11, <1>12, <1>13, WithinIs

\* A window's import is confirmed.
LEMMA ImportKeeps == IInv /\ ImportWindow => IInv'
<1> SUFFICES ASSUME IInv, ImportWindow PROVE IInv'
  OBVIOUS
<1>1. /\ StateOK /\ lane \in LaneRecord /\ Counted(lane) /\ phase = "fetched" /\ Rows
      /\ phase' = "covering"
      /\ UNCHANGED <<today, billing, kept, calm>>
  BY CountedIs DEF IInv, ImportWindow
<1>2. PICK changes : changes = Changes
  OBVIOUS
<1>3. PICK out : out = LeftOut
  OBVIOUS
<1>4. PICK retry : retry = Retries(out, run'.energy)
  OBVIOUS
<1>5. PICK taken : taken = Days \ retry
  OBVIOUS
<1>6. /\ Confirmed(changes)
      /\ run' = [run EXCEPT !.energy = @ \cup changes, !.rows = {}]
      /\ lane' = Noted(lane, out, retry)
      /\ late' \subseteq late /\ owed' = owed \ taken
  BY <1>2, <1>3, <1>4, <1>5 DEF ImportWindow
<1>7. /\ changes \in SUBSET Hours /\ \A h \in changes : h >= Midnight(run.target)
      /\ Days \in SUBSET Dates /\ out \subseteq Days /\ StoredIn \subseteq Hours
  BY <1>1, <1>2, <1>3, ImportedIs
<1>8. retry \subseteq out /\ \A d \in out : d \in Bad(lane) => d \in retry
  BY <1>4 DEF Retries
<1>9. /\ lane' \in LaneRecord /\ Counted(lane') /\ lane'.fetched = lane.fetched \cup taken
      /\ lane'.revising = lane.revising /\ lane'.revised \subseteq lane.revised \cup taken
      /\ Bad(lane') = (Bad(lane) \cup retry) \ taken /\ lane'.unsaved = lane.unsaved \ taken
  <2>1. lane \in LaneRecord /\ Counted(lane) /\ Days \in SUBSET Dates
        /\ retry \in SUBSET Dates
    BY <1>1, <1>7, <1>8
  <2>2. PICK m : m = lane' OBVIOUS
  <2>3. m = Noted(lane, out, retry) BY <2>2, <1>6
  <2>4. /\ m \in LaneRecord /\ Counted(m)
        /\ m.fetched = lane.fetched \cup (Days \ retry)
        /\ m.refusedThrough = lane.refusedThrough /\ m.revising = lane.revising
        /\ m.revised \subseteq lane.revised \cup (Days \ retry)
        /\ m.knownFetched = lane.knownFetched \ (Days \ retry) /\ m.reaches = lane.reaches
        /\ Bad(m) = (Bad(lane) \cup retry) \ (Days \ retry)
        /\ m.unsaved = lane.unsaved \ (Days \ retry)
    BY <2>1, <2>3, NotedIs
  <2> QED BY <2>2, <2>4, <1>5
<1>10. /\ stored' = stored \cup changes /\ stored' \subseteq Hours
       /\ torn' = torn \ Span(changes) /\ torn' \subseteq stored'
       /\ meridian' \in MeridianRecord
  BY <1>1, <1>6, <1>7, ImportIs DEF IInv, TornOK
<1>11. /\ run' \in RunRecord /\ run'.energy = run.energy \cup changes
       /\ run'.target = run.target /\ run'.fetchedFrom = run.fetchedFrom
  <2>1. PICK energy \in SUBSET Hours : energy = run.energy \cup changes
    BY <1>1, <1>7 DEF StateOK, RunRecord
  <2>2. run' = [run EXCEPT !.energy = energy, !.rows = {}]
    BY <2>1, <1>6
  <2>3. run \in RunRecord BY <1>1 DEF StateOK
  <2> QED BY <2>1, <2>2, <2>3 DEF RunRecord
<1>12. StateOK'
  <2>1. torn' \subseteq Hours /\ late' \subseteq Hours /\ owed' \subseteq Dates
    BY <1>1, <1>6, <1>10 DEF StateOK
  <2> QED BY <2>1, <1>1, <1>10, <1>11 DEF StateOK, During
<1>13. WaitsAreCounted' /\ KeptOK' /\ Rows' /\ Reported'
  BY <1>1, <1>9 DEF WaitsAreCounted, Counted, Bad, KeptOK, Rows, Reported
<1>14. Aimed'
  BY <1>1, <1>9, <1>11 DEF IInv, Aimed, During, Past
<1>15. HasRead'
  <2>1. run.energy = {h \in stored : h >= Midnight(run.target)}
    BY <1>1 DEF IInv, HasRead, Open
  <2> QED BY <2>1, <1>7, <1>10, <1>11 DEF HasRead
<1>16. TornOK'
  <2>1. \A h \in torn' : DayOf(h) \in lane'.unsaved \/ Past(DayOf(h))
    <3> SUFFICES ASSUME NEW h \in torn', DayOf(h) \in lane.unsaved, DayOf(h) \in taken,
                        ~ Past(DayOf(h))
                 PROVE  FALSE
      BY <1>9, <1>10 DEF IInv, TornOK
    <3>1. h \in stored /\ h \notin Span(changes)
      BY <1>10 DEF IInv, TornOK
    <3>2. run.target <= DayOf(h)
      BY <1>1 DEF IInv, Aimed, During
    <3>3. PICK target \in Dates : target = run.target
      BY <1>1 DEF StateOK, RunRecord
    <3>4. stored \in SUBSET Hours
      BY <1>1 DEF StateOK
    <3>5. h >= Midnight(target) <=> target <= DayOf(h)
      BY <3>1, <3>4, ReadIs
    <3>6. h \in run.energy
      BY <3>1, <3>2, <3>3, <3>5, <1>1 DEF IInv, HasRead, Open
    <3>7. DayOf(h) \in Days /\ h \in StoredIn
      BY <3>6, <1>5 DEF StoredIn, InWindow, Days
    <3>8. DayOf(h) \notin out
      BY <1>1, <1>5, <1>8 DEF Counted
    <3> QED BY <3>1, <3>7, <3>8, <1>1, <1>2, <1>3, TakenReplayed
  <2> QED BY <2>1, <1>1, <1>10 DEF TornOK, Past
<1>17. Owed'
  <2>1. owed' \subseteq owed /\ owed' \cap taken = {}
    BY <1>6
  <2>2. owed' \subseteq DaysOf(stored')
    BY <2>1, <1>10 DEF IInv, Owed, DaysOf
  <2>3. owed' \cap (lane'.fetched \cup lane'.revised) = {}
    BY <2>1, <1>9 DEF IInv, Owed
  <2>4. \A d \in owed' : /\ d < run.target \/ d \in DaysOf(run'.energy)
                         /\ run.fetchedFrom = None \/ d < run.fetchedFrom
    BY <2>1, <1>1, <1>11 DEF IInv, Owed, During, DaysOf
  <2>5. ~ lane'.revising => \A d \in owed' : d \in Bad(lane') \/ d < run.target
    BY <2>1, <1>1, <1>9 DEF IInv, Owed
  <2>6. Bad(lane') = Bad(lane)' BY DEF Bad
  <2>7. \A d \in owed' : d < today' - Overlap + 1
    BY <2>1, <1>1 DEF IInv, Owed
  <2> QED BY <2>2, <2>3, <2>4, <2>5, <2>6, <2>7, <1>1, <1>11 DEF Owed
<1> QED BY <1>9, <1>12, <1>13, <1>14, <1>15, <1>16, <1>17 DEF IInv

\* A window's import is not confirmed in time: its dates wait to be replayed.
LEMMA UnsavedKeeps == IInv /\ ImportUnsaved => IInv'
<1> SUFFICES ASSUME IInv, ImportUnsaved PROVE IInv'
  OBVIOUS
<1>1. /\ StateOK /\ lane \in LaneRecord /\ Counted(lane) /\ phase = "fetched" /\ Rows
      /\ phase' = "settling" /\ calm' = FALSE
      /\ UNCHANGED <<today, billing, kept, late, owed>>
  BY CountedIs DEF IInv, ImportUnsaved
<1>2. PICK changes : changes = Changes
  OBVIOUS
<1>3. PICK dates : dates = Days
  OBVIOUS
<1>4. /\ changes # {} /\ Unconfirmed(changes) /\ lane' = Fail(lane, dates, TRUE)
      /\ \E cancelled \in BOOLEAN : run' = [run EXCEPT !.cancelled = cancelled, !.rows = {}]
  BY <1>2, <1>3 DEF ImportUnsaved
<1>5. /\ changes \in SUBSET Hours /\ changes \subseteq run.rows
      /\ \A h \in changes : DayOf(h) \in dates
      /\ dates \in SUBSET Dates /\ \A d \in dates : run.target <= d
  BY <1>1, <1>2, <1>3, ImportedIs DEF Rows
<1>6. /\ lane' \in LaneRecord /\ SameKnown(lane', lane) /\ Bad(lane) \subseteq Bad(lane')
      /\ lane'.unsaved = lane.unsaved \cup dates /\ Counted(lane')
  <2>1. PICK unsaved \in BOOLEAN : unsaved = TRUE OBVIOUS
  <2>2. PICK m : m = lane' OBVIOUS
  <2>3. m = Fail(lane, dates, unsaved) BY <2>1, <2>2, <1>4
  <2>4. lane \in LaneRecord /\ dates \in SUBSET Dates BY <1>1, <1>5
  <2>5. /\ m \in LaneRecord /\ SameKnown(m, lane)
        /\ Bad(m) = Bad(lane) \cup dates
        /\ m.unsaved = IF unsaved THEN lane.unsaved \cup dates ELSE lane.unsaved
        /\ Counted(lane) => Counted(m)
    BY <2>3, <2>4, FailIs
  <2> QED BY <2>1, <2>2, <2>5, <1>1
<1>7. /\ stored \subseteq stored' /\ stored' \subseteq Hours
      /\ torn' \subseteq torn \cup changes /\ torn' \subseteq stored'
      /\ meridian' \in MeridianRecord
  BY <1>1, <1>4, <1>5, ImportIs DEF IInv, TornOK
<1>8. /\ run' \in RunRecord /\ run'.energy = run.energy /\ run'.target = run.target
      /\ run'.fetchedFrom = run.fetchedFrom
  BY <1>1, <1>4 DEF StateOK, RunRecord
<1>9. StateOK'
  <2>1. torn' \subseteq Hours BY <1>7
  <2> QED BY <2>1, <1>1, <1>7, <1>8 DEF StateOK, During
<1>10. WaitsAreCounted' /\ KeptOK' /\ Rows' /\ Reported'
  BY <1>1, <1>6 DEF WaitsAreCounted, Counted, Bad, KeptOK, Rows, Reported
<1>11. Aimed'
  BY <1>1, <1>5, <1>6, <1>8 DEF IInv, Aimed, During, Past
<1>12. HasRead'
  BY <1>1, <1>7, <1>8 DEF IInv, HasRead, During, Open
<1>13. TornOK'
  <2>1. ASSUME NEW h \in torn'
        PROVE  /\ DayOf(h) \in lane'.unsaved \/ Past(DayOf(h))
               /\ \/ FirstDay(lane', run.energy, run.target) <= DayOf(h)
                  \/ Past(DayOf(h))
    <3>1. PICK l \in LaneRecord : l = lane' BY <1>6
    <3>2. CASE h \in torn
      <4>1. FirstDay(l, run.energy, run.target) <= DayOf(h) \/ Past(DayOf(h))
        BY <3>2, <1>1, TornAfter DEF Open
      <4> QED BY <4>1, <3>1, <3>2, <1>6 DEF IInv, TornOK
    <3>3. CASE h \in changes
      <4>1. FirstDay(lane, run.energy, run.target) <= DayOf(h)
        BY <3>3, <1>1, <1>5 DEF Rows
      <4>2. FirstDay(lane', run.energy, run.target) = FirstDay(lane, run.energy, run.target)
        BY <1>6 DEF FirstDay, HistoryStart, SameKnown
      <4> QED BY <4>1, <4>2, <3>3, <1>5, <1>6
    <3> QED BY <3>2, <3>3, <1>7
  <2> QED BY <2>1, <1>1, <1>7, <1>8 DEF TornOK, Past
<1>14. Owed'
  <2>1. Bad(lane') = Bad(lane)' BY DEF Bad
  <2>2. DaysOf(stored) \subseteq DaysOf(stored') BY <1>7 DEF DaysOf
  <2> QED BY <2>1, <2>2, <1>1, <1>6, <1>8 DEF IInv, Owed, SameKnown, During
<1> QED BY <1>6, <1>9, <1>10, <1>11, <1>12, <1>13, <1>14 DEF IInv

\* A date a pass owes that the update read is one it may ask for.
LEMMA OwedIsAsked ==
  ASSUME StateOK, HasRead, Owed, phase \in During, NEW l \in LaneRecord,
         NEW d \in owed, ~ (d < run.target)
  PROVE  /\ d \in DaysOf(run.energy) /\ d \in Int /\ d < End
         /\ FirstDay(l, run.energy, run.target) \in Int
         /\ FirstDay(l, run.energy, run.target) <= d
<1>1. d \in DaysOf(run.energy) /\ d \in Dates /\ d \in Int /\ d < today - Overlap + 1
      /\ (run.fetchedFrom = None \/ d < run.fetchedFrom)
  BY DatesAre DEF Owed, StateOK
<1>2. PICK h \in run.energy : DayOf(h) = d
  BY <1>1 DEF DaysOf
<1>3. h \in stored /\ stored \in SUBSET Hours /\ stored # {}
  BY <1>2 DEF HasRead, StateOK
<1>4. d <= DayOf(Frontier)
  <2>1. Frontier = Greatest(stored) BY <1>3 DEF Frontier
  <2>2. Greatest(stored) \in Int /\ h <= Greatest(stored) /\ h \in Int
    BY <1>3, SomeHours, HoursAre
  <2> QED BY <2>1, <2>2, <1>2, DaysGrow
<1>5. d < End
  <2>1. PICK from \in Int \cup {None} : from = run.fetchedFrom
    BY DEF StateOK, RunRecord
  <2>2. PICK end : end = End OBVIOUS
  <2>3. end = CoverageEnd(today, Frontier, from) BY <2>1, <2>2 DEF End
  <2>4. \A e \in Int : /\ e < today - Overlap + 1
                       /\ stored # {} /\ e <= DayOf(Frontier)
                       /\ from = None \/ e < from
                       => e < end
    BY <2>3, EndIs
  <2> QED BY <2>1, <2>2, <2>4, <1>1, <1>3, <1>4
<1>6. PICK S \in SUBSET Hours : S = run.energy
  BY DEF StateOK, RunRecord
<1>7. PICK target \in Int : target = run.target
  BY DatesAre DEF StateOK, RunRecord
<1>8. PICK first : first = FirstDay(l, S, target)
  OBVIOUS
<1>9. first \in Int /\ \A g \in S : target <= DayOf(g) => first <= DayOf(g)
  BY <1>8, FirstIs
<1>10. first <= d
  BY <1>1, <1>2, <1>6, <1>7, <1>9
<1> QED BY <1>1, <1>5, <1>6, <1>7, <1>8, <1>9, <1>10

\* The update's end settles what waits and what the lane reports.
LEMMA SettleKeeps == IInv /\ SettleLane => IInv'
<1> SUFFICES ASSUME IInv, SettleLane PROVE IInv'
  OBVIOUS
<1>1. /\ StateOK /\ lane \in LaneRecord /\ Counted(lane) /\ phase = "settling"
      /\ phase' = "settled" /\ HasRead /\ Owed /\ TornOK /\ Aimed
      /\ UNCHANGED <<today, billing, meridian, stored, kept, run, torn, late>>
  BY CountedIs DEF IInv, SettleLane
<1>2. PICK first : first = FirstDay(lane, run.energy, run.target)
  OBVIOUS
<1>3. PICK before : before = {d \in Dates : d < first}
  OBVIOUS
<1>4. PICK left : left = Settle(lane, before)
  OBVIOUS
<1>5. lane' = [left EXCEPT
         !.revising = @ /\ Revision(left) # {},
         !.reaches = ReachesTarget(left, run.energy, run.target, End, Frontier)]
  BY <1>2, <1>3, <1>4 DEF SettleLane, Settled, ForgetBadBefore
<1>6. /\ left \in LaneRecord /\ SameKnown(left, lane) /\ Counted(left)
      /\ Bad(left) = Bad(lane) \ before /\ left.unsaved = lane.unsaved \ before
  <2>1. lane \in LaneRecord BY <1>1
  <2> QED BY <1>1, <1>4, <2>1, SettleIs
<1>7. PICK revising \in BOOLEAN : revising = (left.revising /\ Revision(left) # {})
  OBVIOUS
<1>8. PICK reaches \in BOOLEAN :
        reaches = ReachesTarget(left, run.energy, run.target, End, Frontier)
  BY DEF ReachesTarget
<1>9. /\ lane' \in LaneRecord /\ lane'.fetched = lane.fetched
      /\ lane'.revised = lane.revised /\ lane'.unsaved = lane.unsaved \ before
      /\ lane'.revising = revising /\ lane'.reaches = reaches
      /\ lane'.bad = left.bad /\ lane'.tries = left.tries
      /\ lane'.empty = left.empty /\ lane'.refusedThrough = left.refusedThrough
      /\ lane'.knownFetched = left.knownFetched /\ lane'.knownEmpty = left.knownEmpty
      /\ lane'.knownRefused = left.knownRefused
      /\ Bad(lane') = Bad(lane) \ before /\ Counted(lane')
  <2>1. lane' = [left EXCEPT !.revising = revising, !.reaches = reaches]
    BY <1>5, <1>7, <1>8
  <2>2. left \in LaneRecord BY <1>6
  <2>3. /\ lane' \in LaneRecord /\ lane'.fetched = left.fetched
        /\ lane'.revised = left.revised /\ lane'.unsaved = left.unsaved
        /\ lane'.revising = revising /\ lane'.reaches = reaches
        /\ lane'.bad = left.bad /\ lane'.tries = left.tries
        /\ lane'.empty = left.empty /\ lane'.refusedThrough = left.refusedThrough
        /\ lane'.knownFetched = left.knownFetched /\ lane'.knownEmpty = left.knownEmpty
        /\ lane'.knownRefused = left.knownRefused
    BY <2>1, <2>2 DEF LaneRecord
  <2>4. Bad(lane') = Bad(left) /\ (Counted(left) => Counted(lane'))
    BY <2>3 DEF Bad, Counted
  <2> QED BY <2>3, <2>4, <1>6 DEF SameKnown
<1>10. /\ owed' \subseteq owed /\ calm' \in BOOLEAN
       /\ ~ revising => \A d \in owed' : ~ (d < run.target)
  <2>1. owed' = {d \in owed : lane'.revising \/ d >= run.target}
        /\ calm' = (Bad(lane') = {} /\ late = {})
    BY DEF SettleLane
  <2>2. \A d \in owed : d \in Int /\ run.target \in Int
    <3>1. owed \subseteq Dates /\ run.target \in Dates BY <1>1 DEF StateOK, RunRecord
    <3> QED BY <3>1, DatesAre
  <2> QED BY <2>1, <2>2, <1>9
<1>11. StateOK'
  BY <1>1, <1>10 DEF StateOK, During
<1>12. WaitsAreCounted' /\ KeptOK' /\ Rows'
  BY <1>1, <1>9 DEF WaitsAreCounted, Counted, Bad, KeptOK, Rows
<1>13. Aimed' /\ HasRead'
  BY <1>1, <1>9 DEF Aimed, HasRead, During, Open, Past
<1>14. TornOK'
  <2>1. \A h \in torn : DayOf(h) \in lane'.unsaved \/ Past(DayOf(h))
    <3> SUFFICES ASSUME NEW h \in torn, ~ Past(DayOf(h)), DayOf(h) \in before
                 PROVE  FALSE
      BY <1>1, <1>9 DEF TornOK
    <3>1. first <= DayOf(h) BY <1>1, <1>2 DEF TornOK
    <3>2. DayOf(h) \in Int /\ DayOf(h) < first BY <1>3, DatesAre
    <3>3. first \in Int
      <4>1. PICK S \in SUBSET Hours : S = run.energy BY <1>1 DEF StateOK, RunRecord
      <4>2. run.target \in Dates BY <1>1 DEF StateOK, RunRecord
      <4>3. PICK target \in Int : target = run.target BY <4>2, DatesAre
      <4>4. first = FirstDay(lane, S, target) /\ lane \in LaneRecord
        BY <1>1, <1>2, <4>1, <4>3
      <4> QED BY <4>4, FirstIs
    <3> QED BY <3>1, <3>2, <3>3
  <2> QED BY <2>1, <1>1 DEF TornOK, Past
<1>15. ASSUME NEW d \in owed', ~ revising PROVE d \in Bad(lane')
  <2>1. d \in owed /\ ~ (d < run.target)
    BY <1>10, <1>15
  <2>2. /\ d \in DaysOf(run.energy) /\ d \in Int /\ d < End
        /\ first \in Int /\ first <= d /\ FirstDay(left, run.energy, run.target) <= d
    <3>1. lane \in LaneRecord /\ left \in LaneRecord BY <1>1, <1>6
    <3>2. /\ d \in DaysOf(run.energy) /\ d \in Int /\ d < End
          /\ FirstDay(lane, run.energy, run.target) \in Int
          /\ FirstDay(lane, run.energy, run.target) <= d
      BY <1>1, <2>1, <3>1, OwedIsAsked DEF During
    <3>3. FirstDay(left, run.energy, run.target) <= d
      BY <1>1, <2>1, <3>1, OwedIsAsked DEF During
    <3> QED BY <3>2, <3>3, <1>2
  <2>3. d \notin before BY <2>2, <1>3
  <2>4. CASE lane.revising
    <3>1. left.revising /\ left.revised = lane.revised /\ left.fetched = lane.fetched
      BY <2>4, <1>6 DEF SameKnown
    <3>2. Revision(left) = {} BY <3>1, <1>7, <1>15
    <3>3. d \in left.revised \cup left.fetched \cup Bad(left)
      BY <3>1, <3>2, <2>2 DEF Revision, RevisionDays
    <3>4. d \notin lane.fetched \cup lane.revised BY <2>1, <1>1 DEF Owed
    <3> QED BY <3>1, <3>3, <3>4, <1>6, <1>9
  <2>5. CASE ~ lane.revising
    <3>1. d \in Bad(lane) BY <2>1, <2>5, <1>1 DEF Owed
    <3> QED BY <3>1, <2>3, <1>9
  <2> QED BY <2>4, <2>5
<1>16. Owed'
  <2>1. Bad(lane') = Bad(lane)' BY DEF Bad
  <2>2. \A d \in owed' : /\ d \in DaysOf(stored) /\ d < today - Overlap + 1
                         /\ d \notin lane.fetched \cup lane.revised
                         /\ d < run.target \/ d \in DaysOf(run.energy)
                         /\ run.fetchedFrom = None \/ d < run.fetchedFrom
    BY <1>1, <1>10 DEF Owed, During
  <2> QED BY <2>1, <2>2, <1>1, <1>9, <1>15 DEF Owed
<1>17. Reported'
  <2>1. ASSUME reaches PROVE ReachesTarget(lane', run.energy, run.target, End, Frontier)
    <3>1. ReachesTarget(left, run.energy, run.target, End, Frontier) BY <2>1, <1>8
    <3>2. FirstKnownDay(lane', run.energy, run.target) = FirstKnownDay(left, run.energy, run.target)
      BY <1>9 DEF FirstKnownDay, KnownStart, HistoryStart
    <3>3. Bad(lane') = Bad(left) /\ lane'.unsaved = left.unsaved
          /\ lane'.fetched = left.fetched /\ lane'.knownFetched = left.knownFetched
      BY <1>6, <1>9 DEF SameKnown
    <3> QED BY <3>1, <3>2, <3>3 DEF ReachesTarget
  <2>2. End' = End /\ Frontier' = Frontier
    BY <1>1 DEF End, Frontier
  <2> QED BY <2>1, <2>2, <1>1, <1>9 DEF Reported
<1> QED BY <1>9, <1>11, <1>12, <1>13, <1>14, <1>16, <1>17 DEF IInv

\* Every step keeps the invariant.
LEMMA NextIInv == IInv /\ [Next]_vars => IInv'
<1> SUFFICES ASSUME IInv, [Next]_vars PROVE IInv'
  OBVIOUS
<1>1. CASE Update BY <1>1, UpdateKeeps
<1>2. CASE PlanLane BY <1>2, PlanKeeps
<1>3. CASE FetchWindow BY <1>3, FetchKeeps
<1>4. CASE CoverWindowFails \/ CoverStops \/ CoverDone BY <1>4, StopsKeep
<1>5. CASE ImportWindow BY <1>5, ImportKeeps
<1>6. CASE ImportUnsaved BY <1>6, UnsavedKeeps
<1>7. CASE SettleLane BY <1>7, SettleKeeps
<1>8. CASE EndUpdate BY <1>8, EndKeeps
<1>9. CASE Reload BY <1>9, ReloadKeeps
<1>10. CASE TimePasses BY <1>10, TimeKeeps
<1>11. CASE BillingMoves \/ MeridianChanges BY <1>11, ChangesKeep
<1>12. CASE UNCHANGED vars
  BY <1>12 DEF vars, history, IInv, StateOK, WaitsAreCounted, Bad, Aimed, Past, HasRead, Rows,
     Days, TornOK, KeptOK, Owed, Reported, End, Frontier
<1> QED
  BY <1>1, <1>2, <1>3, <1>4, <1>5, <1>6, <1>7, <1>8, <1>9, <1>10, <1>11, <1>12 DEF Next

\* The invariant holds in every state.
THEOREM Invariance == Spec => []IInv
<1>1. Init => IInv BY InitIInv
<1>2. IInv /\ [Next]_vars => IInv' BY NextIInv
<1> QED BY <1>1, <1>2, PTL DEF Spec

\* The state of the lane and its update is as LaneState and _Unit hold it.
THEOREM TypeCorrect == Spec => []TypeOK
<1>1. IInv => TypeOK
  <2> SUFFICES ASSUME IInv PROVE TypeOK
    OBVIOUS
  <2>1. today \in Dates
    BY LaneAssumption DEF IInv, StateOK, Dates
  <2> QED BY <2>1 DEF IInv, StateOK, TypeOK, During
<1> QED BY <1>1, Invariance, PTL

\* A date waits exactly while its failures in a row count, and one whose import
\* was not confirmed is among those that wait, whatever steps moved them.
THEOREM WaitsCounted == Spec => []WaitsAreCounted
<1>1. IInv => WaitsAreCounted BY DEF IInv
<1> QED BY <1>1, Invariance, PTL

\* A stored step an import may have left wrong belongs to a date that is
\* replayed in full, or to one no lane reaches back to any more.
THEOREM TornUnsaved == Spec => []TornIsUnsaved
<1>1. IInv => TornIsUnsaved
  BY DEF IInv, TornOK, Past, TornIsUnsaved
<1> QED BY <1>1, Invariance, PTL

\* A revision pass that has ended has asked again for every date stored when it
\* began that its lane still reached back to, but for those that wait.
THEOREM PassAsks == Spec => []PassAsksAll
<1>1. IInv => PassAsksAll
  BY DEF IInv, Owed, PassAsksAll
<1> QED BY <1>1, Invariance, PTL

\* The dates a settled lane answers for, with no step wrong: the part of
\* ReportsTruth that does not rest on what Meridian answers.
StepsRight ==
  phase = "settled" /\ lane.reaches =>
    \A d \in FirstKnownDay(lane, run.energy, run.target) .. End - 1 :
      HoursOf(d) \cap torn = {}

\* A lane that says it reaches its target left no step wrong from the first
\* date it answers for, whatever Meridian answered.
THEOREM ReportedSteps == Spec => []StepsRight
<1>1. IInv => StepsRight
  <2> SUFFICES ASSUME IInv, phase = "settled", lane.reaches,
                      NEW d \in FirstKnownDay(lane, run.energy, run.target) .. End - 1,
                      NEW h \in HoursOf(d), h \in torn
               PROVE  FALSE
    BY DEF StepsRight
  <2>1. d \in Int /\ run.target <= d /\ run.target \in Int
    <3>1. run.target \in Dates BY DEF IInv, StateOK, RunRecord
    <3>2. PICK target \in Int : target = run.target BY <3>1, DatesAre
    <3>3. PICK S \in SUBSET Hours : S = run.energy BY DEF IInv, StateOK, RunRecord
    <3>4. PICK first : first = FirstKnownDay(lane, S, target) OBVIOUS
    <3>5. lane \in LaneRecord BY DEF IInv
    <3>6. first \in Int /\ target <= first BY <3>4, <3>5, FirstKnownIs
    <3>7. d \in Int /\ first <= d BY <3>2, <3>3, <3>4, <3>6
    <3> QED BY <3>2, <3>6, <3>7
  <2>2. DayOf(h) = d
    <3>1. h \in Int /\ Midnight(d) <= h /\ h < Midnight(d + 1)
      <4>1. Midnight(d) \in Int /\ Midnight(d + 1) \in Int
        <5>1. d + 1 \in Int BY <2>1
        <5> QED BY <2>1, <5>1, DayIs
      <4> QED BY <4>1 DEF HoursOf
    <3> QED BY <3>1, <2>1, DayIs
  <2>3. d \notin lane.unsaved
    BY DEF IInv, Reported, ReachesTarget
  <2>4. Past(d) BY <2>2, <2>3 DEF IInv, TornOK
  <2>5. ~ Past(run.target) BY DEF IInv, Aimed, During
  <2> QED BY <2>1, <2>4, <2>5, LaneAssumption DEF Past, IInv, StateOK
<1> QED BY <1>1, Invariance, PTL

-------------------------------------------------------------------------------
(***************************************************************************)
(* Of a Meridian that answers what it is asked, every date fetched is      *)
(* stored.                                                                 *)
(***************************************************************************)
\* An hour of a date is within it, and of no other.
LEMMA HoursOfIs ==
  ASSUME NEW d \in Dates, NEW h \in HoursOf(d)
  PROVE  h \in Int /\ DayOf(h) = d /\ Midnight(d) <= h /\ h < Midnight(d + 1)
         /\ Midnight(d) \in Int /\ Midnight(d + 1) \in Int
<1>1. d \in Int /\ d + 1 \in Int
  BY DatesAre
<1>2. Midnight(d) \in Int /\ Midnight(d + 1) \in Int
  BY <1>1, DayIs
<1>3. h \in Int /\ Midnight(d) <= h /\ h < Midnight(d + 1)
  BY <1>2 DEF HoursOf
<1> QED BY <1>1, <1>2, <1>3, DayIs

\* A date keeps its hours while only others are asked for again.
LEMMA WholeStays ==
  ASSUME NEW d \in Dates, WholeDate(d),
         stored \subseteq stored', meridian'.has \subseteq meridian.has \cup late',
         NEW taken \in SUBSET Dates, d \notin taken,
         late \ UNION {HoursOf(e) : e \in taken} \subseteq late'
  PROVE  WholeDate(d)'
<1> SUFFICES ASSUME NEW h \in HoursOf(d), h \in meridian'.has
             PROVE  h \in stored' \cup late'
  BY DEF WholeDate
<1>1. h \in meridian.has => h \in stored \cup late
  BY DEF WholeDate
<1>2. \A e \in taken : h \notin HoursOf(e)
  BY HoursOfIs
<1> QED BY <1>1, <1>2

\* A date before today is over.
LEMMA OverIs ==
  ASSUME StateOK, NEW d \in Dates, d < today, NEW h \in HoursOf(d)
  PROVE  h < Now
<1>1. Now \in Int /\ \A e \in Int : e < today => Midnight(e + 1) <= Now
  <2>1. 0 \in 0 .. FirstToday BY LaneAssumption
  <2> QED BY <2>1, BackIs
<1>2. d \in Int /\ h \in Int /\ h < Midnight(d + 1) /\ Midnight(d + 1) \in Int
  BY HoursOfIs, DatesAre
<1> QED BY <1>1, <1>2

\* What a walk takes of a date, it imports.
LEMMA WalkTakes ==
  ASSUME StateOK, NEW walk, WalkOK(walk), NEW newest,
         NEW d \in WalkDates(walk, newest), d < today,
         NEW h \in HoursOf(d), h \in meridian.has
  PROVE  h \in stored \cup WalkImports(walk)
<1>1. /\ d \in Dates /\ Midnight(d) >= walk.since /\ walk.since \in Int
      /\ LeftOutThrough(walk) = None \/ d > LeftOutThrough(walk)
  BY WalkDatesAre DEF WalkOK
<1>2. PICK w \in walk.kept : d \in WindowDates(w)
  BY WalkDatesAre
<1>3. h \in Int /\ DayOf(h) = d /\ Midnight(d) <= h /\ h < Now /\ Midnight(d) \in Int
  BY <1>1, HoursOfIs, OverIs
<1>4. h \in Has(w) /\ h >= walk.since
  BY <1>1, <1>2, <1>3 DEF Has, InWindow
<1>5. h \in walk.rows
  BY <1>2, <1>4 DEF WalkOK
<1>6. /\ walk.rows \in SUBSET Hours /\ WalkStored(walk) \in SUBSET Hours
      /\ today \in Int /\ None \notin Int /\ d \in Int
  BY <1>1, LaneAssumption, DatesAre DEF StateOK, WalkOK, WalkStored, MeridianRecord
<1>7. CASE WalkStored(walk) = {}
  BY <1>5, <1>7 DEF WalkImports, Importable
<1>8. CASE WalkStored(walk) # {}
  <2>1. ~ TailNotReturned(walk.rows, WalkStored(walk))
    BY <1>1, <1>5, <1>6, <1>8 DEF LeftOutThrough
  <2>2. PICK holes \in SUBSET Hours : holes = Holes(walk.rows, WalkStored(walk))
    BY <1>6 DEF Holes
  <2>3. \A hole \in holes : hole < h
    <3> SUFFICES ASSUME NEW hole \in holes PROVE hole < h
      OBVIOUS
    <3>1. LeftOutThrough(walk) = DayOf(Greatest(holes))
      BY <1>5, <1>8, <2>1, <2>2 DEF LeftOutThrough
    <3>2. Greatest(holes) \in Int /\ hole \in Int /\ hole <= Greatest(holes)
      BY SomeHours, HoursAre
    <3>3. DayOf(Greatest(holes)) < d
      <4>1. DayOf(Greatest(holes)) \in Int BY <3>2, DayIs
      <4> QED BY <3>1, <4>1, <1>1, <1>6
    <3>4. Greatest(holes) < Midnight(d) BY <3>2, <3>3, <1>6, DayIs
    <3> QED BY <3>2, <3>4, <1>3
  <2>4. h \in AfterHoles(walk.rows, WalkStored(walk))
    BY <1>5, <2>2, <2>3 DEF AfterHoles
  <2> QED BY <1>5, <1>8, <2>1, <2>4 DEF WalkImports, Importable
<1> QED BY <1>7, <1>8

\* An update's walk, too, leaves the dates it takes stored.
LEMMA UpdateWhole == IInv /\ Update /\ FetchedIsStored => FetchedIsStored'
<1> SUFFICES ASSUME IInv, Update, FetchedIsStored PROVE FetchedIsStored'
  OBVIOUS
<1>1. StateOK /\ lane \in LaneRecord /\ torn \subseteq stored
  BY DEF IInv, TornOK
<1>2. PICK walk : \E taken, settled \in SUBSET Dates : UpdateTook(walk, taken, settled)
  BY UpdateIs
<1>3. PICK taken, settled \in SUBSET Dates : UpdateTook(walk, taken, settled)
  BY <1>2
<1>4. PICK changes \in SUBSET Hours : changes = WalkChanges(walk) /\ Confirmed(changes)
  BY <1>3 DEF UpdateTook
<1>5. stored' = stored \cup changes /\ meridian'.has = meridian.has
  BY <1>1, <1>4, ImportIs
<1>6. /\ lane'.fetched = lane.fetched \cup taken /\ lane'.knownFetched = lane.knownFetched
      /\ late' = late \ UNION {HoursOf(d) : d \in lane'.fetched \ lane.fetched}
      /\ WalkOK(walk)
      /\ \A d \in taken : /\ walk.completed # None /\ d \in WalkDates(walk, DayOf(Frontier'))
                          /\ d < today - Overlap
  BY <1>3 DEF UpdateTook
<1>7. ASSUME NEW d \in taken PROVE WholeDate(d)'
  <2>1. PICK newest : newest = DayOf(Frontier') OBVIOUS
  <2>2. d \in WalkDates(walk, newest) /\ d < today - Overlap /\ d \in Dates
    BY <2>1, <1>6
  <2>3. d < today
    BY <2>2, <1>1, DatesAre, LaneAssumption DEF StateOK
  <2>4. \A h \in HoursOf(d) : h \in meridian.has => h \in stored \cup WalkImports(walk)
    BY <2>2, <2>3, <1>1, <1>6, WalkTakes
  <2>5. changes = WalkImports(walk)
    BY <1>4, <1>6 DEF WalkChanges
  <2> QED BY <2>4, <2>5, <1>5 DEF WholeDate
<1>8. ASSUME NEW d \in lane.fetched \cup lane.knownFetched, d \notin taken
      PROVE  WholeDate(d)'
  <2>1. d \in Dates /\ WholeDate(d) BY <1>1, LaneIs DEF FetchedIsStored
  <2>2. late \ UNION {HoursOf(e) : e \in taken} \subseteq late'
    <3>1. lane'.fetched \ lane.fetched \subseteq taken BY <1>6
    <3> QED BY <3>1, <1>6
  <2>3. stored \subseteq stored' /\ meridian'.has \subseteq meridian.has \cup late'
    BY <1>5
  <2> QED BY <2>1, <2>2, <2>3, <1>8, WholeStays
<1> QED BY <1>6, <1>7, <1>8 DEF FetchedIsStored

\* A refused window shows a start before every reading.
LEMMA CoverStarts ==
  ASSUME StateOK, lane \in LaneRecord, Honest, Asks, NEW w, w = NextWindow,
         ~ CoverFails(w), NEW start, start = CoverStart(w), start # AllCame
  PROVE  start \in Dates /\ \A h \in meridian.has : start < DayOf(h)
<1>1. /\ w \in DateWindow /\ w.first <= w.last /\ WindowDates(w) \subseteq Dates
      /\ w.last - w.first < WindowDays
      /\ \A d \in WindowDates(w) : d < today - Overlap + 1
  BY AskedIs
<1>2. /\ w.first \in Int /\ w.last \in Int /\ w.first \in Dates /\ w.last \in Dates
      /\ today \in Int /\ WindowDays \in Int
  BY <1>1, WindowIs, WindowsAssumption DEF StateOK
<1>3. w.last < today
  <2>1. w.last < today - Overlap + 1 BY <1>1, <1>2 DEF WindowDates
  <2> QED BY <2>1, <1>2, LaneAssumption
<1>4. start # RefusalFails
  BY DEF CoverFails
<1>5. /\ w.first \in meridian.refuses /\ start \in Dates
      /\ \/ start \in meridian.refuses
         \/ start = w.last /\ w.last \notin DatesReturned(w.first - 1 .. w.last)
  BY <1>1, <1>4, CoverStartIs DEF Refuses
<1>6. CASE start \in meridian.refuses
  BY <1>5, <1>6 DEF Honest
<1>7. CASE start = w.last /\ w.last \notin DatesReturned(w.first - 1 .. w.last)
  <2> SUFFICES ASSUME NEW h \in meridian.has PROVE start < DayOf(h)
    BY <1>5
  <2>1. PICK d \in Int : d = DayOf(h) /\ w.first < d
    <3>1. h \in Hours BY DEF StateOK, MeridianRecord
    <3>2. DayOf(h) \in Int BY <3>1, HoursAre, DatesAre
    <3>3. w.first < DayOf(h) BY <1>5 DEF Honest
    <3> QED BY <3>2, <3>3
  <2>2. HoursOf(w.last) \cap meridian.has = {}
    <3> SUFFICES ASSUME NEW g \in HoursOf(w.last), g \in meridian.has PROVE FALSE
      OBVIOUS
    <3>1. g < Now /\ DayOf(g) = w.last
      BY <1>2, <1>3, OverIs, HoursOfIs
    <3>2. PICK one : one = Window(w.last, w.last) OBVIOUS
    <3>3. one.first = w.last /\ one.last = w.last BY <3>2 DEF Window
    <3>4. w.last \in WindowDates(one) BY <3>3, <1>2 DEF WindowDates
    <3>5. meridian.reads = "asked" BY DEF Honest
    <3>6. Returned(one) = {x \in meridian.has : DayOf(x) \in WindowDates(one) /\ x < Now}
      BY <3>3, <3>5, <1>2, ReturnedIs
    <3>7. g \in Returned(one) BY <3>1, <3>4, <3>6
    <3>8. w.last \in w.first - 1 .. w.last BY <1>1, <1>2
    <3> QED BY <1>7, <3>2, <3>7, <3>8 DEF DatesReturned
  <2>3. w.last \notin d .. w.first + WindowDays - 1
    BY <2>1, <2>2, <1>5 DEF Honest
  <2>4. w.last < d BY <2>1, <2>3, <1>1, <1>2
  <2> QED BY <2>1, <2>4, <1>7
<1> QED BY <1>5, <1>6, <1>7

\* Meridian's answer for a window holds all it has of its dates.
LEMMA FetchWhole == IInv /\ FetchWindow /\ Honest => RowsWhole'
<1> SUFFICES ASSUME IInv, FetchWindow, Honest PROVE RowsWhole'
  OBVIOUS
<1>1. /\ StateOK /\ lane \in LaneRecord /\ Asks
      /\ UNCHANGED <<today, meridian>>
  BY DEF IInv, FetchWindow
<1>2. PICK w : w = NextWindow
  OBVIOUS
<1>3. PICK rows : rows = CoverRows(w)
  OBVIOUS
<1>4. PICK start : start = CoverStart(w)
  OBVIOUS
<1>5. ~ CoverFails(w) /\ run'.window = w /\ run'.rows = rows
  <2>1. run \in RunRecord BY <1>1 DEF StateOK
  <2> QED BY <2>1, <1>2, <1>3 DEF FetchWindow, RunRecord
<1>6. /\ w \in DateWindow /\ w.first <= w.last /\ WindowDates(w) \subseteq Dates
      /\ w.last - w.first < WindowDays
      /\ \A d \in WindowDates(w) :
           /\ FirstDay(lane, run.energy, run.target) <= d
           /\ run.target <= d /\ d < today - Overlap + 1
  BY <1>1, <1>2, AskedIs
<1>7. /\ w.first \in Int /\ w.last \in Int /\ w.first \in Dates /\ w.last \in Dates
      /\ today \in Int /\ WindowDays \in Int
  BY <1>1, <1>6, WindowIs, WindowsAssumption DEF StateOK
<1>8. \A d \in WindowDates(w) : d \in Dates /\ d \in Int /\ d < today
  <2> TAKE d \in WindowDates(w)
  <2>1. d \in Dates /\ d \in Int /\ d < today - Overlap + 1 BY <1>6, DatesAre
  <2> QED BY <2>1, <1>7, LaneAssumption
<1>9. ASSUME start # AllCame, NEW h \in meridian.has, DayOf(h) \in WindowDates(w)
      PROVE  start < DayOf(h)
  BY <1>1, <1>2, <1>4, <1>5, <1>9, CoverStarts
<1>10. ASSUME NEW d \in WindowDates(w), NEW h \in HoursOf(d), h \in meridian.has
       PROVE  h \in rows
  <2>1. d \in Dates /\ d \in Int /\ d < today /\ run.target <= d
    BY <1>6, <1>8
  <2>2. h \in Int /\ DayOf(h) = d /\ h < Now
    BY <2>1, <1>1, HoursOfIs, OverIs
  <2>3. h >= Midnight(run.target)
    <3>1. run.target \in Int BY <1>1, DatesAre DEF StateOK, RunRecord
    <3> QED BY <2>1, <2>2, <3>1, DayIs
  <2>4. start # RefusalFails BY <1>4, <1>5 DEF CoverFails
  <2>5. start = AllCame \/ start < DayOf(h) BY <2>2, <1>9, <1>10
  <2>6. meridian.reads = "asked" BY DEF Honest
  <2> QED BY <2>2, <2>3, <2>4, <2>5, <2>6, <1>1, <1>3, <1>4, <1>6, <1>10, CoverRowsAre
<1>11. Days' = WindowDates(w)
  BY <1>5 DEF Days
<1> QED BY <1>1, <1>5, <1>10, <1>11 DEF RowsWhole

\* Of the dates an import takes, every hour Meridian has is stored.
LEMMA ImportTakes ==
  ASSUME IInv, RowsWhole, phase = "fetched", Confirmed(Changes),
         NEW energy, energy = run.energy \cup Changes,
         NEW d \in Days \ Retries(LeftOut, energy),
         NEW h \in HoursOf(d), h \in meridian.has
  PROVE  h \in stored \cup Changes
<1>1. /\ StateOK /\ Rows /\ d \in Dates /\ d \in Int /\ Changes \subseteq Hours
      /\ StoredIn \in SUBSET Hours /\ run.rows \in SUBSET Hours /\ stored \in SUBSET Hours
  BY ImportedIs, DatesAre DEF IInv, StateOK, RunRecord
<1>2. run.target <= d /\ d < today
  <2>1. run.target <= d /\ d < today - Overlap + 1 BY <1>1 DEF Rows
  <2> QED BY <2>1, <1>1, LaneAssumption DEF StateOK
<1>3. h \in Int /\ DayOf(h) = d /\ h < Now /\ h \in Hours
  BY <1>1, <1>2, HoursOfIs, OverIs DEF StateOK, MeridianRecord
<1>4. h \in run.rows
  BY <1>3 DEF RowsWhole
<1>5. h \in Importable(run.rows, StoredIn) => h \in stored \cup Changes
  BY DEF Changes
<1>6. StoredIn \subseteq stored
  BY DEF StoredIn, InWindow, IInv, HasRead, Open
<1>7. CASE d \in LeftOut
  <2>1. ~ HasMissingHour(d, energy, run.target, Frontier)
    BY <1>7 DEF Retries
  <2>2. h >= Midnight(run.target)
    <3>1. run.target \in Int BY <1>1, DatesAre DEF StateOK, RunRecord
    <3> QED BY <1>2, <1>3, <3>1, DayIs
  <2>3. h \in energy \/ (Frontier # None /\ ~ (h < Frontier))
    BY <2>1, <2>2 DEF HasMissingHour
  <2>4. CASE h \in energy
    BY <2>4, <1>6 DEF IInv, HasRead, Open
  <2>5. CASE Frontier # None /\ ~ (h < Frontier) /\ h \notin stored
    <3>1. stored # {} /\ Frontier = Greatest(stored) BY <2>5 DEF Frontier
    <3>2. Frontier \in stored /\ Frontier \in Int /\ \A g \in stored : g \in Int /\ g <= Frontier
      BY <1>1, <3>1, SomeHours, HoursAre
    <3>3. \A g \in StoredIn : g < h
      BY <1>3, <1>6, <2>5, <3>2
    <3>4. PICK high \in Int : \A g \in Hours : g \in Int /\ g <= high
      <4>1. PICK high \in Int : high = Midnight(LastToday + 1) BY HoursAre
      <4>2. \A g \in Hours : g \in Int /\ g <= high BY <4>1, HoursAre
      <4> QED BY <4>2
    <3>5. run.rows \in SUBSET Int /\ StoredIn \in SUBSET Int
          /\ \A g \in run.rows \cup StoredIn : g <= high
      BY <1>1, <3>4
    <3>6. h \in Importable(run.rows, StoredIn)
      BY <1>4, <3>3, <3>5, ImportsNewer
    <3> QED BY <3>6, <1>5
  <2> QED BY <2>3, <2>4, <2>5
<1>8. CASE d \notin LeftOut
  <2>1. d \notin LeftOutDates(run.rows, StoredIn, Days)
    BY <1>8 DEF LeftOut
  <2>2. CASE StoredIn = {}
    BY <2>2, <1>4, <1>5 DEF Importable
  <2>3. CASE StoredIn # {}
    <3>1. ~ TailNotReturned(run.rows, StoredIn)
      BY <2>1, <2>3, <1>4 DEF LeftOutDates
    <3>2. \A hole \in Holes(run.rows, StoredIn) : ~ (d <= DayOf(hole))
      BY <2>1, <2>3, <3>1, <1>4 DEF LeftOutDates
    <3>3. \A hole \in Holes(run.rows, StoredIn) : hole < h
      <4> TAKE hole \in Holes(run.rows, StoredIn)
      <4>1. hole \in Int /\ DayOf(hole) \in Int
        BY <1>1, HoursAre, DatesAre DEF Holes
      <4>2. h <= hole => DayOf(h) <= DayOf(hole) BY <4>1, <1>3, DaysGrow
      <4> QED BY <4>1, <4>2, <3>2, <1>3
    <3>4. h \in AfterHoles(run.rows, StoredIn)
      BY <1>4, <3>3 DEF AfterHoles
    <3> QED BY <2>3, <3>1, <3>4, <1>4, <1>5 DEF Importable
  <2> QED BY <2>2, <2>3
<1> QED BY <1>7, <1>8

\* An import that is confirmed leaves the dates it takes stored.
LEMMA ImportWhole ==
  IInv /\ ImportWindow /\ FetchedIsStored /\ RowsWhole => FetchedIsStored'
<1> SUFFICES ASSUME IInv, ImportWindow, FetchedIsStored, RowsWhole PROVE FetchedIsStored'
  OBVIOUS
<1>1. /\ StateOK /\ lane \in LaneRecord /\ Counted(lane) /\ phase = "fetched" /\ Rows
      /\ torn \subseteq stored
  BY CountedIs DEF IInv, ImportWindow, TornOK
<1>2. PICK energy : energy = run.energy \cup Changes
  OBVIOUS
<1>3. PICK retry : retry = Retries(LeftOut, energy)
  OBVIOUS
<1>4. PICK taken : taken = Days \ retry
  OBVIOUS
<1>5. /\ Confirmed(Changes) /\ lane' = Noted(lane, LeftOut, retry)
      /\ late' = late \ UNION {HoursOf(d) : d \in taken}
  <2>1. run'.energy = energy
    <3>1. run \in RunRecord BY <1>1 DEF StateOK
    <3> QED BY <3>1, <1>2 DEF ImportWindow, RunRecord
  <2> QED BY <2>1, <1>3, <1>4 DEF ImportWindow
<1>6. Changes \in SUBSET Hours /\ Days \in SUBSET Dates /\ retry \subseteq LeftOut
      /\ LeftOut \subseteq Days
  BY <1>1, <1>3, ImportedIs DEF Retries
<1>7. stored' = stored \cup Changes /\ meridian'.has = meridian.has
  <2>1. PICK changes \in SUBSET Hours : changes = Changes BY <1>6
  <2>2. Confirmed(changes) BY <2>1, <1>5
  <2>3. stored' = stored \cup changes /\ meridian'.has = meridian.has
    BY <2>2, <1>1, ImportIs
  <2> QED BY <2>1, <2>3
<1>8. /\ lane'.fetched = lane.fetched \cup taken
      /\ lane'.knownFetched = lane.knownFetched \ taken
  <2>1. PICK out : out = LeftOut OBVIOUS
  <2>2. PICK m : m = lane' OBVIOUS
  <2>3. m = Noted(lane, out, retry) BY <2>1, <2>2, <1>5
  <2>4. retry \in SUBSET Dates /\ lane \in LaneRecord /\ Counted(lane)
        /\ Days \in SUBSET Dates
    BY <1>1, <1>6
  <2>5. /\ m.fetched = lane.fetched \cup (Days \ retry)
        /\ m.knownFetched = lane.knownFetched \ (Days \ retry)
    BY <2>3, <2>4, NotedIs
  <2> QED BY <2>2, <2>5, <1>4
<1>9. ASSUME NEW d \in taken PROVE WholeDate(d)'
  <2>1. \A h \in HoursOf(d) : h \in meridian.has => h \in stored \cup Changes
    BY <1>1, <1>2, <1>3, <1>4, <1>5, ImportTakes
  <2> QED BY <2>1, <1>7 DEF WholeDate
<1>10. ASSUME NEW d \in lane.fetched \cup lane.knownFetched, d \notin taken
       PROVE  WholeDate(d)'
  <2>1. d \in Dates /\ WholeDate(d) BY <1>1, LaneIs DEF FetchedIsStored
  <2>2. taken \in SUBSET Dates BY <1>4, <1>6
  <2>3. /\ stored \subseteq stored' /\ meridian'.has \subseteq meridian.has \cup late'
        /\ late \ UNION {HoursOf(e) : e \in taken} \subseteq late'
    BY <1>5, <1>7
  <2> QED BY <2>1, <2>2, <2>3, <1>10, WholeStays
<1> QED BY <1>8, <1>9, <1>10 DEF FetchedIsStored

\* What the dates fetched hold stays true, of a Meridian that stays honest.
LEMMA WholeKeeps ==
  IInv /\ Honest /\ FetchedIsStored /\ RowsWhole /\ [Next]_vars
    => FetchedIsStored' /\ RowsWhole'
<1> SUFFICES ASSUME IInv, Honest, FetchedIsStored, RowsWhole, [Next]_vars
             PROVE  FetchedIsStored' /\ RowsWhole'
  OBVIOUS
<1>1. StateOK /\ lane \in LaneRecord /\ Counted(lane) /\ torn \subseteq stored
  BY CountedIs DEF IInv, TornOK
<1>2. ASSUME stored \subseteq stored', late \subseteq late',
             meridian'.has \subseteq meridian.has \cup late',
             lane'.fetched \cup lane'.knownFetched \subseteq lane.fetched \cup lane.knownFetched
      PROVE  FetchedIsStored'
  <2> SUFFICES ASSUME NEW d \in lane'.fetched \cup lane'.knownFetched PROVE WholeDate(d)'
    BY DEF FetchedIsStored
  <2>1. d \in Dates /\ WholeDate(d) BY <1>1, <1>2, LaneIs DEF FetchedIsStored
  <2>2. late \ UNION {HoursOf(e) : e \in {}} \subseteq late' BY <1>2
  <2>3. {} \in SUBSET Dates /\ d \notin {} OBVIOUS
  <2> QED BY <1>2, <2>1, <2>2, <2>3, WholeStays
<1>3. CASE Update
  <2>1. phase' # "fetched" BY <1>3 DEF Update
  <2> QED BY <1>3, <2>1, UpdateWhole DEF RowsWhole
<1>4. CASE PlanLane
  <2>1. /\ phase' # "fetched" /\ UNCHANGED <<stored, late, meridian>>
        /\ lane' = StartRevision(ForgetBefore(lane, run.target), today)
    BY <1>4 DEF PlanLane
  <2>2. PICK day : day = run.target OBVIOUS
  <2>3. PICK planned : planned = ForgetBefore(lane, day) OBVIOUS
  <2>4. /\ planned \in LaneRecord /\ planned.fetched \subseteq lane.fetched
        /\ planned.knownFetched \subseteq lane.knownFetched
    BY <1>1, <2>3, ForgetIs
  <2>5. today \in Nat BY <1>1, LaneAssumption DEF StateOK
  <2>6. PICK date \in Nat : date = today BY <2>5
  <2>7. PICK m : m = lane' OBVIOUS
  <2>8. m = StartRevision(planned, date) BY <2>1, <2>2, <2>3, <2>6, <2>7
  <2>9. planned \in LaneRecord BY <2>4
  <2>10. m.fetched \cup m.knownFetched \subseteq planned.fetched \cup planned.knownFetched
    BY <2>8, <2>9, RevisionIs
  <2> QED BY <1>2, <2>1, <2>4, <2>7, <2>10 DEF RowsWhole
<1>5. CASE FetchWindow
  <2>1. UNCHANGED <<stored, late, meridian>> BY <1>5 DEF FetchWindow, history
  <2>2. lane'.fetched = lane.fetched /\ lane'.knownFetched = lane.knownFetched
    <3>1. lane' = lane \/ \E start : lane' = [lane EXCEPT !.refusedThrough = start]
      BY <1>5 DEF FetchWindow
    <3> QED BY <3>1, <1>1 DEF LaneRecord
  <2> QED BY <1>2, <1>5, <2>1, <2>2, FetchWhole
<1>6. CASE CoverWindowFails \/ CoverStops \/ CoverDone
  <2>1. phase' # "fetched" /\ UNCHANGED <<stored, late, meridian>>
    BY <1>6 DEF CoverWindowFails, CoverStops, CoverDone, history
  <2>2. lane'.fetched = lane.fetched /\ lane'.knownFetched = lane.knownFetched
    <3>1. CASE CoverWindowFails
      <4>1. Asks BY <3>1 DEF CoverWindowFails
      <4>2. PICK w : w = NextWindow OBVIOUS
      <4>3. PICK unsaved \in BOOLEAN : unsaved = FALSE OBVIOUS
      <4>4. PICK m : m = lane' OBVIOUS
      <4>5. PICK dates : dates = WindowDates(w) OBVIOUS
      <4>6. m = Fail(lane, dates, unsaved)
        BY <3>1, <4>2, <4>3, <4>4, <4>5 DEF CoverWindowFails
      <4>7. dates \in SUBSET Dates /\ lane \in LaneRecord
        BY <1>1, <4>1, <4>2, <4>5, AskedIs
      <4>8. SameKnown(m, lane) BY <4>6, <4>7, FailIs
      <4> QED BY <4>4, <4>8 DEF SameKnown
    <3>2. CASE ~ CoverWindowFails
      BY <3>2, <1>6 DEF CoverStops, CoverDone
    <3> QED BY <3>1, <3>2
  <2> QED BY <1>2, <2>1, <2>2 DEF RowsWhole
<1>7. CASE ImportWindow
  <2>1. phase' # "fetched" BY <1>7 DEF ImportWindow
  <2> QED BY <1>7, <2>1, ImportWhole DEF RowsWhole
<1>8. CASE ImportUnsaved
  <2>1. /\ phase = "fetched" /\ phase' # "fetched" /\ late' = late
        /\ Changes # {} /\ Unconfirmed(Changes) /\ lane' = Fail(lane, Days, TRUE)
    BY <1>8 DEF ImportUnsaved
  <2>2. Changes \in SUBSET Hours /\ Days \in SUBSET Dates
    BY <1>1, <2>1, ImportedIs DEF IInv
  <2>3. stored \subseteq stored' /\ meridian'.has = meridian.has
    <3>1. PICK changes \in SUBSET Hours : changes = Changes BY <2>2
    <3>2. Unconfirmed(changes) /\ changes # {} BY <2>1, <3>1
    <3> QED BY <3>2, <1>1, ImportIs
  <2>4. lane'.fetched = lane.fetched /\ lane'.knownFetched = lane.knownFetched
    <3>1. PICK unsaved \in BOOLEAN : unsaved = TRUE OBVIOUS
    <3>2. PICK m : m = lane' OBVIOUS
    <3>3. PICK dates : dates = Days OBVIOUS
    <3>4. m = Fail(lane, dates, unsaved) BY <3>1, <3>2, <3>3, <2>1
    <3>5. dates \in SUBSET Dates /\ lane \in LaneRecord BY <1>1, <2>2, <3>3
    <3>6. SameKnown(m, lane) BY <3>4, <3>5, FailIs
    <3> QED BY <3>2, <3>6 DEF SameKnown
  <2> QED BY <1>2, <2>1, <2>3, <2>4 DEF RowsWhole
<1>9. CASE SettleLane
  <2>1. phase' # "fetched" /\ UNCHANGED <<stored, late, meridian>>
    BY <1>9 DEF SettleLane
  <2>2. PICK before : before = {d \in Dates : d < FirstDay(lane, run.energy, run.target)}
    OBVIOUS
  <2>3. PICK left : left = Settle(lane, before)
    OBVIOUS
  <2>4. left \in LaneRecord /\ SameKnown(left, lane)
    <3>1. lane \in LaneRecord BY <1>1
    <3> QED BY <3>1, <2>3, SettleIs
  <2>5. \E revising, reaches : lane' = [left EXCEPT !.revising = revising, !.reaches = reaches]
    <3>1. lane' = [left EXCEPT
             !.revising = left.revising /\ Revision(left) # {},
             !.reaches = ReachesTarget(left, run.energy, run.target, End, Frontier)]
      BY <1>9, <2>2, <2>3 DEF SettleLane, Settled, ForgetBadBefore
    <3> QED BY <3>1
  <2>6. PICK revising, reaches :
          lane' = [left EXCEPT !.revising = revising, !.reaches = reaches]
    BY <2>5
  <2>7. lane'.fetched = left.fetched /\ lane'.knownFetched = left.knownFetched
    BY <2>4, <2>6 DEF LaneRecord
  <2> QED BY <1>2, <2>1, <2>4, <2>7 DEF RowsWhole, SameKnown
<1>10. CASE EndUpdate
  BY <1>2, <1>10 DEF EndUpdate, history, RowsWhole
<1>11. CASE Reload
  <2>1. /\ phase' # "fetched" /\ UNCHANGED <<stored, late, meridian>>
        /\ lane' = RestoreUnsaved(NewLane, kept')
    BY <1>11 DEF Reload
  <2>2. PICK retries : retries = kept' OBVIOUS
  <2>3. retries \in [Dates -> Memory!Waits \cup {None}]
    <3>1. kept' = kept \/ kept' = [d \in Dates |-> None] BY <1>11 DEF Reload
    <3> QED BY <3>1, <2>2, <1>1 DEF StateOK
  <2>4. PICK m : m = lane' OBVIOUS
  <2>5. m = RestoreUnsaved(NewLane, retries) BY <2>1, <2>2, <2>4
  <2>6. m.fetched = {} /\ m.knownFetched = {} BY <2>3, <2>5, RestoreIs
  <2> QED BY <1>2, <2>1, <2>4, <2>6 DEF RowsWhole
<1>12. CASE TimePasses
  <2>1. phase = "waiting" /\ UNCHANGED <<phase, stored, late, meridian>>
    BY <1>12 DEF TimePasses, history
  <2>2. lane'.fetched = lane.fetched /\ lane'.knownFetched = lane.knownFetched
    <3>1. \E bad : lane' = [lane EXCEPT !.bad = bad] BY <1>12 DEF TimePasses
    <3> QED BY <3>1, <1>1 DEF LaneRecord
  <2> QED BY <1>2, <2>1, <2>2 DEF RowsWhole
<1>13. CASE BillingMoves
  BY <1>2, <1>13 DEF BillingMoves, RowsWhole
<1>14. CASE MeridianChanges
  <2>1. phase = "waiting" /\ UNCHANGED <<phase, stored, lane>> /\ late \subseteq late'
    BY <1>14 DEF MeridianChanges
  <2>2. meridian'.has \subseteq meridian.has \cup late'
    <3>1. PICK h \in Hours :
            \/ meridian' = [meridian EXCEPT !.has = @ \cup {h}] /\ late' = late \cup {h}
            \/ meridian' = [meridian EXCEPT !.revised = @ \cup {h}] /\ late' = late
            \/ meridian' = [meridian EXCEPT !.has = @ \ {h}, !.revised = @ \ {h}]
                 /\ late' = late
      BY <1>14 DEF MeridianChanges
    <3>2. meridian \in MeridianRecord BY <1>1 DEF StateOK
    <3> QED BY <3>1, <3>2 DEF MeridianRecord
  <2> QED BY <1>2, <2>1, <2>2 DEF RowsWhole
<1>15. CASE UNCHANGED vars
  BY <1>2, <1>15 DEF vars, history, RowsWhole, Days, Now
<1> QED
  BY <1>3, <1>4, <1>5, <1>6, <1>7, <1>8, <1>9, <1>10, <1>11, <1>12, <1>13, <1>14, <1>15
     DEF Next

\* A lane that says it reaches its target has stored every hour Meridian had
\* when the date was last asked for, with every step right, as long as Meridian
\* answers for the dates it is asked for.
THEOREM Truth == Spec /\ []Honest => []ReportsTruth
<1>1. Init => FetchedIsStored /\ RowsWhole
  BY DEF Init, NewLane, FetchedIsStored, RowsWhole
<1>2. IInv /\ Honest /\ FetchedIsStored /\ RowsWhole /\ [Next]_vars
        => FetchedIsStored' /\ RowsWhole'
  BY WholeKeeps
<1>3. IInv /\ StepsRight /\ FetchedIsStored => ReportsTruth
  <2> SUFFICES ASSUME IInv, StepsRight, FetchedIsStored, phase = "settled", lane.reaches,
                      NEW d \in FirstKnownDay(lane, run.energy, run.target) .. End - 1,
                      NEW h \in HoursOf(d), h \in meridian.has, h < Frontier
               PROVE  h \in stored \cup late
    BY DEF ReportsTruth, StepsRight
  <2>1. CASE h \in stored
    BY <2>1
  <2>2. CASE h \notin stored
    <3>1. h \notin run.energy
      BY <2>2 DEF IInv, HasRead, During
    <3>2. h >= Midnight(run.target)
      <4>1. run.target \in Dates BY DEF IInv, StateOK, RunRecord
      <4>2. PICK target \in Int : target = run.target BY <4>1, DatesAre
      <4>3. PICK S \in SUBSET Hours : S = run.energy BY DEF IInv, StateOK, RunRecord
      <4>4. PICK first : first = FirstKnownDay(lane, S, target) OBVIOUS
      <4>5. lane \in LaneRecord BY DEF IInv
      <4>6. first \in Int /\ target <= first BY <4>4, <4>5, FirstKnownIs
      <4>7. d \in Int /\ target <= d BY <4>2, <4>3, <4>4, <4>6
      <4>8. h \in HoursOf(d) /\ Midnight(d) \in Int /\ Midnight(target) \in Int
            /\ Midnight(d + 1) \in Int
        <5>1. d + 1 \in Int BY <4>7
        <5> QED BY <5>1, <4>7, DayIs
      <4>9. h \in Int /\ Midnight(d) <= h BY <4>8 DEF HoursOf
      <4>10. d <= DayOf(h) /\ DayOf(h) \in Int BY <4>7, <4>9, DayIs
      <4>11. target \in Int /\ target <= DayOf(h)
        <5>1. PICK g \in Int : g = DayOf(h) BY <4>10
        <5>2. target <= g BY <4>2, <4>7, <4>10, <5>1
        <5> QED BY <4>2, <5>1, <5>2
      <4>12. Midnight(target) <= h
        BY <4>9, <4>11, DayIs
      <4> QED BY <4>2, <4>8, <4>9, <4>12
    <3>3. HasMissingHour(d, run.energy, run.target, Frontier)
      BY <3>1, <3>2 DEF HasMissingHour
    <3>4. d \in lane.knownFetched \cup lane.fetched
      BY <3>3 DEF IInv, Reported, ReachesTarget
    <3>5. WholeDate(d) BY <3>4 DEF FetchedIsStored
    <3> QED BY <3>5 DEF WholeDate
  <2> QED BY <2>1, <2>2
<1> QED BY <1>1, <1>2, <1>3, Invariance, ReportedSteps, PTL DEF Spec

-------------------------------------------------------------------------------
(***************************************************************************)
(* Of such a Meridian, the dates a lane was shown to be before its history *)
(* have no reading, but for hours published since, or stored since.        *)
(***************************************************************************)
\* Every stored hour is over.
IsOver == \A h \in stored : h < Now

\* An hour is stored, and known to be by the update that runs.
Seen(h) == h \in stored /\ (phase \in During /\ h >= Midnight(run.target) => h \in run.energy)

NoneShown ==
  \A d \in Dates : Shown(lane, d) => \A h \in HoursOf(d) \cap meridian.has : h \in late \/ Seen(h)

\* A walk's rows are of hours that are over, and the date it takes the history
\* to start after is before every reading.
LEMMA WalkStarts ==
  ASSUME StateOK, NEW initial \in BOOLEAN, NEW walk \in Walks(Cutoff(initial))
  PROVE  /\ \A h \in walk.rows : h < Now
         /\ Honest /\ walk.start # None => \A h \in meridian.has : walk.start < DayOf(h)
<1>1. PICK since : since = Cutoff(initial)
  OBVIOUS
<1>2. since \in Int
  BY <1>1, CutoffIs
<1>3. PICK ws : ws = PlanWindows(since, today)
  OBVIOUS
<1>4. today \in Int
  BY DEF StateOK
<1>5. PICK first : first = OldestAsked(since, today)
  OBVIOUS
<1>6. PICK m \in Nat \ {0} :
        /\ ws = [k \in 1 .. m |-> ws[k]]
        /\ \A k \in 1 .. m :
             /\ ws[k] \in AWindow /\ ws[k].first <= ws[k].last
             /\ ws[k].last - ws[k].first < WindowDays
             /\ ws[k].last = IF k = 1 THEN today ELSE ws[k - 1].first - 1
             /\ \A j \in 1 .. k - 1 : ws[k].last < ws[j].first
  BY <1>2, <1>3, <1>4, <1>5, PlanCovers
<1>7. Len(ws) = m
  <2>1. ws \in [1 .. m -> AWindow] BY <1>6
  <2> QED BY <2>1
<1>8. \A w : \A h \in Has(w) : h < Now
  BY DEF Has
<1>9. ASSUME NEW n, NEW refused, \A h \in refused : h < Now, NEW start, NEW failing,
             walk = Walk(since, ws, n, refused, start, failing)
      PROVE  walk.start = start /\ \A h \in walk.rows : h < Now
  <2>1. /\ walk.start = start
        /\ walk.rows = {h \in refused \cup UNION {Has(ws[k]) : k \in 1 .. n} : h >= since}
    BY <1>9 DEF Walk
  <2> QED BY <2>1, <1>8, <1>9
<1>10. \/ \E n, failing : walk = Walk(since, ws, n, {}, None, failing)
       \/ \E n \in 1 .. m : \E start \in Dates : \E dates :
            /\ ws[n].first \in meridian.refuses
            /\ walk = Walk(since, ws, n - 1, UNION {Has(Window(d, d)) : d \in dates}, start, FALSE)
            /\ start = StartAfter(ws[n], DayOf(since),
                         UNION {Has(ws[k]) : k \in 1 .. n - 1} # {}, stored = {},
                         {d \in Dates : Has(Window(d, d)) # {}}, meridian.refuses)
  <2> DEFINE W == PlanWindows(since, today)
             Fetched(n) == UNION {Has(W[k]) : k \in 1 .. n}
             Start(n) == StartAfter(W[n + 1], DayOf(since), Fetched(n) # {}, stored = {},
                  {d \in Dates : Has(Window(d, d)) # {}}, meridian.refuses)
             Answered(n) == \A k \in 1 .. n : ~ Refuses(W[k])
             counts == 1 .. Len(W)
             Ended == {k \in counts : Answered(k) /\ (k = Len(W) \/ Has(W[k]) = {})}
             Began == {k \in counts : Answered(k - 1) /\ Refuses(W[k])
                /\ Start(k - 1) \in Dates
                /\ \A h \in stored : h < since - 1 \/ DayOf(h) > Start(k - 1)}
             Failed == {k \in counts : Answered(k - 1)}
  <2>7. walk \in Walks(since) BY <1>1
  <2>1. walk \in
          {Walk(since, W, n, {}, None, FALSE) : n \in Ended}
          \cup {Walk(since, W, n - 1,
                  UNION {Has(Window(d, d)) : d \in KeptDates(W[n], Start(n - 1))},
                  Start(n - 1), FALSE) : n \in Began}
          \cup {Walk(since, W, n - 1, {}, None, TRUE) : n \in Failed}
    BY <2>7 DEF Walks
  <2>8. W = ws BY <1>3
  <2>2. \A n \in Began : n \in 1 .. m /\ Start(n - 1) \in Dates /\ Refuses(W[n])
    BY <1>3, <1>7
  <2>3. ASSUME NEW n \in Began
        PROVE  Start(n - 1) = StartAfter(ws[n], DayOf(since),
                         UNION {Has(ws[k]) : k \in 1 .. n - 1} # {}, stored = {},
                         {d \in Dates : Has(Window(d, d)) # {}}, meridian.refuses)
    <3>1. n \in Int /\ n - 1 + 1 = n BY <2>2
    <3>2. Start(n - 1) = StartAfter(W[n - 1 + 1], DayOf(since),
                         UNION {Has(W[k]) : k \in 1 .. n - 1} # {}, stored = {},
                         {d \in Dates : Has(Window(d, d)) # {}}, meridian.refuses)
      OBVIOUS
    <3> HIDE DEF W, Start
    <3> QED BY <3>1, <3>2, <2>8
  <2> HIDE DEF Ended, Began, Failed, Start, W
  <2>4. CASE \E n \in Ended : walk = Walk(since, W, n, {}, None, FALSE)
    BY <2>4, <2>8
  <2>5. CASE \E n \in Failed : walk = Walk(since, W, n - 1, {}, None, TRUE)
    BY <2>5, <2>8
  <2>6. CASE \E n \in Began :
               walk = Walk(since, W, n - 1,
                  UNION {Has(Window(d, d)) : d \in KeptDates(W[n], Start(n - 1))},
                  Start(n - 1), FALSE)
    <3>1. PICK n \in Began :
               walk = Walk(since, W, n - 1,
                  UNION {Has(Window(d, d)) : d \in KeptDates(W[n], Start(n - 1))},
                  Start(n - 1), FALSE)
      BY <2>6
    <3>2. n \in 1 .. m /\ Start(n - 1) \in Dates /\ Refuses(W[n]) BY <2>2
    <3>3. PICK start \in Dates : start = Start(n - 1) BY <3>2
    <3>4. PICK dates : dates = KeptDates(W[n], start) OBVIOUS
    <3>5. walk = Walk(since, ws, n - 1, UNION {Has(Window(d, d)) : d \in dates}, start, FALSE)
      BY <3>1, <3>3, <3>4, <2>8
    <3>6. ws[n].first \in meridian.refuses BY <3>2, <2>8 DEF Refuses
    <3>7. start = StartAfter(ws[n], DayOf(since),
                         UNION {Has(ws[k]) : k \in 1 .. n - 1} # {}, stored = {},
                         {d \in Dates : Has(Window(d, d)) # {}}, meridian.refuses)
      BY <2>3, <3>3
    <3> QED BY <3>2, <3>5, <3>6, <3>7
  <2> QED BY <2>1, <2>4, <2>5, <2>6
<1>11. CASE \E n, failing : walk = Walk(since, ws, n, {}, None, failing)
  <2>1. PICK n, failing : walk = Walk(since, ws, n, {}, None, failing) BY <1>11
  <2>2. \A h \in {} : h < Now OBVIOUS
  <2> QED BY <2>1, <2>2, <1>9
<1>12. CASE \E n \in 1 .. m : \E start \in Dates : \E dates :
            /\ ws[n].first \in meridian.refuses
            /\ walk = Walk(since, ws, n - 1, UNION {Has(Window(d, d)) : d \in dates}, start, FALSE)
            /\ start = StartAfter(ws[n], DayOf(since),
                         UNION {Has(ws[k]) : k \in 1 .. n - 1} # {}, stored = {},
                         {d \in Dates : Has(Window(d, d)) # {}}, meridian.refuses)
  <2>1. PICK n \in 1 .. m : \E start \in Dates : \E dates :
            /\ ws[n].first \in meridian.refuses
            /\ walk = Walk(since, ws, n - 1, UNION {Has(Window(d, d)) : d \in dates}, start, FALSE)
            /\ start = StartAfter(ws[n], DayOf(since),
                         UNION {Has(ws[k]) : k \in 1 .. n - 1} # {}, stored = {},
                         {d \in Dates : Has(Window(d, d)) # {}}, meridian.refuses)
    BY <1>12
  <2>2. PICK start \in Dates : \E dates :
            /\ ws[n].first \in meridian.refuses
            /\ walk = Walk(since, ws, n - 1, UNION {Has(Window(d, d)) : d \in dates}, start, FALSE)
            /\ start = StartAfter(ws[n], DayOf(since),
                         UNION {Has(ws[k]) : k \in 1 .. n - 1} # {}, stored = {},
                         {d \in Dates : Has(Window(d, d)) # {}}, meridian.refuses)
    BY <2>1
  <2>3. PICK refused : /\ walk = Walk(since, ws, n - 1, refused, start, FALSE)
                       /\ \A h \in refused : h < Now
    <3>1. PICK dates :
            walk = Walk(since, ws, n - 1, UNION {Has(Window(d, d)) : d \in dates}, start, FALSE)
      BY <2>2
    <3>2. PICK refused : refused = UNION {Has(Window(d, d)) : d \in dates} OBVIOUS
    <3>3. walk = Walk(since, ws, n - 1, refused, start, FALSE) BY <3>1, <3>2
    <3>4. \A h \in refused : h < Now BY <3>2, <1>8
    <3> QED BY <3>3, <3>4
  <2>4. walk.start = start /\ \A h \in walk.rows : h < Now
    BY <2>3, <1>9
  <2>5. ASSUME Honest, NEW h \in meridian.has PROVE start < DayOf(h)
    <3>1. PICK w \in AWindow : w = ws[n] /\ w.first <= w.last
                             /\ w.last - w.first < WindowDays
      BY <1>6
    <3>2. PICK oldest : oldest = DayOf(since) OBVIOUS
    <3>3. PICK newer \in BOOLEAN : newer = (UNION {Has(ws[k]) : k \in 1 .. n - 1} # {})
      OBVIOUS
    <3>4. PICK precedes \in BOOLEAN : precedes = (stored = {}) OBVIOUS
    <3>5. PICK readings : readings = {d \in Dates : Has(Window(d, d)) # {}} OBVIOUS
    <3>6. PICK refusing : refusing = meridian.refuses OBVIOUS
    <3>7. w.first \in refusing
          /\ start = StartAfter(w, oldest, newer, precedes, readings, refusing)
      BY <2>2, <3>1, <3>2, <3>3, <3>4, <3>5, <3>6
    <3>8. start \notin {AllCame, RefusalFails} /\ start \in Int
      BY DatesAre, WindowsAssumption
    <3>9. /\ w.first <= start /\ start <= w.last
          /\ start \in refusing \/ (newer /\ start = w.last /\ w.last \notin readings)
      BY <3>1, <3>7, <3>8, StartIn
    <3>10. CASE start \in refusing
      BY <3>6, <3>10, <2>5 DEF Honest
    <3>11. CASE newer /\ start = w.last /\ w.last \notin readings
      <4>1. w.first \in Int /\ w.last \in Int /\ WindowDays \in Int
        BY WindowsAssumption DEF AWindow
      <4>2. w.last < today
        <5>1. PICK k \in 1 .. n - 1 : TRUE BY <3>3, <3>11
        <5>2. 1 \in 1 .. n - 1 /\ 1 \in 1 .. m BY <5>1
        <5>3. w.last < ws[1].first /\ ws[1].first <= ws[1].last /\ ws[1].last = today
          BY <5>2, <3>1, <1>6
        <5>4. ws[1].first \in Int BY <5>2, <1>6 DEF AWindow
        <5> QED BY <5>3, <5>4, <4>1, <1>4
      <4>3. HoursOf(w.last) \cap meridian.has = {}
        <5> SUFFICES ASSUME NEW g \in HoursOf(w.last), g \in meridian.has PROVE FALSE
          OBVIOUS
        <5>1. PICK d \in Dates : d = w.last /\ g \in HoursOf(d) BY <3>11
        <5>2. g < Now /\ DayOf(g) = d BY <5>1, <4>2, OverIs, HoursOfIs
        <5>3. WindowDates(Window(d, d)) = {d}
          <6>1. d \in Int BY DatesAre
          <6> QED BY <6>1 DEF WindowDates, Window
        <5>4. g \in Has(Window(d, d)) BY <5>2, <5>3 DEF Has, InWindow
        <5> QED BY <5>1, <5>4, <3>5, <3>11
      <4>4. PICK d \in Int : d = DayOf(h) /\ w.first < d
        <5>1. h \in Hours BY DEF StateOK, MeridianRecord
        <5>2. DayOf(h) \in Int BY <5>1, HoursAre, DatesAre
        <5>3. w.first < DayOf(h) BY <3>6, <3>7, <2>5 DEF Honest
        <5> QED BY <5>2, <5>3
      <4>5. w.last \notin d .. w.first + WindowDays - 1
        BY <4>3, <4>4, <3>6, <3>7, <2>5 DEF Honest
      <4>6. w.last < d BY <4>1, <4>5, <3>1
      <4> QED BY <4>4, <4>6, <3>11
    <3> QED BY <3>9, <3>10, <3>11
  <2> QED BY <2>4, <2>5
<1> QED BY <1>10, <1>11, <1>12

\* Of a date a walk fetched in full that none of its rows is of, Meridian has
\* no reading.
LEMMA GapIs ==
  ASSUME StateOK, NEW walk, WalkOK(walk), NEW newest,
         NEW d \in WalkDates(walk, newest) \ DaysOf(walk.rows), d < today
  PROVE  HoursOf(d) \cap meridian.has = {}
<1> SUFFICES ASSUME NEW h \in HoursOf(d), h \in meridian.has PROVE FALSE
  OBVIOUS
<1>1. /\ d \in Dates /\ Midnight(d) >= walk.since /\ walk.since \in Int
  BY WalkDatesAre DEF WalkOK
<1>2. PICK w \in walk.kept : d \in WindowDates(w)
  BY WalkDatesAre
<1>3. h \in Int /\ DayOf(h) = d /\ Midnight(d) <= h /\ h < Now /\ Midnight(d) \in Int
  BY <1>1, HoursOfIs, OverIs
<1>4. h \in Has(w) /\ h >= walk.since
  BY <1>1, <1>2, <1>3 DEF Has, InWindow
<1>5. h \in walk.rows
  BY <1>2, <1>4 DEF WalkOK
<1> QED BY <1>3, <1>5 DEF DaysOf

\* What is stored stays over.
LEMMA OverKeeps == IInv /\ IsOver /\ [Next]_vars => IsOver'
<1> SUFFICES ASSUME IInv, IsOver, [Next]_vars PROVE IsOver'
  OBVIOUS
<1>1. StateOK /\ torn \subseteq stored /\ today \in Int
  BY DEF IInv, TornOK, StateOK
<1>2. Now \in Int /\ DayOf(Now) = today
  <2>1. 0 \in 0 .. FirstToday BY LaneAssumption
  <2> QED BY <2>1, <1>1, BackIs
<1>3. ASSUME UNCHANGED today, NEW changes, stored' \subseteq stored \cup changes,
             \A h \in changes : h < Now
      PROVE  IsOver'
  <2>1. Now' = Now BY <1>3 DEF Now
  <2> QED BY <2>1, <1>3 DEF IsOver
<1>4. CASE Update
  <2>1. PICK walk : \E taken, settled \in SUBSET Dates : UpdateTook(walk, taken, settled)
    BY <1>4, UpdateIs
  <2>2. PICK taken, settled \in SUBSET Dates : UpdateTook(walk, taken, settled)
    BY <2>1
  <2>3. PICK changes \in SUBSET Hours : changes = WalkChanges(walk) /\ Confirmed(changes)
    BY <2>2 DEF UpdateTook
  <2>4. stored' \subseteq stored \cup changes BY <2>3, <1>1, ImportIs
  <2>5. \A h \in changes : h < Now
    <3>1. \A h \in walk.rows : h < Now BY <2>2, <1>1, WalkStarts DEF UpdateTook
    <3>2. WalkImports(walk) \subseteq walk.rows BY ImportsFetched DEF WalkImports
    <3> QED BY <3>1, <3>2, <2>3 DEF WalkChanges
  <2>6. UNCHANGED today BY <1>4 DEF Update
  <2> QED BY <2>4, <2>5, <2>6, <1>3
<1>5. CASE ImportWindow \/ ImportUnsaved
  <2>1. phase = "fetched" /\ UNCHANGED today BY <1>5 DEF ImportWindow, ImportUnsaved
  <2>2. PICK changes : changes = Changes OBVIOUS
  <2>3. changes \in SUBSET Hours /\ \A h \in changes : DayOf(h) \in Days
    BY <2>1, <2>2, <1>1, ImportedIs DEF IInv
  <2>4. Confirmed(changes) \/ (Unconfirmed(changes) /\ changes # {})
    BY <1>5, <2>2 DEF ImportWindow, ImportUnsaved
  <2>5. stored' \subseteq stored \cup changes BY <2>3, <2>4, <1>1, ImportIs
  <2>6. ASSUME NEW h \in changes PROVE h < Now
    <3>1. h \in Hours /\ DayOf(h) < today - Overlap + 1 /\ DayOf(h) \in Dates
      BY <2>1, <2>3, HoursAre DEF IInv, Rows
    <3>2. PICK d \in Dates : d = DayOf(h) BY <3>1
    <3>3. d < today BY <3>1, <3>2, <1>1, DatesAre, LaneAssumption
    <3>4. h \in HoursOf(d)
      <4>1. h \in Hours /\ d \in Dates BY <3>1
      <4>2. PICK S \in SUBSET Hours : h \in S BY <4>1
      <4> QED BY <4>1, <4>2, <3>2, ReadIs
    <3> QED BY <3>3, <3>4, <1>1, OverIs
  <2> QED BY <2>1, <2>5, <2>6, <1>3
<1>6. CASE TimePasses
  <2>1. stored' = stored /\ (today' = today \/ today' = today + 1)
    BY <1>6 DEF TimePasses
  <2>2. Now' \in Int /\ Now <= Now'
    <3>1. PICK half \in Int : half = HoursPerDay \div 2 BY WindowsAssumption
    <3>2. /\ Midnight(today) \in Int /\ HoursPerDay \in Nat
          /\ Midnight(today + 1) = Midnight(today) + HoursPerDay
      BY <1>1, DayIs, WindowsAssumption
    <3>3. Now = Midnight(today) + half BY <3>1 DEF Now
    <3>4. Now' = Midnight(today') + half BY <3>1 DEF Now, Midnight
    <3>5. CASE today' = today BY <3>5, <3>3, <3>4, <3>2
    <3>6. CASE today' = today + 1
      <4>1. Midnight(today') = Midnight(today) + HoursPerDay BY <3>2, <3>6
      <4> QED BY <4>1, <3>2, <3>3, <3>4
    <3> QED BY <2>1, <3>5, <3>6
  <2>3. \A h \in stored : h \in Int BY <1>1, HoursAre DEF StateOK
  <2> QED BY <2>1, <2>2, <2>3, <1>2 DEF IsOver
<1>7. CASE UNCHANGED <<today, stored>>
  BY <1>7 DEF IsOver, Now
<1> QED
  BY <1>4, <1>5, <1>6, <1>7
     DEF Next, vars, PlanLane, FetchWindow, CoverWindowFails, CoverStops, CoverDone,
         SettleLane, EndUpdate, Reload, BillingMoves, MeridianChanges

\* What is shown stays so, while no date more is that Meridian has a reading of.
LEMMA ShownStays ==
  ASSUME IInv, NoneShown,
         \A d \in Dates : Shown(lane', d) =>
           Shown(lane, d) \/ HoursOf(d) \cap meridian'.has = {},
         meridian'.has \subseteq meridian.has \cup late', late \subseteq late',
         stored \subseteq stored',
         phase' \in During =>
           phase \in During /\ run.energy \subseteq run'.energy /\ run'.target = run.target
  PROVE  NoneShown'
<1> SUFFICES ASSUME NEW d \in Dates, Shown(lane', d), NEW h \in HoursOf(d), h \in meridian'.has,
                    h \notin late'
             PROVE  Seen(h)'
  BY DEF NoneShown
<1>1. h \in meridian.has /\ h \notin late /\ Shown(lane, d)
  OBVIOUS
<1>2. Seen(h)
  BY <1>1 DEF NoneShown
<1> QED BY <1>2 DEF Seen

\* An update, and an import that is confirmed, store what Meridian has had
\* since of the dates they take.
LEMMA ShownStored ==
  ASSUME IInv, NoneShown, StateOK', HasRead', phase' \notin {"settling", "settled"},
         meridian'.has = meridian.has, stored \subseteq stored',
         \A d \in Dates : Shown(lane', d) =>
           Shown(lane, d) \/ HoursOf(d) \cap meridian.has \subseteq stored',
         \A h \in late \ late' : h \in meridian.has => h \in stored'
  PROVE  NoneShown'
<1> SUFFICES ASSUME NEW d \in Dates, Shown(lane', d), NEW h \in HoursOf(d), h \in meridian'.has,
                    h \notin late'
             PROVE  Seen(h)'
  BY DEF NoneShown
<1>1. h \in stored'
  <2>1. CASE ~ Shown(lane, d) BY <2>1
  <2>2. CASE Shown(lane, d) /\ h \in late BY <2>2
  <2>3. CASE Shown(lane, d) /\ h \notin late BY <2>3 DEF NoneShown, Seen
  <2> QED BY <2>1, <2>2, <2>3
<1>2. phase' \in During => phase' \in Open
  BY DEF During, Open
<1> QED BY <1>1, <1>2 DEF Seen, HasRead

\* An update keeps what is shown.
LEMMA UpdateShown ==
  IInv /\ IInv' /\ Honest /\ IsOver /\ FetchedIsStored' /\ NoneShown /\ Update
    => NoneShown'
<1> SUFFICES ASSUME IInv, IInv', Honest, IsOver, FetchedIsStored', NoneShown, Update
             PROVE  NoneShown'
  OBVIOUS
<1>1. StateOK /\ torn \subseteq stored /\ today \in Int /\ lane \in LaneRecord
  BY DEF IInv, TornOK, StateOK
<1>2. PICK walk : \E taken, settled \in SUBSET Dates : UpdateTook(walk, taken, settled)
  BY UpdateIs
<1>3. PICK taken, settled \in SUBSET Dates : UpdateTook(walk, taken, settled)
  BY <1>2
<1>4. PICK changes \in SUBSET Hours : changes = WalkChanges(walk) /\ Confirmed(changes)
  BY <1>3 DEF UpdateTook
<1>5. /\ stored \subseteq stored' /\ stored' \subseteq stored \cup changes
      /\ meridian'.has = meridian.has
  BY <1>1, <1>4, ImportIs
<1>6. /\ \A h \in walk.rows : h < Now
      /\ walk.start # None => \A h \in meridian.has : walk.start < DayOf(h)
  BY <1>1, <1>3, WalkStarts DEF UpdateTook
<1>7. /\ WalkOK(walk)
      /\ \A d : Shown(lane', d) =>
           \/ Shown(lane, d)
           \/ walk.start # None /\ d <= walk.start
           \/ /\ d \in WalkDates(walk, DayOf(Frontier')) \ DaysOf(walk.rows)
              /\ Frontier' # None
      /\ late' = late \ UNION {HoursOf(d) : d \in lane'.fetched \ lane.fetched}
  BY <1>3 DEF UpdateTook
<1>8. Frontier' # None => DayOf(Frontier') \in Int /\ DayOf(Frontier') <= today
  <2>1. ASSUME Frontier' # None PROVE Frontier' \in Int /\ Frontier' < Now
    <3>1. PICK S : S = stored' OBVIOUS
    <3>2. S # {} /\ Frontier' = Greatest(S) BY <2>1, <3>1 DEF Frontier
    <3>3. S \in SUBSET Hours BY <3>1 DEF IInv, StateOK
    <3>4. Frontier' \in S /\ Frontier' \in Int BY <3>2, <3>3, SomeHours
    <3>5. \A h \in changes : h < Now
      <4>1. WalkImports(walk) \subseteq walk.rows BY ImportsFetched DEF WalkImports
      <4> QED BY <4>1, <1>4, <1>6 DEF WalkChanges
    <3> QED BY <3>1, <3>4, <3>5, <1>5 DEF IsOver
  <2>2. Now \in Int /\ DayOf(Now) = today
    <3>1. 0 \in 0 .. FirstToday BY LaneAssumption
    <3> QED BY <3>1, <1>1, BackIs
  <2>3. PICK newest : newest = Frontier' OBVIOUS
  <2>4. newest # None => newest \in Int /\ newest <= Now BY <2>1, <2>2, <2>3
  <2> QED BY <2>2, <2>3, <2>4, DaysGrow
<1>9. ASSUME NEW d \in Dates, Shown(lane', d), ~ Shown(lane, d)
      PROVE  HoursOf(d) \cap meridian.has = {}
  <2>1. CASE walk.start # None /\ d <= walk.start
    <3> SUFFICES ASSUME NEW h \in HoursOf(d), h \in meridian.has PROVE FALSE
      OBVIOUS
    <3>1. DayOf(h) = d /\ d \in Int BY HoursOfIs, DatesAre
    <3>2. walk.start < d BY <2>1, <3>1, <1>6
    <3>3. walk.start \in Int
      <4>1. walk.start \in Dates BY <2>1, <1>7 DEF WalkOK
      <4> QED BY <4>1, DatesAre
    <3> QED BY <2>1, <3>1, <3>2, <3>3
  <2>2. CASE /\ d \in WalkDates(walk, DayOf(Frontier')) \ DaysOf(walk.rows)
             /\ Frontier' # None
    <3>1. PICK newest \in Int : newest = DayOf(Frontier') /\ newest <= today
      BY <2>2, <1>8
    <3>2. d \in WalkDates(walk, newest) \ DaysOf(walk.rows) BY <2>2, <3>1
    <3>3. d < newest /\ d \in Int
      BY <3>2, <1>1, <1>7, WalkDatesAre, DatesAre
    <3>4. d < today BY <3>1, <3>3, <1>1
    <3> QED BY <3>2, <3>4, <1>1, <1>7, GapIs
  <2> QED BY <2>1, <2>2, <1>7, <1>9
<1>10. ASSUME NEW h \in late \ late', h \in meridian.has PROVE h \in stored'
  <2>1. PICK d \in lane'.fetched : h \in HoursOf(d) BY <1>7, <1>10
  <2>2. WholeDate(d)' BY <2>1 DEF FetchedIsStored
  <2> QED BY <2>1, <2>2, <1>5, <1>10 DEF WholeDate
<1>11. phase' = "walked"
  BY DEF Update
<1> QED BY <1>5, <1>9, <1>10, <1>11, ShownStored DEF IInv

\* So does an import that is confirmed.
LEMMA ImportShown ==
  IInv /\ IInv' /\ RowsWhole /\ NoneShown /\ ImportWindow => NoneShown'
<1> SUFFICES ASSUME IInv, IInv', RowsWhole, NoneShown, ImportWindow PROVE NoneShown'
  OBVIOUS
<1>1. /\ StateOK /\ lane \in LaneRecord /\ Counted(lane) /\ phase = "fetched" /\ Rows
      /\ torn \subseteq stored
  BY CountedIs DEF IInv, ImportWindow, TornOK
<1>2. PICK energy : energy = run.energy \cup Changes
  OBVIOUS
<1>3. PICK retry : retry = Retries(LeftOut, energy)
  OBVIOUS
<1>4. PICK taken : taken = Days \ retry
  OBVIOUS
<1>5. /\ Confirmed(Changes) /\ lane' = Noted(lane, LeftOut, retry)
      /\ late' = late \ UNION {HoursOf(d) : d \in taken}
  <2>1. run'.energy = energy
    <3>1. run \in RunRecord BY <1>1 DEF StateOK
    <3> QED BY <3>1, <1>2 DEF ImportWindow, RunRecord
  <2> QED BY <2>1, <1>3, <1>4 DEF ImportWindow
<1>6. Changes \in SUBSET Hours /\ Days \in SUBSET Dates /\ retry \subseteq LeftOut
      /\ LeftOut \subseteq Days
  BY <1>1, <1>3, ImportedIs DEF Retries
<1>7. stored' = stored \cup Changes /\ meridian'.has = meridian.has
  <2>1. PICK changes \in SUBSET Hours : changes = Changes BY <1>6
  <2>2. Confirmed(changes) BY <2>1, <1>5
  <2>3. stored' = stored \cup changes /\ meridian'.has = meridian.has
    BY <2>2, <1>1, ImportIs
  <2> QED BY <2>1, <2>3
<1>8. \A d : Shown(lane', d) => Shown(lane, d) \/ d \in taken
  <2>1. PICK out : out = LeftOut OBVIOUS
  <2>2. PICK m : m = lane' OBVIOUS
  <2>3. m = Noted(lane, out, retry) BY <2>1, <2>2, <1>5
  <2>4. retry \in SUBSET Dates /\ lane \in LaneRecord /\ Counted(lane)
        /\ Days \in SUBSET Dates
    BY <1>1, <1>6
  <2>5. \A d : Shown(m, d) => Shown(lane, d) \/ d \in Days \ retry
    BY <2>3, <2>4, NotedIs
  <2> QED BY <2>2, <2>5, <1>4
<1>9. \A d \in taken : \A h \in HoursOf(d) : h \in meridian.has => h \in stored'
  BY <1>1, <1>2, <1>3, <1>4, <1>5, <1>7, ImportTakes
<1>10. phase' = "covering"
  BY DEF ImportWindow
<1> QED BY <1>5, <1>7, <1>8, <1>9, <1>10, ShownStored DEF IInv

\* And a window's answer, of which a refusal shows a start before every reading.
LEMMA FetchShown == IInv /\ Honest /\ NoneShown /\ FetchWindow => NoneShown'
<1> SUFFICES ASSUME IInv, Honest, NoneShown, FetchWindow PROVE NoneShown'
  OBVIOUS
<1>1. /\ StateOK /\ lane \in LaneRecord /\ Asks /\ phase = "covering"
      /\ UNCHANGED <<meridian, stored, late>>
  BY DEF IInv, FetchWindow, history
<1>2. PICK w : w = NextWindow
  OBVIOUS
<1>3. PICK start : start = CoverStart(w)
  OBVIOUS
<1>4. /\ ~ CoverFails(w)
      /\ lane' = IF start = AllCame THEN lane ELSE [lane EXCEPT !.refusedThrough = start]
      /\ run'.energy = run.energy /\ run'.target = run.target
  <2>1. run \in RunRecord BY <1>1 DEF StateOK
  <2> QED BY <2>1, <1>2, <1>3 DEF FetchWindow, RunRecord
<1>5. start # AllCame => start \in Dates /\ \A h \in meridian.has : start < DayOf(h)
  BY <1>1, <1>2, <1>3, <1>4, CoverStarts
<1>6. ASSUME NEW d \in Dates, Shown(lane', d), ~ Shown(lane, d)
      PROVE  HoursOf(d) \cap meridian.has = {}
  <2>1. start # AllCame /\ lane' = [lane EXCEPT !.refusedThrough = start]
    BY <1>4, <1>6
  <2>2. d <= start
    <3>1. /\ lane'.empty = lane.empty /\ lane'.knownEmpty = lane.knownEmpty
          /\ lane'.refusedThrough = start /\ lane'.knownRefused = lane.knownRefused
      BY <2>1, <1>1 DEF LaneRecord
    <3> QED BY <3>1, <1>6 DEF Shown
  <2> SUFFICES ASSUME NEW h \in HoursOf(d), h \in meridian.has PROVE FALSE
    OBVIOUS
  <2>3. DayOf(h) = d /\ d \in Int /\ start \in Int BY <2>1, <1>5, HoursOfIs, DatesAre
  <2>4. start < d BY <2>1, <2>3, <1>5
  <2> QED BY <2>2, <2>3, <2>4
<1>7. phase' = "fetched"
  BY DEF FetchWindow
<1> QED BY <1>1, <1>4, <1>6, <1>7, ShownStays DEF During

\* Every step does.
LEMMA ShownKeeps ==
  /\ IInv /\ Honest /\ IsOver /\ FetchedIsStored /\ RowsWhole /\ NoneShown /\ [Next]_vars
  => NoneShown'
<1> SUFFICES ASSUME IInv, Honest, IsOver, FetchedIsStored, RowsWhole, NoneShown, [Next]_vars
             PROVE  NoneShown'
  OBVIOUS
<1>1. /\ StateOK /\ lane \in LaneRecord /\ Counted(lane) /\ torn \subseteq stored
      /\ IInv' /\ FetchedIsStored'
  BY CountedIs, NextIInv, WholeKeeps DEF IInv, TornOK
<1>2. ASSUME \A d \in Dates : Shown(lane', d) => Shown(lane, d),
             meridian'.has \subseteq meridian.has \cup late', late \subseteq late',
             stored \subseteq stored',
             phase' \in During =>
               phase \in During /\ run'.energy = run.energy /\ run'.target = run.target
      PROVE  NoneShown'
  BY <1>2, ShownStays
<1>3. \A m : SameKnown(m, lane) => \A d \in Dates : Shown(m, d) => Shown(lane, d)
  BY DEF SameKnown, Shown
<1>4. CASE Update \/ FetchWindow \/ ImportWindow
  BY <1>1, <1>4, UpdateShown, FetchShown, ImportShown
<1>5. CASE PlanLane
  <2>1. /\ phase = "walked" /\ UNCHANGED <<stored, late, meridian, run>>
        /\ lane' = StartRevision(ForgetBefore(lane, run.target), today)
    BY <1>5 DEF PlanLane
  <2>2. PICK day : day = run.target OBVIOUS
  <2>3. PICK planned : planned = ForgetBefore(lane, day) OBVIOUS
  <2>4. planned \in LaneRecord /\ \A d : Shown(planned, d) => Shown(lane, d)
    BY <1>1, <2>3, ForgetIs
  <2>5. today \in Nat BY <1>1, LaneAssumption DEF StateOK
  <2>6. PICK date \in Nat : date = today BY <2>5
  <2>7. PICK m : m = lane' OBVIOUS
  <2>8. m = StartRevision(planned, date) BY <2>1, <2>2, <2>3, <2>6, <2>7
  <2>9. planned \in LaneRecord BY <2>4
  <2>10. \A d : Shown(m, d) => Shown(planned, d) BY <2>8, <2>9, RevisionIs
  <2> QED BY <1>2, <2>1, <2>4, <2>7, <2>10 DEF During
<1>6. CASE CoverWindowFails
  <2>1. Asks /\ phase = "covering" /\ UNCHANGED <<stored, late, meridian>>
    BY <1>6 DEF CoverWindowFails
  <2>2. PICK w : w = NextWindow OBVIOUS
  <2>3. PICK unsaved \in BOOLEAN : unsaved = FALSE OBVIOUS
  <2>4. PICK m : m = lane' OBVIOUS
  <2>5. PICK dates : dates = WindowDates(w) OBVIOUS
  <2>6. m = Fail(lane, dates, unsaved)
    BY <1>6, <2>2, <2>3, <2>4, <2>5 DEF CoverWindowFails
  <2>7. dates \in SUBSET Dates /\ lane \in LaneRecord
    BY <1>1, <2>1, <2>2, <2>5, AskedIs
  <2>8. SameKnown(m, lane) BY <2>6, <2>7, FailIs
  <2>9. run'.energy = run.energy /\ run'.target = run.target
    <3>1. run \in RunRecord BY <1>1 DEF StateOK
    <3> QED BY <3>1, <1>6 DEF CoverWindowFails, RunRecord
  <2> QED BY <1>2, <1>3, <2>1, <2>4, <2>8, <2>9 DEF During
<1>7. CASE CoverStops \/ CoverDone
  <2>1. phase = "covering" /\ UNCHANGED <<stored, late, meridian, lane>>
    BY <1>7 DEF CoverStops, CoverDone, history
  <2>2. run'.energy = run.energy /\ run'.target = run.target
    <3>1. run \in RunRecord BY <1>1 DEF StateOK
    <3> QED BY <3>1, <1>7 DEF CoverStops, CoverDone, RunRecord
  <2> QED BY <1>2, <2>1, <2>2 DEF During
<1>8. CASE ImportUnsaved
  <2>1. /\ phase = "fetched" /\ late' = late
        /\ Changes # {} /\ Unconfirmed(Changes) /\ lane' = Fail(lane, Days, TRUE)
    BY <1>8 DEF ImportUnsaved
  <2>2. Changes \in SUBSET Hours /\ Days \in SUBSET Dates
    BY <1>1, <2>1, ImportedIs DEF IInv
  <2>3. stored \subseteq stored' /\ meridian'.has = meridian.has
    <3>1. PICK changes \in SUBSET Hours : changes = Changes BY <2>2
    <3>2. Unconfirmed(changes) /\ changes # {} BY <2>1, <3>1
    <3> QED BY <3>2, <1>1, ImportIs
  <2>4. PICK m : m = lane' OBVIOUS
  <2>5. SameKnown(m, lane)
    <3>1. PICK unsaved \in BOOLEAN : unsaved = TRUE OBVIOUS
    <3>2. PICK dates : dates = Days OBVIOUS
    <3>3. m = Fail(lane, dates, unsaved) BY <3>1, <3>2, <2>1, <2>4
    <3>4. dates \in SUBSET Dates /\ lane \in LaneRecord BY <1>1, <2>2, <3>2
    <3> QED BY <3>3, <3>4, FailIs
  <2>6. run'.energy = run.energy /\ run'.target = run.target
    <3>1. run \in RunRecord BY <1>1 DEF StateOK
    <3> QED BY <3>1, <1>8 DEF ImportUnsaved, RunRecord
  <2> QED BY <1>2, <1>3, <2>1, <2>3, <2>4, <2>5, <2>6 DEF During
<1>9. CASE SettleLane
  <2>1. phase = "settling" /\ UNCHANGED <<stored, late, meridian, run>>
    BY <1>9 DEF SettleLane
  <2>2. PICK before : before = {d \in Dates : d < FirstDay(lane, run.energy, run.target)}
    OBVIOUS
  <2>3. PICK left : left = Settle(lane, before)
    OBVIOUS
  <2>4. left \in LaneRecord /\ SameKnown(left, lane)
    <3>1. lane \in LaneRecord BY <1>1
    <3> QED BY <3>1, <2>3, SettleIs
  <2>5. \E revising, reaches : lane' = [left EXCEPT !.revising = revising, !.reaches = reaches]
    <3>1. lane' = [left EXCEPT
             !.revising = left.revising /\ Revision(left) # {},
             !.reaches = ReachesTarget(left, run.energy, run.target, End, Frontier)]
      BY <1>9, <2>2, <2>3 DEF SettleLane, Settled, ForgetBadBefore
    <3> QED BY <3>1
  <2>6. PICK revising, reaches :
          lane' = [left EXCEPT !.revising = revising, !.reaches = reaches]
    BY <2>5
  <2>7. /\ lane'.empty = left.empty /\ lane'.knownEmpty = left.knownEmpty
        /\ lane'.refusedThrough = left.refusedThrough
        /\ lane'.knownRefused = left.knownRefused
    BY <2>4, <2>6 DEF LaneRecord
  <2>8. \A d \in Dates : Shown(lane', d) => Shown(left, d)
    BY <2>7 DEF Shown
  <2> QED BY <1>2, <1>3, <2>1, <2>4, <2>8 DEF During
<1>10. CASE EndUpdate
  <2>1. phase' \notin During BY <1>10 DEF EndUpdate, During
  <2> QED BY <1>2, <1>10, <2>1 DEF EndUpdate, history
<1>11. CASE Reload
  <2>1. /\ phase' = "waiting" /\ UNCHANGED <<stored, late, meridian>>
        /\ lane' = RestoreUnsaved(NewLane, kept')
    BY <1>11 DEF Reload
  <2>2. PICK retries : retries = kept' OBVIOUS
  <2>3. retries \in [Dates -> Memory!Waits \cup {None}]
    <3>1. kept' = kept \/ kept' = [d \in Dates |-> None] BY <1>11 DEF Reload
    <3> QED BY <3>1, <2>2, <1>1 DEF StateOK
  <2>4. PICK m : m = lane' OBVIOUS
  <2>5. m = RestoreUnsaved(NewLane, retries) BY <2>1, <2>2, <2>4
  <2>6. \A d : ~ Shown(m, d) BY <2>3, <2>5, RestoreIs
  <2> QED BY <1>2, <2>1, <2>4, <2>6 DEF During
<1>12. CASE TimePasses
  <2>1. phase = "waiting" /\ UNCHANGED <<phase, stored, late, meridian>>
    BY <1>12 DEF TimePasses, history
  <2>2. /\ lane'.empty = lane.empty /\ lane'.knownEmpty = lane.knownEmpty
        /\ lane'.refusedThrough = lane.refusedThrough
        /\ lane'.knownRefused = lane.knownRefused
    <3>1. \E bad : lane' = [lane EXCEPT !.bad = bad] BY <1>12 DEF TimePasses
    <3> QED BY <3>1, <1>1 DEF LaneRecord
  <2>3. \A d \in Dates : Shown(lane', d) => Shown(lane, d)
    BY <2>2 DEF Shown
  <2> QED BY <1>2, <2>1, <2>3 DEF During
<1>13. CASE BillingMoves
  BY <1>2, <1>13 DEF BillingMoves, During
<1>14. CASE MeridianChanges
  <2>1. phase = "waiting" /\ UNCHANGED <<phase, stored, lane>> /\ late \subseteq late'
    BY <1>14 DEF MeridianChanges
  <2>2. meridian'.has \subseteq meridian.has \cup late'
    <3>1. PICK h \in Hours :
            \/ meridian' = [meridian EXCEPT !.has = @ \cup {h}] /\ late' = late \cup {h}
            \/ meridian' = [meridian EXCEPT !.revised = @ \cup {h}] /\ late' = late
            \/ meridian' = [meridian EXCEPT !.has = @ \ {h}, !.revised = @ \ {h}]
                 /\ late' = late
      BY <1>14 DEF MeridianChanges
    <3>2. meridian \in MeridianRecord BY <1>1 DEF StateOK
    <3> QED BY <3>1, <3>2 DEF MeridianRecord
  <2> QED BY <1>2, <2>1, <2>2 DEF During
<1>15. CASE UNCHANGED vars
  BY <1>2, <1>15 DEF vars, history
<1> QED
  BY <1>4, <1>5, <1>6, <1>7, <1>8, <1>9, <1>10, <1>11, <1>12, <1>13, <1>14, <1>15
     DEF Next

\* The dates just before a start shown are refused or empty, and before every
\* stored hour's.
LEMMA ShownBefore ==
  ASSUME NEW refused \in Int \cup {None}, NEW empty, NEW oldest \in Int \cup {None},
         EmptyDays >= 2,
         NEW start, start = StartShown(refused, empty, oldest), start # None
  PROVE  /\ start \in Int
         /\ \A d \in {start - 1, start - 2} :
              /\ oldest = None \/ d < oldest
              /\ d \in empty \/ (refused # None /\ d <= refused)
<1>1. None \notin Int /\ EmptyDays \in Nat
  BY LaneAssumption
<1>2. CASE refused # None /\ (oldest = None \/ refused < oldest)
  <2>1. start = refused + 1 /\ refused \in Int
    BY <1>2 DEF StartShown
  <2> QED BY <2>1, <1>1, <1>2
<1>3. CASE ~ (refused # None /\ (oldest = None \/ refused < oldest))
  <2>1. /\ start = oldest /\ oldest # None
        /\ \A k \in 1 .. EmptyDays : oldest - k \in empty
    BY <1>3 DEF StartShown
  <2>2. oldest \in Int /\ 1 \in 1 .. EmptyDays /\ 2 \in 1 .. EmptyDays
    BY <2>1, <1>1
  <2> QED BY <2>1, <2>2
<1> QED BY <1>2, <1>3

\* A lane that takes its history to start after its target's first dates was
\* shown so, as long as Meridian answers for the dates it is asked for: it had no
\* reading on the two dates before, when a start takes two empty ones or more.
THEOREM LaneStartShown ==
  ASSUME EmptyDays >= 2
  PROVE  Spec /\ []Honest => []StartIsShown
<1>1. Init => IsOver /\ FetchedIsStored /\ RowsWhole /\ NoneShown
  <2> SUFFICES ASSUME Init PROVE IsOver /\ FetchedIsStored /\ RowsWhole /\ NoneShown
    OBVIOUS
  <2>1. IsOver BY DEF Init, IsOver
  <2>2. FetchedIsStored /\ RowsWhole BY DEF Init, NewLane, FetchedIsStored, RowsWhole
  <2>3. NoneShown BY DEF Init, NewLane, NoneShown, Shown
  <2> QED BY <2>1, <2>2, <2>3
<1>2. /\ IInv /\ Honest /\ IsOver /\ FetchedIsStored /\ RowsWhole /\ NoneShown /\ [Next]_vars
      => IsOver' /\ FetchedIsStored' /\ RowsWhole' /\ NoneShown'
  BY OverKeeps, WholeKeeps, ShownKeeps
<1>3. IInv /\ NoneShown => StartIsShown
  <2> SUFFICES ASSUME IInv, NoneShown, phase = "settled",
                      NEW oldest, oldest = OldestDay(run.energy),
                      NEW start, start = KnownStart(lane, oldest), start # None,
                      start > run.target + 1, NEW d \in {start - 1, start - 2},
                      NEW h \in HoursOf(d), h \in meridian.has, h \notin late
               PROVE  FALSE
    BY DEF StartIsShown
  <2>1. /\ lane \in LaneRecord /\ run.energy \in SUBSET Hours /\ run.target \in Dates
        /\ run.target \in Int
    BY DatesAre DEF IInv, StateOK, RunRecord
  <2>2. /\ oldest \in Int \cup {None} /\ (oldest = None <=> run.energy = {})
        /\ \A g \in run.energy : DayOf(g) \in Int /\ oldest <= DayOf(g)
    <3>1. PICK S \in SUBSET Hours : S = run.energy BY <2>1
    <3> QED BY <3>1, OldestIs
  <2>3. PICK refused, empty :
          /\ start = StartShown(refused, empty, oldest)
          /\ refused \in {lane.refusedThrough, lane.knownRefused}
          /\ empty \subseteq lane.empty \cup lane.knownEmpty
    <3>1. CASE HistoryStart(lane, oldest) # None
      <4>1. start = StartShown(lane.refusedThrough, lane.empty, oldest)
        BY <3>1 DEF KnownStart, HistoryStart
      <4> QED BY <4>1
    <3>2. CASE HistoryStart(lane, oldest) = None
      <4>1. PICK refused : refused = IF lane.refusedThrough # None THEN lane.refusedThrough
                                     ELSE lane.knownRefused
        OBVIOUS
      <4>2. PICK empty : empty = lane.empty \cup lane.knownEmpty
        OBVIOUS
      <4>3. start = StartShown(refused, empty, oldest)
        BY <3>2, <4>1, <4>2 DEF KnownStart
      <4> QED BY <4>1, <4>2, <4>3
    <3> QED BY <3>1, <3>2
  <2>4. refused \in Dates \cup {None} /\ empty \subseteq Dates
    BY <2>1, <2>3, LaneIs
  <2>5. refused \in Int \cup {None}
    BY <2>4, DatesAre
  <2>6. /\ start \in Int /\ (oldest = None \/ d < oldest)
        /\ d \in empty \/ (refused # None /\ d <= refused)
    <3>1. oldest \in Int \cup {None} BY <2>2
    <3>2. PICK high \in Int \cup {None} : high = oldest BY <3>1
    <3>3. PICK low \in Int \cup {None} : low = refused BY <2>5
    <3>4. start = StartShown(low, empty, high) BY <2>3, <3>2, <3>3
    <3>5. /\ start \in Int
          /\ \A e \in {start - 1, start - 2} :
               /\ high = None \/ e < high
               /\ e \in empty \/ (low # None /\ e <= low)
      BY <3>4, ShownBefore
    <3> QED BY <3>2, <3>3, <3>5
  <2>7. d \in Int /\ run.target <= d
    BY <2>1, <2>6
  <2>8. d \in Dates
    <3>1. CASE d \in empty BY <3>1, <2>4
    <3>2. CASE refused # None /\ d <= refused
      <4>1. refused \in 0 .. LastToday /\ run.target \in 0 .. LastToday /\ LastToday \in Int
        BY <3>2, <2>1, <2>4, LaneAssumption DEF Dates
      <4> QED BY <4>1, <3>2, <2>7 DEF Dates
    <3> QED BY <3>1, <3>2, <2>6
  <2>9. Shown(lane, d)
    BY <2>3, <2>6 DEF Shown
  <2>10. Seen(h)
    BY <2>8, <2>9 DEF NoneShown
  <2>11. h \in Int /\ DayOf(h) = d
    BY <2>8, HoursOfIs
  <2>12. h >= Midnight(run.target)
    BY <2>1, <2>7, <2>11, DayIs
  <2>13. h \in run.energy
    BY <2>10, <2>12 DEF Seen, During
  <2>14. oldest # None /\ oldest <= d
    BY <2>2, <2>11, <2>13
  <2> QED BY <2>2, <2>6, <2>7, <2>14
<1> QED BY <1>1, <1>2, <1>3, Invariance, PTL DEF Spec
===============================================================================
