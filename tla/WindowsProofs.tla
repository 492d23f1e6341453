----------------------------- MODULE WindowsProofs -----------------------------
(***************************************************************************)
(* Lemmas about dates, windows and what of a window is imported, for every *)
(* length of a day and of a window.                                        *)
(***************************************************************************)
EXTENDS Windows, WellFoundedInduction, TLAPS

-------------------------------------------------------------------------------
(***************************************************************************)
(* The least and the greatest of a set.                                    *)
(***************************************************************************)
\* A nonempty set of natural numbers has a least one.
LEMMA LeastOfNats ==
  ASSUME NEW T \in SUBSET Nat, T # {}
  PROVE  \E x \in T : \A y \in T : x <= y
<1> DEFINE R == OpToRel(<, Nat)
<1>1. IsWellFoundedOn(R, Nat)
  BY NatLessThanWellFounded
<1> HIDE DEF R
<1>2. PICK x \in T : \A y \in T : ~ (<<y, x>> \in R)
  BY <1>1, WFMin
<1>3. \A y \in T : ~ (y < x)
  BY <1>2 DEF R, OpToRel
<1> QED BY <1>3

\* The least of a set of integers with none below a bound.
LEMMA LeastIs ==
  ASSUME NEW S \in SUBSET Int, S # {}, NEW low \in Int, \A s \in S : low <= s
  PROVE  Least(S) \in S /\ \A t \in S : Least(S) <= t
<1> DEFINE T == {s - low : s \in S}
<1>1. T \in SUBSET Nat
  BY \A s \in S : s - low \in Nat
<1>0. T # {}
  BY S # {}
<1>2. PICK x \in T : \A y \in T : x <= y
  BY <1>0, <1>1, LeastOfNats
<1>3. PICK s \in S : x = s - low
  OBVIOUS
<1>4. \A t \in S : s <= t
  <2> TAKE t \in S
  <2>1. t - low \in T OBVIOUS
  <2>2. s - low <= t - low BY <1>2, <1>3, <2>1
  <2> QED BY <2>2
<1> QED BY <1>4 DEF Least

\* The greatest of a set of integers with none above a bound.
LEMMA GreatestIs ==
  ASSUME NEW S \in SUBSET Int, S # {}, NEW high \in Int, \A s \in S : s <= high
  PROVE  Greatest(S) \in S /\ \A t \in S : t <= Greatest(S)
<1> DEFINE T == {high - s : s \in S}
<1>1. T \in SUBSET Nat
  BY \A s \in S : high - s \in Nat
<1>0. T # {}
  BY S # {}
<1>2. PICK x \in T : \A y \in T : x <= y
  BY <1>0, <1>1, LeastOfNats
<1>3. PICK s \in S : x = high - s
  OBVIOUS
<1>4. \A t \in S : t <= s
  <2> TAKE t \in S
  <2>1. high - t \in T OBVIOUS
  <2>2. high - s <= high - t BY <1>2, <1>3, <2>1
  <2> QED BY <2>2
<1> QED BY <1>4 DEF Greatest

-------------------------------------------------------------------------------
(***************************************************************************)
(* Hours and dates.                                                        *)
(***************************************************************************)
\* The date of an hour is the one whose hours hold it.
LEMMA DayIs ==
  ASSUME NEW h \in Int, NEW d \in Int
  PROVE  /\ DayOf(h) \in Int
         /\ Midnight(d) \in Int /\ Midnight(d + 1) = Midnight(d) + HoursPerDay
         /\ DayOf(h) = d <=> Midnight(d) <= h /\ h < Midnight(d + 1)
         /\ d <= DayOf(h) <=> Midnight(d) <= h
         /\ DayOf(h) < d <=> h < Midnight(d)
<1> DEFINE H == HoursPerDay
<1>0. H \in Nat /\ H > 0 BY WindowsAssumption
<1>1. DayOf(h) \in Int BY <1>0 DEF DayOf
<1>2. Midnight(d) \in Int /\ Midnight(d + 1) = Midnight(d) + H
  BY <1>0 DEF Midnight
<1>3. h = H * (h \div H) + (h % H) /\ h % H \in 0 .. H - 1
  BY <1>0
<1>4. Midnight(DayOf(h)) <= h /\ h < Midnight(DayOf(h)) + H
  BY <1>0, <1>3 DEF Midnight, DayOf
<1> QED BY <1>0, <1>1, <1>2, <1>4 DEF Midnight

\* An hour that is not before the first date's midnight is of no date before it.
LEMMA DayOfNat ==
  ASSUME NEW h \in Nat
  PROVE  DayOf(h) \in Nat
<1>1. Midnight(0) = 0
  BY WindowsAssumption DEF Midnight
<1>2. DayOf(h) \in Int /\ (0 <= DayOf(h) <=> Midnight(0) <= h)
  BY DayIs
<1> QED BY <1>1, <1>2

\* A window's dates, and what Smaller and Larger are, hold for integers.
AWindow == [first : Int, last : Int]

\* The smaller and the larger of two are one of them.
LEMMA Chosen ==
  ASSUME NEW a \in Int, NEW b \in Int
  PROVE  /\ Smaller(a, b) \in Int /\ Smaller(a, b) <= a /\ Smaller(a, b) <= b
         /\ Smaller(a, b) \in {a, b}
         /\ Larger(a, b) \in Int /\ a <= Larger(a, b) /\ b <= Larger(a, b)
         /\ Larger(a, b) \in {a, b}
BY DEF Smaller, Larger

\* Division leaves less than the divisor.
LEMMA Quotient ==
  ASSUME NEW a \in Int, NEW b \in Int, b > 0
  PROVE  /\ a \div b \in Int /\ (a \div b) * b \in Int
         /\ (a \div b) * b <= a /\ a < (a \div b) * b + b
         /\ a >= 0 => a \div b >= 0
         /\ a >= b => a \div b >= 1
<1>1. a = b * (a \div b) + (a % b) /\ a % b \in 0 .. b - 1 /\ a \div b \in Int
  OBVIOUS
<1>2. (a \div b) * b = b * (a \div b) /\ (a \div b) * b \in Int
  BY <1>1
<1>3. a >= 0 => a \div b >= 0
  OBVIOUS
<1>4. a >= b => a \div b >= 1
  OBVIOUS
<1> QED BY <1>1, <1>2, <1>3, <1>4

\* The dates of k windows.
Reach(k) == k * WindowDays

\* Each window adds its dates.
LEMMA ReachStep ==
  ASSUME NEW k \in Int
  PROVE  /\ Reach(k) \in Int /\ Reach(k - 1) \in Int
         /\ Reach(k - 1) = Reach(k) - WindowDays
<1>1. WindowDays \in Nat
  BY WindowsAssumption
<1> QED BY <1>1 DEF Reach

\* More windows have more dates.
LEMMA ReachGrows ==
  ASSUME NEW j \in Int, NEW k \in Int, j <= k
  PROVE  Reach(j) <= Reach(k)
<1>1. WindowDays \in Nat /\ WindowDays > 0
  BY WindowsAssumption
<1>2. k - j \in Nat /\ k = j + (k - j)
  OBVIOUS
<1>3. (k - j) * WindowDays >= 0
  BY <1>1, <1>2
<1>4. k * WindowDays = j * WindowDays + (k - j) * WindowDays
  BY <1>1, <1>2
<1>5. j * WindowDays \in Int /\ k * WindowDays \in Int /\ (k - j) * WindowDays \in Int
  BY <1>1
<1> QED
  BY <1>3, <1>4, <1>5 DEF Reach

\* The windows planned cover each date from the cutoff's to today once, newest
\* first, and none is longer than a window.
LEMMA PlanCovers ==
  ASSUME NEW since \in Int, NEW today \in Int,
         NEW ws, ws = PlanWindows(since, today),
         NEW first, first = OldestAsked(since, today)
  PROVE  \E n \in Nat \ {0} :
           /\ first \in Int /\ first <= today
           /\ ws = [k \in 1 .. n |-> ws[k]]
           /\ \A k \in 1 .. n :
                /\ ws[k] \in AWindow /\ ws[k].first <= ws[k].last
                /\ first <= ws[k].first
                /\ ws[k].last - ws[k].first < WindowDays
                /\ ws[k].last = IF k = 1 THEN today ELSE ws[k - 1].first - 1
                /\ \A j \in 1 .. k - 1 : ws[k].last < ws[j].first
                /\ k # n => ws[k].last - ws[k].first = WindowDays - 1
           /\ ws[n].first = first
<1> DEFINE q == (today - first) \div WindowDays
           D == WindowDays
<1>1. D \in Nat /\ D > 0
  BY WindowsAssumption
<1>2. first \in Int /\ first <= today
  BY DayIs, Chosen DEF OldestAsked
<1>3. q \in Nat /\ Reach(q) <= today - first /\ today - first < Reach(q) + D
  <2> DEFINE a == today - first
  <2>1. a \in Int /\ a >= 0 BY <1>2
  <2>2. /\ a \div D \in Int /\ a \div D >= 0
        /\ (a \div D) * D <= a /\ a < (a \div D) * D + D
    <3> HIDE DEF a
    <3> QED BY <2>1, <1>1, Quotient
  <2> QED BY <2>2 DEF Reach
<1> HIDE DEF q
<1>4. /\ ws = [k \in 1 .. q + 1 |-> PlannedWindow(first, today, k)]
      /\ \A k \in 1 .. q + 1 :
           ws[k] = [first |-> Larger(first, today - Reach(k) + 1), last |-> today - Reach(k - 1)]
  BY DEF PlanWindows, PlannedWindow, Window, Reach, q
<1>5. ASSUME NEW k \in 1 .. q + 1
      PROVE  /\ Reach(k) \in Int /\ Reach(k - 1) = Reach(k) - D
             /\ ws[k].last = today - Reach(k - 1)
             /\ ws[k].first = IF k = q + 1 THEN first ELSE today - Reach(k) + 1
             /\ Reach(k - 1) <= Reach(q) /\ (k < q + 1 => Reach(k) <= Reach(q))
  <2>1. k \in Int /\ q \in Int /\ k - 1 \in Int /\ k - 1 <= q
    BY <1>3
  <2>2. Reach(k) \in Int /\ Reach(k - 1) = Reach(k) - D
    BY <2>1, ReachStep
  <2>3. Reach(k - 1) <= Reach(q) /\ Reach(q) \in Int
    BY <2>1, ReachGrows, ReachStep
  <2>4. k < q + 1 => Reach(k) <= Reach(q)
    BY <2>1, ReachGrows
  <2>5. ws[k].first = Larger(first, today - Reach(k) + 1) /\ ws[k].last = today - Reach(k - 1)
    BY <1>4
  <2>6. CASE k = q + 1
    <3>1. Reach(k) = Reach(q) + D BY <2>6, <2>1, <2>2, <1>1
    <3>2. today - Reach(k) + 1 <= first BY <3>1, <1>1, <1>2, <1>3, <2>3
    <3> QED BY <2>2, <2>3, <2>4, <2>5, <2>6, <3>1, <3>2, <1>2 DEF Larger
  <2>7. CASE k # q + 1
    <3>1. Reach(k) <= Reach(q) BY <2>1, <2>4, <2>7
    <3>2. first < today - Reach(k) + 1 BY <3>1, <1>1, <1>2, <1>3, <2>2, <2>3
    <3> QED BY <2>2, <2>3, <2>4, <2>5, <2>7, <3>1, <3>2, <1>2 DEF Larger
  <2> QED BY <2>6, <2>7
<1>6. ASSUME NEW k \in 1 .. q + 1
      PROVE  /\ ws[k] \in AWindow /\ ws[k].first <= ws[k].last /\ first <= ws[k].first
             /\ ws[k].last - ws[k].first < D
             /\ ws[k].last = IF k = 1 THEN today ELSE ws[k - 1].first - 1
  <2>1. k \in Int /\ q \in Int /\ Reach(q) \in Int
    BY <1>1, <1>3, ReachStep
  <2>2. ws[k] = [first |-> ws[k].first, last |-> ws[k].last]
    BY <1>4
  <2>3. ws[k].first \in Int /\ ws[k].last \in Int
    BY <1>1, <1>2, <1>5
  <2>4. ws[k] \in AWindow
    BY <2>2, <2>3 DEF AWindow
  <2>6. ws[k].first <= ws[k].last /\ first <= ws[k].first /\ ws[k].last - ws[k].first < D
    <3>1. CASE k = q + 1
      <4>1. Reach(k - 1) = Reach(q) BY <2>1, <3>1
      <4> QED BY <4>1, <2>1, <2>3, <3>1, <1>1, <1>2, <1>3, <1>5
    <3>2. CASE k # q + 1
      BY <2>1, <2>3, <3>2, <1>1, <1>2, <1>3, <1>5
    <3> QED BY <3>1, <3>2
  <2>7. CASE k = 1
    <3>1. Reach(k - 1) = 0 BY <2>7, <1>1 DEF Reach
    <3> QED BY <3>1, <2>4, <2>6, <2>7, <1>5
  <2>8. CASE k # 1
    <3>1. k - 1 \in 1 .. q + 1 /\ k - 1 # q + 1 BY <2>1, <2>8
    <3>2. ws[k - 1].first = today - Reach(k - 1) + 1 BY <3>1, <1>5
    <3> QED BY <3>2, <2>4, <2>6, <2>8, <1>5, <1>1
  <2> QED BY <2>7, <2>8
<1>10. ASSUME NEW k \in 1 .. q + 1, NEW j \in 1 .. k - 1
       PROVE  ws[k].last < ws[j].first
  <2>1. k \in Int /\ j \in Int /\ q \in Int /\ j \in 1 .. q + 1 /\ j # q + 1 /\ j <= k - 1
    BY <1>3
  <2>2. PICK i \in Int : i = k - 1
    BY <2>1
  <2>3. Reach(j) \in Int /\ Reach(i) \in Int
    BY <2>1, ReachStep
  <2>4. Reach(j) <= Reach(i)
    BY <2>1, <2>2, ReachGrows
  <2>5. ws[k].last = today - Reach(i) /\ ws[j].first = today - Reach(j) + 1
    BY <2>1, <2>2, <1>5
  <2> QED BY <2>3, <2>4, <2>5, <1>1
<1>11. ASSUME NEW k \in 1 .. q + 1, k # q + 1
       PROVE  ws[k].last - ws[k].first = D - 1
  BY <1>1, <1>2, <1>5, <1>11
<1>7. ws[q + 1].first = first
  BY <1>3, <1>5
<1>8. ws = [k \in 1 .. q + 1 |-> ws[k]]
  BY <1>4
<1>9. q + 1 \in Nat \ {0}
  BY <1>3
<1> QED
  BY <1>2, <1>6, <1>7, <1>8, <1>9, <1>10, <1>11

-------------------------------------------------------------------------------
(***************************************************************************)
(* Rows and refusals.                                                      *)
(***************************************************************************)
\* A row newer than every stored hour is imported, whatever else is left out.
LEMMA ImportsNewer ==
  ASSUME NEW fetched \in SUBSET Int, NEW stored \in SUBSET Int,
         NEW high \in Int, \A h \in fetched \cup stored : h <= high,
         NEW new \in fetched, \A h \in stored : h < new
  PROVE  new \in Importable(fetched, stored)
<1>1. new \in AfterHoles(fetched, stored)
  BY DEF AfterHoles, Holes
<1>2. CASE stored = {}
  BY <1>2 DEF Importable
<1>3. CASE stored # {}
  <2>1. PICK left \in SUBSET Int : left = AfterHoles(fetched, stored)
    BY DEF AfterHoles
  <2>2. left # {} /\ \A h \in left : h <= high
    BY <2>1, <1>1 DEF AfterHoles
  <2>3. new <= Greatest(left) /\ Greatest(left) \in Int
    BY <2>1, <2>2, <1>1, GreatestIs
  <2>4. Greatest(stored) \in stored
    BY <1>3, GreatestIs
  <2>5. Greatest(stored) \in Int /\ Greatest(stored) < new /\ new \in Int
    BY <2>4
  <2>6. ~ (Greatest(stored) > Greatest(AfterHoles(fetched, stored)))
    BY <2>1, <2>3, <2>5
  <2>7. ~ TailNotReturned(fetched, stored)
    BY <2>6 DEF TailNotReturned
  <2> QED BY <2>7, <1>1, <1>3 DEF Importable
<1> QED BY <1>2, <1>3

\* What is imported is of the rows that came back.
LEMMA ImportsFetched ==
  ASSUME NEW fetched, NEW stored
  PROVE  Importable(fetched, stored) \subseteq fetched
BY DEF Importable, AfterHoles

\* A refused window shows a start within it: a date refused, or its newest one
\* when nothing came back for it though newer readings did.
LEMMA StartIn ==
  ASSUME NEW w \in AWindow, w.first <= w.last, NEW oldest, NEW newer, NEW precedes,
         NEW readings, NEW refusing, w.first \in refusing,
         NEW start, start = StartAfter(w, oldest, newer, precedes, readings, refusing),
         start \notin {AllCame, RefusalFails}
  PROVE  /\ start \in Int /\ w.first <= start /\ start <= w.last
         /\ start \in refusing \/ (newer /\ start = w.last /\ w.last \notin readings)
<1>1. w.first \in Int /\ w.last \in Int
  BY DEF AWindow
<1>2. PICK refused : refused = WindowDates(w) \cap refusing /\ refused \subseteq Int
  <2>1. WindowDates(w) \subseteq Int BY <1>1 DEF WindowDates
  <2> QED BY <2>1
<1>3. w.first \in refused /\ \A d \in refused : d <= w.last
  BY <1>1, <1>2 DEF WindowDates
<1>4. Greatest(refused) \in refused
  BY <1>1, <1>3, GreatestIs
<1>5. Greatest(refused) \in refusing /\ w.first <= Greatest(refused)
      /\ Greatest(refused) <= w.last /\ Greatest(refused) \in Int
  BY <1>1, <1>2, <1>4 DEF WindowDates
<1>6. CASE w.first = w.last
  BY <1>1, <1>6 DEF StartAfter
<1>7. CASE w.first # w.last
  BY <1>1, <1>2, <1>3, <1>5, <1>7 DEF StartAfter
<1> QED BY <1>6, <1>7

\* Dates of a refused window are kept, each a date of it.
LEMMA KeptIn ==
  ASSUME NEW w, NEW start
  PROVE  /\ KeptDates(w, start) \subseteq WindowDates(w)
         /\ start \notin {AllCame, RefusalFails} =>
              KeptDates(w, start) = {d \in WindowDates(w) : start < d}
BY WindowsAssumption DEF KeptDates
===============================================================================
