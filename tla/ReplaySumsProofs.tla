--------------------------- MODULE ReplaySumsProofs ---------------------------
(***************************************************************************)
(* Proofs about the rows and running sums of StatisticsReplay, for every   *)
(* number of writers and of hours, every table and every offer: that the   *)
(* variables keep their types; and that, where the recorder runs every     *)
(* import, where it was queued, and no user changes a running sum, a       *)
(* confirmed replay has stored its rows and left no seam in or after them, *)
(* a seam anywhere is one that the caller knows of, and steps past the     *)
(* first row after a replay's span are kept.                               *)
(*                                                                         *)
(* What a running sum is at an hour depends on all hours before it.  The   *)
(* induction over them is one over the least element of a set of hours,    *)
(* which holds because the order of the naturals is well founded.          *)
(***************************************************************************)
EXTENDS StatisticsReplayProofs, WellFoundedInduction

-------------------------------------------------------------------------------
(***************************************************************************)
(* Least elements, and what follows from them: the newest and the oldest   *)
(* of some hours, and induction over the hours.                            *)
(***************************************************************************)

\* The order of the naturals, as a set of pairs, is well founded.
LEMMA LessIsWellFounded ==
  \E R : IsWellFoundedOn(R, Nat) /\ \A m, n \in Nat : <<m, n>> \in R <=> m < n
<1> DEFINE R == {ss \in Nat \X Nat : ss[1] < ss[2]}
<1>1. R = OpToRel(<, Nat)
  BY Zenon DEF OpToRel
<1>2. IsWellFoundedOn(R, Nat)
  BY <1>1, NatLessThanWellFounded, Zenon
<1>3. \A m, n \in Nat : <<m, n>> \in R <=> m < n
  OBVIOUS
<1> HIDE DEF R
<1> QED
  BY <1>2, <1>3

\* A set of naturals that is not empty has a least element.
LEMMA LeastNatural ==
  ASSUME NEW S, S \subseteq Nat, S # {}
  PROVE  \E n \in S : \A m \in S : n <= m
<1>1. PICK R : IsWellFoundedOn(R, Nat) /\ \A m, n \in Nat : <<m, n>> \in R <=> m < n
  BY LessIsWellFounded
<1>2. IsWellFoundedOn(R, Nat)
  BY <1>1
<1>3. \A m, n \in Nat : <<m, n>> \in R <=> m < n
  BY <1>1
<1>4. \E n \in S : \A m \in S : ~ (<<m, n>> \in R)
  BY <1>2, WFMin
<1>5. PICK n \in S : \A m \in S : ~ (<<m, n>> \in R)
  BY <1>4
<1>6. \A m \in S : n <= m
  <2> TAKE m \in S
  <2>1. m \in Nat /\ n \in Nat
    OBVIOUS
  <2>2. ~ (m < n)
    BY <1>3, <1>5, <2>1
  <2> QED
    BY <2>1, <2>2
<1> QED
  BY <1>6

\* Induction up to a bound, over a set of naturals.
LEMMA BoundedInduction ==
  ASSUME NEW n \in Nat, NEW S, 0 \in S,
         \A i \in 0 .. n : i < n /\ i \in S => i + 1 \in S
  PROVE  \A i \in 0 .. n : i \in S
<1> SUFFICES ASSUME NEW j \in 0 .. n, j \notin S PROVE FALSE
  OBVIOUS
<1> DEFINE T == {i \in 0 .. n : i \notin S}
<1>1. T \subseteq Nat /\ T # {}
  OBVIOUS
<1>2. PICK k \in T : \A m \in T : k <= m
  <2> HIDE DEF T
  <2> QED
    BY <1>1, LeastNatural
<1>3. k \in 0 .. n /\ k \notin S /\ k # 0
  OBVIOUS
<1>4. k - 1 \in 0 .. n /\ k - 1 < n /\ k - 1 \notin T
  BY <1>2, <1>3
<1>5. k - 1 \in S
  BY <1>4
<1> QED
  BY <1>3, <1>4, <1>5

\* Hours are naturals, none after the last.
LEMMA HoursAreNaturals == Hours \subseteq Nat /\ \A h \in Hours : h <= LastHour /\ h \in Int
  BY LastHourAssumption DEF Hours

\* The oldest of some hours.
LEMMA OldestHour ==
  ASSUME NEW S, S \subseteq Hours
  PROVE  /\ S = {} => Oldest(S) = None
         /\ S # {} => Oldest(S) \in S /\ \A h \in S : Oldest(S) <= h
<1>1. CASE S = {}
  BY <1>1 DEF Oldest
<1>2. CASE S # {}
  <2>1. \E h \in S : \A g \in S : h <= g
    BY <1>2, HoursAreNaturals, LeastNatural
  <2>2. Oldest(S) = CHOOSE h \in S : \A g \in S : h <= g
    BY <1>2 DEF Oldest
  <2> QED
    BY <1>2, <2>1, <2>2
<1> QED
  BY <1>1, <1>2

\* The newest of some hours: the oldest, counted back from the last hour.
LEMMA NewestHour ==
  ASSUME NEW S, S \subseteq Hours
  PROVE  /\ S = {} => Newest(S) = None
         /\ S # {} => Newest(S) \in S /\ \A h \in S : h <= Newest(S)
<1>1. CASE S = {}
  BY <1>1 DEF Newest
<1>2. CASE S # {}
  <2> DEFINE T == {n \in Nat : LastHour - n \in S}
  <2>1. T \subseteq Nat
    OBVIOUS
  <2>2. \A h \in S : LastHour - h \in T
    BY HoursAreNaturals, LastHourAssumption
  <2>3. T # {}
    BY <1>2, <2>2
  <2>4. \E n \in T : \A m \in T : n <= m
    <3> HIDE DEF T
    <3> QED
      BY <2>1, <2>3, LeastNatural
  <2>5. PICK n \in T : \A m \in T : n <= m
    BY <2>4
  <2>6. LastHour - n \in S /\ \A h \in S : h <= LastHour - n
    BY <2>2, <2>5, HoursAreNaturals, LastHourAssumption
  <2>7. \E h \in S : \A g \in S : g <= h
    BY <2>6
  <2>8. Newest(S) = CHOOSE h \in S : \A g \in S : g <= h
    BY <1>2 DEF Newest
  <2> QED
    BY <1>2, <2>7, <2>8
<1> QED
  BY <1>1, <1>2

\* The newest of some hours is the one that none is newer than.
LEMMA NewestIs ==
  ASSUME NEW S, S \subseteq Hours, NEW h \in S, \A g \in S : g <= h
  PROVE  Newest(S) = h
<1>1. Newest(S) \in S /\ h <= Newest(S) /\ Newest(S) <= h
  BY NewestHour
<1>2. Newest(S) \in Int /\ h \in Int
  BY <1>1, HoursAreNaturals
<1> QED
  BY <1>1, <1>2

-------------------------------------------------------------------------------
(***************************************************************************)
(* The running sums a replay builds.                                       *)
(***************************************************************************)
States == [Hours -> Int \cup {None}]

\* What an hour adds to a running sum, and the running sum up to an hour.
Adds(states, h) == IF states[h] = None THEN 0 ELSE states[h]

\* What the running sum at an hour adds that hour to.
UpTo(states, base, h) == IF h = 0 THEN base ELSE RunningSums(states, base)[h - 1]

\* What an hour adds is a number.
LEMMA AddsIsNumber ==
  ASSUME NEW states \in States, NEW h \in Hours
  PROVE  Adds(states, h) \in Int
  BY DEF States, Adds

\* There are running sums up to every hour.
LEMMA SumsUpTo ==
  ASSUME NEW states \in States, NEW base \in Int
  PROVE  \A n \in 0 .. LastHour : \E g \in [0 .. n -> Int] :
           \A h \in 0 .. n : g[h] = (IF h = 0 THEN base ELSE g[h - 1]) + Adds(states, h)
<1> DEFINE Sum(g, n) == \A h \in 0 .. n :
              g[h] = (IF h = 0 THEN base ELSE g[h - 1]) + Adds(states, h)
           S == {n \in Nat : \E g \in [0 .. n -> Int] : Sum(g, n)}
<1>1. \A h \in Hours : Adds(states, h) \in Int
  BY AddsIsNumber
<1>2. 0 \in S
  <2> DEFINE f == [h \in 0 .. 0 |-> base + Adds(states, 0)]
  <2>1. 0 \in Hours
    BY LastHourAssumption DEF Hours
  <2>2. f \in [0 .. 0 -> Int] /\ Sum(f, 0)
    BY <1>1, <2>1
  <2> QED
    BY <2>2
<1>3. ASSUME NEW n \in 0 .. LastHour, n < LastHour, n \in S
      PROVE  n + 1 \in S
  <2>1. PICK g \in [0 .. n -> Int] : Sum(g, n)
    BY <1>3
  <2> DEFINE f == [h \in 0 .. (n + 1) |->
                     IF h = n + 1 THEN g[n] + Adds(states, n + 1) ELSE g[h]]
  <2>2. n + 1 \in Hours /\ n \in Nat /\ n + 1 # 0 /\ n + 1 \in Nat
    BY <1>3, LastHourAssumption DEF Hours
  <2>3. f \in [0 .. (n + 1) -> Int]
    BY <1>1, <2>2
  <2>4. ASSUME NEW h \in 0 .. (n + 1)
        PROVE  f[h] = (IF h = 0 THEN base ELSE f[h - 1]) + Adds(states, h)
    <3>1. CASE h = n + 1
      BY <2>2, <3>1
    <3>2. CASE h # n + 1
      <4>1. h \in 0 .. n /\ (h # 0 => h - 1 \in 0 .. n /\ h - 1 # n + 1)
        BY <2>2, <3>2
      <4> QED
        BY <2>1, <2>2, <3>2, <4>1
    <3> QED
      BY <3>1, <3>2
  <2> QED
    BY <2>2, <2>3, <2>4
<1>4. \A n \in 0 .. LastHour : n \in S
  <2> HIDE DEF S
  <2> QED
    BY <1>2, <1>3, BoundedInduction, LastHourAssumption
<1> QED
  BY <1>4

\* The running sums are what their recursive definition says, and numbers.
LEMMA RunningSumsAre ==
  ASSUME NEW states \in States, NEW base \in Int
  PROVE  /\ RunningSums(states, base) \in [Hours -> Int]
         /\ \A h \in Hours : /\ UpTo(states, base, h) \in Int
                             /\ RunningSums(states, base)[h] =
                                  UpTo(states, base, h) + Adds(states, h)
<1>1. \E g \in [0 .. LastHour -> Int] : \A h \in 0 .. LastHour :
        g[h] = (IF h = 0 THEN base ELSE g[h - 1]) + Adds(states, h)
  <2>1. LastHour \in 0 .. LastHour
    BY LastHourAssumption
  <2> QED
    BY <2>1, SumsUpTo
<1>2. PICK g \in [0 .. LastHour -> Int] : \A h \in 0 .. LastHour :
        g[h] = (IF h = 0 THEN base ELSE g[h - 1]) + Adds(states, h)
  BY <1>1
<1>3. g = [h \in Hours |-> (IF h = 0 THEN base ELSE g[h - 1])
                           + (IF states[h] = None THEN 0 ELSE states[h])]
  BY <1>2 DEF Hours, Adds
<1>4. RunningSums(states, base)
        = [h \in Hours |-> (IF h = 0 THEN base ELSE RunningSums(states, base)[h - 1])
                           + (IF states[h] = None THEN 0 ELSE states[h])]
  BY <1>3, Zenon DEF RunningSums
<1>5. PICK sums : sums = RunningSums(states, base)
  OBVIOUS
<1>6. /\ DOMAIN sums = Hours
      /\ \A h \in Hours : sums[h] = (IF h = 0 THEN base ELSE sums[h - 1]) + Adds(states, h)
  BY <1>4, <1>5 DEF Adds
<1> DEFINE S == {h \in Nat : h \in Hours => sums[h] \in Int}
<1>7. \A h \in Hours : Adds(states, h) \in Int
  BY AddsIsNumber
<1>8. 0 \in S
  BY <1>6, <1>7 DEF Hours
<1>9. ASSUME NEW h \in 0 .. LastHour, h < LastHour, h \in S
      PROVE  h + 1 \in S
  <2>1. h \in Hours /\ h + 1 \in Hours /\ h + 1 # 0 /\ h \in Nat
    BY <1>9, LastHourAssumption DEF Hours
  <2>2. sums[h + 1] = sums[h] + Adds(states, h + 1)
    BY <1>6, <2>1
  <2> QED
    BY <1>7, <1>9, <2>1, <2>2
<1>10. \A h \in Hours : sums[h] \in Int
  <2>1. \A h \in 0 .. LastHour : h \in S
    <3> HIDE DEF S
    <3> QED
      BY <1>8, <1>9, BoundedInduction, LastHourAssumption
  <2> QED
    BY <2>1, HoursAreNaturals DEF Hours
<1>11. \A h \in Hours : h # 0 => h - 1 \in Hours
  BY LastHourAssumption DEF Hours
<1>12. \A h \in Hours : UpTo(states, base, h) = IF h = 0 THEN base ELSE sums[h - 1]
  BY <1>5 DEF UpTo
<1>13. sums \in [Hours -> Int]
  BY <1>5, <1>4, <1>10
<1>14. \A h \in Hours : UpTo(states, base, h) \in Int
  BY <1>10, <1>11, <1>12
<1>15. \A h \in Hours : sums[h] = UpTo(states, base, h) + Adds(states, h)
  BY <1>6, <1>12
<1> QED
  BY <1>5, <1>13, <1>14, <1>15

\* Over hours without a state, a running sum stays as it is.
LEMMA SumsStay ==
  ASSUME NEW states \in States, NEW base \in Int,
         NEW h \in Hours, NEW k \in Hours, h <= k,
         \A g \in Hours : h <= g /\ g < k => states[g] = None
  PROVE  UpTo(states, base, k) = UpTo(states, base, h)
<1> DEFINE S == {i \in Nat : UpTo(states, base, h + i) = UpTo(states, base, h)}
<1>1. h \in Nat /\ k \in Nat /\ k - h \in Nat /\ k <= LastHour
  BY HoursAreNaturals
<1>2. 0 \in S
  BY <1>1
<1>3. ASSUME NEW i \in 0 .. (k - h), i < k - h, i \in S
      PROVE  i + 1 \in S
  <2>1. h + i \in Hours /\ h <= h + i /\ h + i < k /\ h + (i + 1) # 0
          /\ (h + (i + 1)) - 1 = h + i
    BY <1>1, <1>3, LastHourAssumption DEF Hours
  <2>2. Adds(states, h + i) = 0
    BY <2>1 DEF Adds
  <2>3. UpTo(states, base, h + (i + 1)) = RunningSums(states, base)[h + i]
    BY <2>1 DEF UpTo
  <2>4. RunningSums(states, base)[h + i] = UpTo(states, base, h + i) + 0
          /\ UpTo(states, base, h + i) \in Int
    BY <2>1, <2>2, RunningSumsAre
  <2> QED
    BY <1>3, <2>3, <2>4
<1>4. k - h \in S
  <2> HIDE DEF S
  <2> QED
    BY <1>1, <1>2, <1>3, BoundedInduction
<1> QED
  BY <1>1, <1>4

\* A running sum follows on from that of the newest hour before it with a state,
\* or, without one, from what the sums start from (_build_rows).
LEMMA SumsFollowOn ==
  ASSUME NEW states \in States, NEW base \in Int,
         NEW k \in Hours, states[k] # None,
         NEW earlier, earlier = Newest({g \in Hours : states[g] # None /\ g < k})
  PROVE  /\ RunningSums(states, base)[k] \in Int
         /\ RunningSums(states, base)[k] = states[k] +
              (IF earlier = None THEN base ELSE RunningSums(states, base)[earlier])
<1> DEFINE S == {g \in Hours : states[g] # None /\ g < k}
           sums == RunningSums(states, base)
<1>1. sums[k] = UpTo(states, base, k) + states[k] /\ sums[k] \in Int
        /\ states[k] \in Int /\ UpTo(states, base, k) \in Int
  BY RunningSumsAre DEF Adds, States
<1>2. CASE S = {}
  <2>1. earlier = None
    BY <1>2, NewestHour
  <2>2. 0 \in Hours /\ 0 <= k /\ \A g \in Hours : 0 <= g /\ g < k => states[g] = None
    BY <1>2, HoursAreNaturals, LastHourAssumption DEF Hours
  <2>3. UpTo(states, base, k) = UpTo(states, base, 0)
    BY <2>2, SumsStay
  <2>4. UpTo(states, base, 0) = base
    BY DEF UpTo
  <2> QED
    BY <1>1, <2>1, <2>3, <2>4
<1>3. CASE S # {}
  <2>1. earlier \in S /\ \A g \in S : g <= earlier
    BY <1>3, NewestHour
  <2>2. earlier \in Hours /\ earlier < k /\ earlier \in Nat /\ k \in Nat /\ k <= LastHour
    BY <2>1, HoursAreNaturals
  <2>3. earlier + 1 \in Hours /\ earlier + 1 <= k /\ earlier + 1 # 0
          /\ (earlier + 1) - 1 = earlier
    BY <2>2, LastHourAssumption DEF Hours
  <2>4. \A g \in Hours : earlier + 1 <= g /\ g < k => states[g] = None
    BY <2>1, <2>2, HoursAreNaturals
  <2>5. UpTo(states, base, k) = UpTo(states, base, earlier + 1)
    BY <2>3, <2>4, SumsStay
  <2>6. UpTo(states, base, earlier + 1) = sums[earlier]
    BY <2>3 DEF UpTo
  <2>7. earlier # None
    BY <2>2, NoneAssumption
  <2> QED
    BY <1>1, <2>5, <2>6, <2>7
<1> QED
  BY <1>2, <1>3

-------------------------------------------------------------------------------
(***************************************************************************)
(* What tables, predecessors and built parts are made of.                  *)
(***************************************************************************)
LEMMA TableRows ==
  ASSUME NEW table \in Table
  PROVE  /\ Stored(table) \subseteq Hours /\ Numeric(table) \subseteq Stored(table)
         /\ \A h \in Hours : \/ table[h] = None /\ h \notin Stored(table)
                             \/ /\ table[h] \in Row /\ h \in Stored(table)
                                /\ table[h].state \in Int /\ table[h].sum \in Int \cup {None}
         /\ \A h \in Numeric(table) : h \in Hours /\ table[h] \in Row /\ table[h].sum \in Int
  BY NoneAssumption DEF Table, Row, Stored, Numeric

\* The row before an hour has a running sum, and no newer one before the hour has.
LEMMA RowBefore ==
  ASSUME NEW table \in Table, NEW hour
  PROVE  \/ /\ Before(table, hour) = None
            /\ \A h \in Numeric(table) : ~ (h < hour)
         \/ /\ Before(table, hour) \in Numeric(table) /\ Before(table, hour) # None
            /\ Before(table, hour) < hour
            /\ \A h \in Numeric(table) : h < hour => h <= Before(table, hour)
<1> DEFINE S == {h \in Numeric(table) : h < hour}
<1>1. S \subseteq Hours /\ Before(table, hour) = Newest(S)
  BY TableRows DEF Before
<1>2. \A h \in Hours : h # None
  BY NoneAssumption, HoursAreNaturals
<1> QED
  BY <1>1, <1>2, NewestHour

\* Reading leaves rows out, and changes none.
LEMMA ReadRows ==
  ASSUME NEW table \in Table, NEW from, NEW until
  PROVE  /\ Read(table, from, until) \in Table /\ EmptyTable \in Table
         /\ Numeric(Read(table, from, until))
              = {h \in Numeric(table) : from <= h /\ h < until}
         /\ \A h \in Numeric(Read(table, from, until)) :
              Read(table, from, until)[h] = table[h]
  BY DEF Table, Read, EmptyTable, Numeric, Stored

\* A predecessor is a row before the span, with a running sum.
LEMMA PredecessorIs ==
  ASSUME NEW o, NEW s, NEW rows \in Table
  PROVE  /\ Predecessor(o, s, rows) \in Anchor \cup {None}
         /\ Predecessor(o, s, rows) = None => Before(rows, First(o, s)) = None
         /\ Predecessor(o, s, rows) # None =>
              /\ Before(rows, First(o, s)) # None
              /\ Predecessor(o, s, rows) =
                   [start |-> Before(rows, First(o, s)),
                    sum |-> rows[Before(rows, First(o, s))].sum]
<1>1. CASE Before(rows, First(o, s)) = None
  BY <1>1 DEF Predecessor
<1>2. CASE Before(rows, First(o, s)) # None
  <2>1. Before(rows, First(o, s)) \in Numeric(rows)
    BY <1>2, RowBefore
  <2>2. PICK hour : hour = Before(rows, First(o, s))
    OBVIOUS
  <2>3. hour \in Hours /\ rows[hour].sum \in Int
    BY <2>1, <2>2, TableRows
  <2>4. [start |-> hour, sum |-> rows[hour].sum] \in Anchor
    BY <2>3 DEF Anchor
  <2>5. Predecessor(o, s, rows) = [start |-> hour, sum |-> rows[hour].sum]
    BY <1>2, <2>2 DEF Predecessor
  <2> QED
    BY <1>2, <2>2, <2>4, <2>5, AbsentAssumption
<1> QED
  BY <1>1, <1>2

\* A span starts and ends at hours a replay was given.
LEMMA SpanHours ==
  ASSUME NEW o, NEW s \in Writes(o)
  PROVE  /\ First(o, s) \in Given(o, s) /\ Last(o, s) \in Given(o, s)
         /\ Given(o, s) \subseteq Hours
         /\ First(o, s) \in Hours /\ Last(o, s) \in Hours
         /\ \A h \in Given(o, s) : First(o, s) <= h /\ h <= Last(o, s)
<1>1. Given(o, s) \subseteq Hours /\ Given(o, s) # {}
  BY DEF Given, Writes
<1> QED
  BY <1>1, OldestHour, NewestHour DEF First, Last

\* The states of a span are numbers, those of its given and stored hours.
LEMMA SpanStatesAre ==
  ASSUME NEW o \in Offered, NEW s \in Writes(o), NEW rows \in Table
  PROVE  /\ s \in Stats
         /\ SpanStates(o, s, rows) \in States
         /\ \A h \in Hours : SpanStates(o, s, rows)[h] # None =>
              First(o, s) <= h /\ h <= Last(o, s)
         /\ \A h \in Given(o, s) : SpanStates(o, s, rows)[h] # None
         /\ \A h \in Stored(rows) : First(o, s) <= h /\ h <= Last(o, s) =>
              SpanStates(o, s, rows)[h] # None
<1>1. s \in Stats /\ o[s] \in [Hours -> Int \cup {None}]
  BY DEF Offered, Writes
<1>2. \A h \in Hours : o[s][h] # None <=> h \in Given(o, s)
  BY DEF Given
<1>3. \A h \in Hours : h \in Stored(rows) => rows[h].state \in Int /\ rows[h].state # None
  BY TableRows, NoneAssumption
<1>4. \A h \in Hours : h \in Stored(rows) <=> rows[h] # None
  BY DEF Stored
<1>5. SpanStates(o, s, rows) \in States
  BY <1>1, <1>3, <1>4 DEF SpanStates, States
<1>6. Stored(rows) \subseteq Hours
  BY TableRows
<1> QED
  BY <1>1, <1>2, <1>3, <1>4, <1>5, <1>6, SpanHours DEF SpanStates

\* What a replay builds for a statistic is a part of rows, hours and numbers.
LEMMA BuiltIsPart ==
  ASSUME NEW o \in Offered, NEW s \in Writes(o), NEW rows \in Table,
         NEW before \in Anchor \cup {None}
  PROVE  Built(o, s, rows, before) \in Part
<1> DEFINE states == SpanStates(o, s, rows)
           base == IF before = None THEN 0 ELSE before.sum
           sums == RunningSums(states, base)
           following == Oldest({h \in Numeric(rows) : h > Last(o, s)})
<1>1. states \in States /\ base \in Int /\ Last(o, s) \in Hours
  BY SpanStatesAre, SpanHours DEF Anchor
<1>2. sums \in [Hours -> Int]
  BY <1>1, RunningSumsAre
<1>3. {h \in Numeric(rows) : h > Last(o, s)} \subseteq Hours
  BY TableRows
<1>4. following = None \/ following \in Numeric(rows)
  BY <1>3, OldestHour
<1>5. [h \in Hours |-> IF states[h] = None THEN None
                       ELSE [state |-> states[h], sum |-> sums[h]]] \in Table
  <2> HIDE DEF states, sums
  <2> QED
    BY <1>1, <1>2 DEF States, Table, Row
<1>6. (IF before = None THEN None ELSE before.start) \in Hours \cup {None}
  BY DEF Anchor
<1>7. (IF following = None THEN 0
       ELSE sums[Last(o, s)] + rows[following].state - rows[following].sum) \in Int
  <2> HIDE DEF sums, following
  <2>1. following # None => rows[following].state \in Int /\ rows[following].sum \in Int
    BY <1>4, TableRows DEF Row
  <2> QED
    BY <1>1, <1>2, <2>1
<1>8. following \in Hours \cup {None}
  BY <1>4, TableRows
<1> QED
  BY <1>5, <1>6, <1>7, <1>8 DEF Built, Part

-------------------------------------------------------------------------------
(***************************************************************************)
(* Types.  A queue holds typed tasks, and at most one barrier of a writer, *)
(* which then waits.                                                       *)
(***************************************************************************)
TaskOK(task) ==
  \/ task.op = "import" /\ task.rows \in Table
  \/ task.op \in {"adjust", "user"} /\ task.from \in Int /\ task.delta \in Int
  \/ \E w \in Writers \cup {None} : task = BarrierTask(w)

\* A barrier in a queue is the only one of a writer that waits for it.
Awaited(q, at) ==
  \A w \in Writers, i \in DOMAIN q : q[i] = BarrierTask(w) =>
    /\ at[w] \in Waiting
    /\ \A j \in DOMAIN q : q[j] = BarrierTask(w) => j = i

\* A queue of typed tasks, with barriers that are waited for.
Queued(q, at) ==
  /\ IsSeq(q)
  /\ \A i \in DOMAIN q : TaskOK(q[i])
  /\ Awaited(q, at)

\* No barrier of a writer, and no other writer anywhere else than before.
NoneOf(q, w) == \A i \in DOMAIN q : q[i] # BarrierTask(w)

\* Where no other writer than one is anywhere else than before.
Apart(at, then, w) == \A v \in Writers \ {w} : then[v] = at[v]

\* The values that the variables hold.
Kinds ==
  /\ tables \in [Stats -> Table]
  /\ locks \in [Stats -> Writers \cup {None}]
  /\ unsettled \subseteq Stats
  /\ pc \in [Writers -> Locations]
  /\ offer \in [Writers -> Offers \cup {NoOffer}]
  /\ \A w \in Writers : pc[w] # "idle" => offer[w] \in Offers
  /\ seen \in [Writers -> [Stats -> Table]]
  /\ anchor \in [Writers -> [Stats -> Anchor \cup {None}]]
  /\ plan \in [Writers -> [Stats -> Part \cup {None}]]
  /\ barriers \in [Writers -> 0 .. (SettleBarriers + ConfirmBarriers)]
  /\ headHolds \in [Writers -> BOOLEAN]
  /\ unconfirmed \in [Stats -> SUBSET Hours]

\* A replay has a plan for each statistic it writes while its writes are queued.
PlansHeld ==
  \A w \in Writers, s \in Stats :
    (plan[w][s] # None) <=> (pc[w] \in HasQueued /\ s \in Writes(offer[w]))

\* The inductive type invariant.
Typed == Kinds /\ PlansHeld /\ Queued(queue, pc)

\* A barrier is no write, and the task of one writer alone.
LEMMA BarrierTyped ==
  /\ \A w \in Writers \cup {None} : TaskOK(BarrierTask(w))
  /\ \A w \in Writers : BarrierTask(None) # BarrierTask(w)
  BY BarriersDiffer, NoneIsNoWriter DEF TaskOK

\* A queue without a writer's barriers is as typed wherever that writer is.
LEMMA QueuedApart ==
  ASSUME NEW q, NEW at, NEW then, NEW w, Queued(q, at), NoneOf(q, w), Apart(at, then, w)
  PROVE  Queued(q, then)
  BY DEF Queued, Awaited, NoneOf, Apart

\* Forsaking a writer's barriers leaves none of it, wherever it then is.
LEMMA QueuedForsaken ==
  ASSUME NEW at, NEW then, NEW w \in Writers, Queued(queue, at), Apart(at, then, w)
  PROVE  Queued(Forsaken(w), then) /\ NoneOf(Forsaken(w), w)
<1>1. IsSeq(queue)
  BY DEF Queued
<1>2. /\ IsSeq(Forsaken(w)) /\ DOMAIN Forsaken(w) = DOMAIN queue
      /\ \A i \in DOMAIN queue :
           Forsaken(w)[i] = IF queue[i] = BarrierTask(w) THEN BarrierTask(None) ELSE queue[i]
  BY <1>1, ForsakenTasks
<1>3. NoneOf(Forsaken(w), w)
  BY <1>2, BarrierTyped DEF NoneOf
<1>4. \A i \in DOMAIN queue : TaskOK(Forsaken(w)[i])
  BY <1>2, BarrierTyped DEF Queued
<1>5. ASSUME NEW v \in Writers, NEW i \in DOMAIN queue, Forsaken(w)[i] = BarrierTask(v)
      PROVE  /\ then[v] \in Waiting
             /\ \A j \in DOMAIN queue : Forsaken(w)[j] = BarrierTask(v) => j = i
  <2>1. v # w
    BY <1>2, <1>3, <1>5 DEF NoneOf
  <2>2. queue[i] = BarrierTask(v)
    BY <1>2, <1>5, BarrierTyped
  <2>3. \A j \in DOMAIN queue : Forsaken(w)[j] = BarrierTask(v) => queue[j] = BarrierTask(v)
    BY <1>2, BarrierTyped
  <2> QED
    BY <2>1, <2>2, <2>3 DEF Queued, Awaited, Apart
<1>6. Awaited(Forsaken(w), then)
  BY <1>2, <1>5 DEF Awaited
<1> QED
  BY <1>2, <1>3, <1>4, <1>6 DEF Queued

\* A barrier, or a user's adjustment, is queued last.
LEMMA QueuedAppend ==
  ASSUME NEW q, NEW at, NEW task, Queued(q, at), TaskOK(task),
         \A w \in Writers : task = BarrierTask(w) => at[w] \in Waiting /\ NoneOf(q, w)
  PROVE  Queued(Append(q, task), at)
<1>1. /\ IsSeq(Append(q, task))
      /\ DOMAIN q = 1 .. Len(q) /\ Len(q) \in Nat
      /\ DOMAIN Append(q, task) = 1 .. (Len(q) + 1)
      /\ \A i \in 1 .. Len(q) : Append(q, task)[i] = q[i]
      /\ Append(q, task)[Len(q) + 1] = task
  BY AppendTask DEF Queued
<1> DEFINE r == Append(q, task)
<1>2. \A i \in DOMAIN r : (i \in DOMAIN q /\ r[i] = q[i]) \/ (i = Len(q) + 1 /\ r[i] = task)
  BY <1>1
<1> HIDE DEF r
<1>3. \A i \in DOMAIN r : TaskOK(r[i])
  BY <1>2 DEF Queued
<1>4. ASSUME NEW w \in Writers, NEW i \in DOMAIN r, r[i] = BarrierTask(w)
      PROVE  at[w] \in Waiting /\ \A j \in DOMAIN r : r[j] = BarrierTask(w) => j = i
  BY <1>2, <1>4 DEF Queued, Awaited, NoneOf
<1> QED
  BY <1>1, <1>3, <1>4 DEF Queued, Awaited, r

\* The oldest task is taken off.
LEMMA QueuedTail ==
  ASSUME NEW q, NEW at, Queued(q, at), q # <<>>
  PROVE  /\ Queued(Tail(q), at) /\ TaskOK(Head(q))
         /\ \A w \in Writers : Head(q) = BarrierTask(w) =>
              at[w] \in Waiting /\ NoneOf(Tail(q), w)
<1>1. /\ IsSeq(Tail(q))
      /\ Len(q) \in Nat \ {0} /\ DOMAIN q = 1 .. Len(q)
      /\ Head(q) = q[1]
      /\ DOMAIN Tail(q) = 1 .. (Len(q) - 1)
      /\ \A i \in 1 .. (Len(q) - 1) : Tail(q)[i] = q[i + 1]
  BY TailTasks DEF Queued
<1> DEFINE r == Tail(q)
<1>2. \A i \in DOMAIN r : /\ i \in Nat /\ i + 1 \in DOMAIN q /\ i + 1 # 1 /\ r[i] = q[i + 1]
  BY <1>1
<1>3. 1 \in DOMAIN q
  BY <1>1
<1>4. IsSeq(r) /\ Head(q) = q[1]
  BY <1>1
<1> HIDE DEF r
<1>5. \A i \in DOMAIN r : TaskOK(r[i])
  BY <1>2 DEF Queued
<1>6. ASSUME NEW w \in Writers, NEW i \in DOMAIN r, r[i] = BarrierTask(w)
      PROVE  at[w] \in Waiting /\ \A j \in DOMAIN r : r[j] = BarrierTask(w) => j = i
  <2>1. q[i + 1] = BarrierTask(w) /\ at[w] \in Waiting
    BY <1>2, <1>6 DEF Queued, Awaited
  <2>2. ASSUME NEW j \in DOMAIN r, r[j] = BarrierTask(w)
        PROVE  j = i
    <3>1. j + 1 = i + 1
      BY <1>2, <2>1, <2>2 DEF Queued, Awaited
    <3> QED
      BY <1>2, <3>1
  <2> QED
    BY <2>1, <2>2
<1>7. ASSUME NEW w \in Writers, q[1] = BarrierTask(w)
      PROVE  at[w] \in Waiting /\ NoneOf(r, w)
  BY <1>2, <1>3, <1>7 DEF Queued, Awaited, NoneOf
<1> QED
  BY <1>3, <1>4, <1>5, <1>6, <1>7 DEF Queued, Awaited, r

\* A task of two queues joined is a task of one of them.
LEMMA JoinedTasks ==
  ASSUME NEW q, IsSeq(q), NEW r, IsSeq(r)
  PROVE  /\ IsSeq(q \o r) /\ Len(q) \in Nat
         /\ DOMAIN q = 1 .. Len(q) /\ DOMAIN r = 1 .. Len(r)
         /\ \A i \in DOMAIN (q \o r) : i \in Nat /\
              \/ i \in DOMAIN q /\ (q \o r)[i] = q[i]
              \/ i > Len(q) /\ i - Len(q) \in DOMAIN r /\ (q \o r)[i] = r[i - Len(q)]
         /\ \A i \in DOMAIN q : i \in DOMAIN (q \o r) /\ (q \o r)[i] = q[i]
<1>1. /\ IsSeq(q \o r)
      /\ DOMAIN q = 1 .. Len(q) /\ Len(q) \in Nat
      /\ DOMAIN r = 1 .. Len(r) /\ Len(r) \in Nat
      /\ DOMAIN (q \o r) = 1 .. (Len(q) + Len(r))
      /\ \A i \in 1 .. Len(q) : (q \o r)[i] = q[i]
      /\ \A i \in 1 .. Len(r) : (q \o r)[Len(q) + i] = r[i]
  BY ConcatTasks
<1> DEFINE u == q \o r
<1>2. ASSUME NEW i \in DOMAIN u
      PROVE  i \in Nat /\ \/ i \in DOMAIN q /\ u[i] = q[i]
                          \/ i > Len(q) /\ i - Len(q) \in DOMAIN r /\ u[i] = r[i - Len(q)]
  <2>1. CASE i <= Len(q)
    BY <1>1, <1>2, <2>1
  <2>2. CASE i > Len(q)
    <3>1. i - Len(q) \in 1 .. Len(r) /\ Len(q) + (i - Len(q)) = i
      BY <1>1, <1>2, <2>2
    <3> QED
      BY <1>1, <1>2, <2>2, <3>1
  <2> QED
    BY <1>1, <1>2, <2>1, <2>2
<1>3. \A i \in DOMAIN q : i \in DOMAIN u /\ u[i] = q[i]
  BY <1>1
<1> QED
  BY <1>1, <1>2, <1>3

\* And every task of the second is one of both.
LEMMA JoinedLater ==
  ASSUME NEW q, IsSeq(q), NEW r, IsSeq(r), NEW i \in DOMAIN r
  PROVE  Len(q) + i \in DOMAIN (q \o r) /\ (q \o r)[Len(q) + i] = r[i]
<1>1. /\ DOMAIN q = 1 .. Len(q) /\ Len(q) \in Nat
      /\ DOMAIN r = 1 .. Len(r) /\ Len(r) \in Nat
      /\ DOMAIN (q \o r) = 1 .. (Len(q) + Len(r))
      /\ \A j \in 1 .. Len(r) : (q \o r)[Len(q) + j] = r[j]
  BY ConcatTasks
<1> QED
  BY <1>1

\* Writes are queued last, and wait for nobody.
LEMMA QueuedWrites ==
  ASSUME NEW q, NEW r, NEW at, Queued(q, at), IsSeq(r),
         \A i \in DOMAIN r : TaskOK(r[i]) /\ r[i].op # "barrier"
  PROVE  /\ Queued(q \o r, at)
         /\ \A w : NoneOf(q, w) => NoneOf(q \o r, w)
<1> DEFINE u == q \o r
<1>1. IsSeq(q)
  BY DEF Queued
<1>2. IsSeq(u) /\ \A i \in DOMAIN u : \/ i \in DOMAIN q /\ u[i] = q[i]
                                      \/ i - Len(q) \in DOMAIN r /\ u[i] = r[i - Len(q)]
  BY <1>1, JoinedTasks
<1> HIDE DEF u
<1>3. \A i \in DOMAIN u : TaskOK(u[i])
  BY <1>2 DEF Queued
<1>4. \A i \in DOMAIN u : \A w : u[i] = BarrierTask(w) => i \in DOMAIN q /\ u[i] = q[i]
  BY <1>2, BarriersDiffer
<1>5. Awaited(u, at) /\ \A w : NoneOf(q, w) => NoneOf(u, w)
  BY <1>4 DEF Queued, Awaited, NoneOf
<1> QED
  BY <1>2, <1>3, <1>5 DEF Queued, u

\* A replay that ends leaves nothing of its own.
LEMMA NothingOffered ==
  /\ Offers \subseteq Offered /\ NoOffer \in Offered /\ NoSeen \in [Stats -> Table]
  /\ Writes(NoOffer) = {} /\ \A s \in Stats : Given(NoOffer, s) = {}
  BY ReplayAssumption DEF Offered, NoOffer, NoSeen, Table, EmptyTable, Writes, Given

\* A replay that ends, whatever it did, leaves variables of their kinds.
LEMMA IdleTyped ==
  ASSUME Typed, NEW w \in Writers, Idle(w), tables' \in [Stats -> Table],
         locks' \in [Stats -> Writers \cup {None}], unsettled' \subseteq Stats,
         unconfirmed' \in [Stats -> SUBSET Hours]
  PROVE  Kinds' /\ PlansHeld' /\ Apart(pc, pc', w)
<1>1. Kinds'
  <2>1. /\ NoAnchor \in [Stats -> Anchor \cup {None}] /\ NoPlan \in [Stats -> Part \cup {None}]
        /\ 0 \in 0 .. (SettleBarriers + ConfirmBarriers) /\ "idle" \in Locations
    BY ReplayAssumption DEF NoAnchor, NoPlan, Locations
  <2>2. pc' \in [Writers -> Locations] /\ offer' \in [Writers -> Offers \cup {NoOffer}]
    BY <2>1 DEF Typed, Kinds, Idle
  <2>3. /\ seen' \in [Writers -> [Stats -> Table]]
        /\ anchor' \in [Writers -> [Stats -> Anchor \cup {None}]]
        /\ plan' \in [Writers -> [Stats -> Part \cup {None}]]
    BY <2>1, NothingOffered DEF Typed, Kinds, Idle
  <2>4. /\ barriers' \in [Writers -> 0 .. (SettleBarriers + ConfirmBarriers)]
        /\ headHolds' \in [Writers -> BOOLEAN]
    BY <2>1 DEF Typed, Kinds, Idle
  <2>5. \A v \in Writers : pc'[v] # "idle" => offer'[v] \in Offers
    BY DEF Typed, Kinds, Idle
  <2> QED
    BY <2>2, <2>3, <2>4, <2>5 DEF Kinds
<1>2. PlansHeld'
  <2>1. \A v \in Writers : v # w => /\ plan'[v] = plan[v] /\ pc'[v] = pc[v]
                                    /\ offer'[v] = offer[v]
    BY DEF Typed, Kinds, Idle
  <2>2. pc'[w] = "idle" /\ plan'[w] = NoPlan
    BY DEF Typed, Kinds, Idle
  <2> QED
    BY <2>1, <2>2 DEF Typed, PlansHeld, NoPlan, HasQueued
<1>3. Apart(pc, pc', w)
  BY DEF Typed, Kinds, Idle, Apart
<1> QED
  BY <1>1, <1>2, <1>3

\* Where a writer's own step leads it with its hours and its plan, plans are held.
LEMMA MovedTyped ==
  ASSUME Typed, NEW w \in Writers, NEW at \in Locations, pc' = [pc EXCEPT ![w] = at],
         UNCHANGED <<offer, plan>>, (pc[w] \in HasQueued) <=> (at \in HasQueued)
  PROVE  PlansHeld' /\ Apart(pc, pc', w) /\ pc'[w] = at /\ pc' \in [Writers -> Locations]
<1>1. pc'[w] = at /\ Apart(pc, pc', w) /\ pc' \in [Writers -> Locations]
  BY DEF Typed, Kinds, Apart
<1>2. PlansHeld'
  BY <1>1 DEF Typed, PlansHeld, Apart
<1> QED
  BY <1>1, <1>2

\* Releasing locks leaves locks.
LEMMA ReleasedTyped ==
  ASSUME Typed, NEW w \in Writers
  PROVE  /\ Released(w) \in [Stats -> Writers \cup {None}]
         /\ Unconfirmed(w) \in [Stats -> SUBSET Hours]
         /\ pc[w] # "idle" => offer[w] \in Offers /\ offer[w] \in Offered
  BY NothingOffered DEF Typed, Kinds, Released, Unconfirmed, Given

\* The types hold at first.
LEMMA InitTyped == Init => Typed
<1> SUFFICES ASSUME Init PROVE Typed
  OBVIOUS
<1>1. Kinds
  BY ReplayAssumption, NothingOffered DEF Init, Kinds, Locations, NoAnchor, NoPlan
<1>2. PlansHeld
  BY DEF Init, PlansHeld, NoPlan, HasQueued
<1>3. Queued(queue, pc)
  BY EmptyIsSeq DEF Init, Queued, Awaited
<1> QED
  BY <1>1, <1>2, <1>3 DEF Typed

\* A replay that begins keeps the types.
LEMMA BeginTyped ==
  ASSUME Typed, NEW w \in Writers, Begin(w)
  PROVE  Typed'
<1>1. pc[w] = "idle" /\ pc' = [pc EXCEPT ![w] = "lock"]
  BY DEF Begin
<1>2. Kinds'
  BY DEF Begin, Typed, Kinds, Locations
<1>3. PlansHeld'
  BY DEF Begin, Typed, Kinds, PlansHeld, HasQueued
<1>4. Apart(pc, pc', w) /\ NoneOf(queue, w)
  BY <1>1 DEF Typed, Kinds, Apart, Queued, Awaited, NoneOf, Waiting
<1>5. Queued(queue, pc')
  BY <1>4, QueuedApart DEF Typed
<1> QED
  BY <1>2, <1>3, <1>5 DEF Typed, Begin

\* Where a writer does not wait, it has no barrier queued.
LEMMA NotWaiting ==
  ASSUME Typed, NEW w \in Writers, pc[w] \notin Waiting
  PROVE  NoneOf(queue, w)
  BY DEF Typed, Queued, Awaited, NoneOf

\* A barrier is queued by a writer that now waits for it.
LEMMA BarrierQueued ==
  ASSUME NEW q, NEW at, NEW w \in Writers, Queued(q, at), NoneOf(q, w), at[w] \in Waiting
  PROVE  Queued(Append(q, BarrierTask(w)), at)
  BY QueuedAppend, BarrierTyped, BarriersDiffer

\* So does one that takes a lock, queueing its first barrier with the last.
LEMMA TakeLockTyped ==
  ASSUME Typed, NEW w \in Writers, TakeLock(w)
  PROVE  Typed'
<1>1. pc[w] = "lock" /\ UNCHANGED <<tables, unsettled, offer, seen, anchor, plan, headHolds, unconfirmed, used>>
  BY DEF TakeLock
<1>2. NoneOf(queue, w)
  BY <1>1, NotWaiting DEF Waiting
<1>3. PICK s \in Writes(offer[w]) \ Held(w) : locks' = [locks EXCEPT ![s] = w]
  BY DEF TakeLock
<1>4. locks' \in [Stats -> Writers \cup {None}]
  BY <1>3 DEF Typed, Kinds, Writes
<1>5. CASE /\ pc' = [pc EXCEPT ![w] = "read"]
           /\ UNCHANGED <<queue, barriers>>
  <2>1. PlansHeld' /\ Apart(pc, pc', w) /\ pc'[w] = "read" /\ pc' \in [Writers -> Locations]
    BY <1>1, <1>5, MovedTyped DEF Locations, HasQueued
  <2>2. Kinds'
    BY <1>1, <1>4, <1>5, <2>1 DEF Typed, Kinds, Apart
  <2>3. Queued(queue, pc')
    BY <1>2, <2>1, QueuedApart DEF Typed
  <2> QED
    BY <1>5, <2>1, <2>2, <2>3 DEF Typed
<1>6. CASE /\ pc' = [pc EXCEPT ![w] = "settle"]
           /\ queue' = Append(queue, BarrierTask(w))
           /\ barriers' = [barriers EXCEPT ![w] = 1]
  <2>1. PlansHeld' /\ Apart(pc, pc', w) /\ pc'[w] = "settle" /\ pc' \in [Writers -> Locations]
    BY <1>1, <1>6, MovedTyped DEF Locations, HasQueued
  <2>2. Kinds'
    BY <1>1, <1>4, <1>6, <2>1, ReplayAssumption DEF Typed, Kinds, Apart
  <2>3. Queued(queue, pc')
    BY <1>2, <2>1, QueuedApart DEF Typed
  <2>4. Queued(queue', pc')
    BY <1>2, <1>6, <2>1, <2>3, BarrierQueued DEF Waiting
  <2> QED
    BY <2>1, <2>2, <2>4 DEF Typed
<1>7. CASE UNCHANGED <<pc, queue, barriers>>
  BY <1>1, <1>4, <1>7 DEF Typed, Kinds, PlansHeld
<1> QED
  BY <1>5, <1>6, <1>7 DEF TakeLock

\* A replay that waits behind settle barriers keeps the types.
LEMMA SettleTyped ==
  ASSUME Typed, NEW w \in Writers, Settle(w)
  PROVE  Typed'
<1>1. pc[w] = "settled" /\ UNCHANGED <<tables, locks, offer, seen, anchor, plan, headHolds, unconfirmed, used>>
  BY DEF Settle
<1>2. NoneOf(queue, w)
  BY <1>1, NotWaiting DEF Waiting
<1>3. CASE barriers[w] < SettleBarriers
  <2>1. /\ pc' = [pc EXCEPT ![w] = "settle"]
        /\ queue' = Append(queue, BarrierTask(w))
        /\ barriers' = [barriers EXCEPT ![w] = @ + 1]
        /\ UNCHANGED unsettled
    BY <1>3 DEF Settle
  <2>2. PlansHeld' /\ Apart(pc, pc', w) /\ pc'[w] = "settle" /\ pc' \in [Writers -> Locations]
    BY <1>1, <2>1, MovedTyped DEF Locations, HasQueued
  <2>3. barriers' \in [Writers -> 0 .. (SettleBarriers + ConfirmBarriers)]
    BY <1>3, <2>1, ReplayAssumption DEF Typed, Kinds
  <2>4. Kinds'
    BY <1>1, <2>1, <2>2, <2>3 DEF Typed, Kinds, Apart
  <2>5. Queued(queue, pc')
    BY <1>2, <2>2, QueuedApart DEF Typed
  <2>6. Queued(queue', pc')
    BY <1>2, <2>1, <2>2, <2>5, BarrierQueued DEF Waiting
  <2> QED
    BY <2>2, <2>4, <2>6 DEF Typed
<1>4. CASE ~ (barriers[w] < SettleBarriers)
  <2>1. /\ pc' = [pc EXCEPT ![w] = "read"]
        /\ barriers' = [barriers EXCEPT ![w] = 0]
        /\ unsettled' = unsettled \ Writes(offer[w])
        /\ UNCHANGED queue
    BY <1>4 DEF Settle
  <2>2. PlansHeld' /\ Apart(pc, pc', w) /\ pc'[w] = "read" /\ pc' \in [Writers -> Locations]
    BY <1>1, <2>1, MovedTyped DEF Locations, HasQueued
  <2>3. barriers' \in [Writers -> 0 .. (SettleBarriers + ConfirmBarriers)]
    BY <2>1, ReplayAssumption DEF Typed, Kinds
  <2>4. Kinds'
    BY <1>1, <2>1, <2>2, <2>3 DEF Typed, Kinds, Apart
  <2>5. Queued(queue', pc')
    BY <1>2, <2>1, <2>2, QueuedApart DEF Typed
  <2> QED
    BY <2>2, <2>4, <2>5 DEF Typed
<1> QED
  BY <1>3, <1>4

\* A settle barrier that times out is forsaken.
LEMMA SettleTimesOutTyped ==
  ASSUME Typed, NEW w \in Writers, SettleTimesOut(w)
  PROVE  Typed'
<1>1. Kinds' /\ PlansHeld' /\ Apart(pc, pc', w)
  BY IdleTyped, ReleasedTyped DEF SettleTimesOut, Typed, Kinds
<1>2. Queued(queue', pc')
  BY <1>1, QueuedForsaken DEF SettleTimesOut, Typed
<1> QED
  BY <1>1, <1>2 DEF Typed

\* So is the barrier of a replay that is cancelled.
LEMMA CancelTyped ==
  ASSUME Typed, NEW w \in Writers, Cancel(w)
  PROVE  Typed'
<1>1. unconfirmed' \in [Stats -> SUBSET Hours]
  BY ReleasedTyped DEF Cancel, Typed, Kinds
<1>2. Kinds' /\ PlansHeld' /\ Apart(pc, pc', w)
  BY <1>1, IdleTyped, ReleasedTyped DEF Cancel, Typed, Kinds
<1>3. Queued(queue', pc')
  BY <1>2, QueuedForsaken DEF Cancel, Typed
<1> QED
  BY <1>2, <1>3 DEF Typed

\* The first read holds rows, and predecessors among them.
LEMMA ReadNearTyped ==
  ASSUME Typed, NEW w \in Writers, ReadNear(w)
  PROVE  Typed'
<1> DEFINE rows == [s \in Stats |->
                      IF s \in Writes(offer[w])
                      THEN Read(tables[s], ReadFrom(offer[w]), LastHour + 1) ELSE EmptyTable]
           anchors == [s \in Stats |-> IF s \in Writes(offer[w])
                                       THEN Predecessor(offer[w], s, rows[s]) ELSE None]
<1>1. pc[w] = "read" /\ UNCHANGED <<tables, queue, locks, unsettled, offer, plan, barriers,
                                    headHolds, unconfirmed, used>>
  BY DEF ReadNear
<1>2. PICK at \in {"build", "far"} : pc' = [pc EXCEPT ![w] = at]
  BY DEF ReadNear
<1>3. seen' = [seen EXCEPT ![w] = rows] /\ anchor' = [anchor EXCEPT ![w] = anchors]
  BY DEF ReadNear
<1>4. rows \in [Stats -> Table]
  BY ReadRows DEF Typed, Kinds
<1>5. anchors \in [Stats -> Anchor \cup {None}]
  <2> HIDE DEF rows
  <2> QED
    BY <1>4, PredecessorIs
<1> HIDE DEF rows, anchors
<1>6. PlansHeld' /\ Apart(pc, pc', w) /\ pc'[w] = at /\ pc' \in [Writers -> Locations]
  BY <1>1, <1>2, MovedTyped DEF Locations, HasQueued
<1>7. Kinds'
  BY <1>1, <1>3, <1>4, <1>5, <1>6 DEF Typed, Kinds, Apart
<1>8. Queued(queue', pc')
  BY <1>1, <1>6, NotWaiting, QueuedApart DEF Typed, Waiting
<1> QED
  BY <1>6, <1>7, <1>8 DEF Typed

\* A replay that is refused ends.
LEMMA RefuseTyped ==
  ASSUME Typed, NEW w \in Writers, Refuse(w), pc[w] \notin Waiting
  PROVE  Typed'
<1>1. Kinds' /\ PlansHeld' /\ Apart(pc, pc', w)
  BY IdleTyped, ReleasedTyped DEF Refuse, Typed, Kinds
<1>2. Queued(queue', pc')
  BY <1>1, NotWaiting, QueuedApart DEF Refuse, Typed
<1> QED
  BY <1>1, <1>2 DEF Typed

\* What a far read finds, for the statistics it searches.
FarRows(w) == [s \in Searched(w) |->
                 Read(tables[s], FarFrom(offer[w], Searched(w)), ReadFrom(offer[w]))]

\* What the second read finds, with what the first has found.
FarAnchors(w) == [s \in Stats |-> IF s \in Searched(w)
                                  THEN Predecessor(offer[w], s, FarRows(w)[s])
                                  ELSE anchor[w][s]]

\* The second read holds predecessors too.
LEMMA ReadFarTyped ==
  ASSUME Typed, NEW w \in Writers, ReadFar(w)
  PROVE  Typed'
<1>1. pc[w] = "far"
  BY DEF ReadFar
<1>2. CASE Refuse(w)
  BY <1>1, <1>2, RefuseTyped DEF Waiting
<1>3. CASE ~ Refuse(w)
  <2>1. /\ anchor' = [anchor EXCEPT ![w] = FarAnchors(w)]
        /\ pc' = [pc EXCEPT ![w] = IF Anchored(w, FarAnchors(w)) THEN "build" ELSE "older"]
        /\ UNCHANGED <<tables, queue, locks, unsettled, offer, seen, plan,
                       barriers, headHolds, unconfirmed, used>>
    BY <1>3 DEF ReadFar, FarAnchors, FarRows
  <2>2. PICK at \in {"build", "older"} : pc' = [pc EXCEPT ![w] = at]
    BY <2>1
  <2>3. Searched(w) \subseteq Stats
    BY DEF Searched, Writes
  <2>4. FarRows(w) \in [Searched(w) -> Table]
    BY <2>3, ReadRows DEF FarRows, Typed, Kinds
  <2>5. FarAnchors(w) \in [Stats -> Anchor \cup {None}]
    BY <2>4, PredecessorIs DEF FarAnchors, Typed, Kinds
  <2>6. PlansHeld' /\ Apart(pc, pc', w) /\ pc'[w] = at /\ pc' \in [Writers -> Locations]
    BY <1>1, <2>1, <2>2, MovedTyped DEF Locations, HasQueued
  <2>7. Kinds'
    BY <1>1, <2>1, <2>5, <2>6 DEF Typed, Kinds, Apart
  <2>8. Queued(queue', pc')
    BY <1>1, <2>1, <2>6, NotWaiting, QueuedApart DEF Typed, Waiting
  <2> QED
    BY <2>6, <2>7, <2>8 DEF Typed
<1> QED
  BY <1>2, <1>3

\* The third read only tells whether to go on.
LEMMA ReadOlderTyped ==
  ASSUME Typed, NEW w \in Writers, ReadOlder(w)
  PROVE  Typed'
<1>1. pc[w] = "older"
  BY DEF ReadOlder
<1>2. CASE Refuse(w)
  BY <1>1, <1>2, RefuseTyped DEF Waiting
<1>3. CASE ~ Refuse(w)
  <2>1. /\ pc' = [pc EXCEPT ![w] = "build"]
        /\ UNCHANGED <<tables, queue, locks, unsettled, replay, unconfirmed, used>>
    BY <1>3 DEF ReadOlder
  <2>2. PlansHeld' /\ Apart(pc, pc', w) /\ pc'[w] = "build" /\ pc' \in [Writers -> Locations]
    BY <1>1, <2>1, MovedTyped DEF Locations, HasQueued, replay
  <2>3. Kinds'
    BY <1>1, <2>1, <2>2 DEF Typed, Kinds, Apart, replay
  <2>4. Queued(queue', pc')
    BY <1>1, <2>1, <2>2, NotWaiting, QueuedApart DEF Typed, Waiting
  <2> QED
    BY <2>2, <2>3, <2>4 DEF Typed
<1> QED
  BY <1>2, <1>3

\* What a replay builds of the rows it read.
BuiltBy(w) == [s \in Stats |-> IF s \in Writes(offer[w])
                               THEN Built(offer[w], s, seen[w][s], anchor[w][s]) ELSE None]

\* What a replay builds is a part for every statistic it writes.
LEMMA BuiltTyped ==
  ASSUME Typed, NEW w \in Writers, pc[w] # "idle"
  PROVE  /\ offer[w] \in Offered
         /\ \A s \in Writes(offer[w]) : s \in Stats /\ BuiltBy(w)[s] \in Part
         /\ BuiltBy(w) \in [Stats -> Part \cup {None}]
         /\ \A s \in Stats : BuiltBy(w)[s] # None <=> s \in Writes(offer[w])
<1>1. offer[w] \in Offered
  BY ReleasedTyped
<1>2. ASSUME NEW s \in Writes(offer[w])
      PROVE  s \in Stats /\ BuiltBy(w)[s] \in Part
  <2>1. s \in Stats
    BY DEF Writes
  <2>2. seen[w][s] \in Table /\ anchor[w][s] \in Anchor \cup {None}
    BY <2>1 DEF Typed, Kinds
  <2>3. Built(offer[w], s, seen[w][s], anchor[w][s]) \in Part
    BY <1>1, <2>2, BuiltIsPart
  <2> QED
    BY <2>1, <2>3 DEF BuiltBy
<1>3. \A s \in Stats : s \notin Writes(offer[w]) => BuiltBy(w)[s] = None
  BY DEF BuiltBy
<1>4. DOMAIN BuiltBy(w) = Stats
  BY DEF BuiltBy
<1>5. BuiltBy(w) \in [Stats -> Part \cup {None}]
  <2>1. \A s \in Stats : BuiltBy(w)[s] \in Part \cup {None}
    BY <1>2, <1>3
  <2>2. BuiltBy(w) = [s \in Stats |-> BuiltBy(w)[s]]
    BY DEF BuiltBy
  <2> QED
    BY <2>1, <2>2
<1> QED
  BY <1>1, <1>2, <1>3, <1>5, AbsentAssumption

\* A replay queues the rows of each statistic it writes once, and then shifts.
LEMMA WriteTasksAre ==
  ASSUME NEW o, NEW built, NEW r, r = WriteTasks(o, built)
  PROVE  /\ IsSeq(r)
         /\ \A i \in DOMAIN r : \E s \in Writes(o) :
              \/ /\ r[i] = ImportTask(s, built[s].rows)
                 /\ \A j \in DOMAIN r : IsWrite(r[j], s) /\ j # i => i < j
              \/ r[i] = AdjustTask(s, Last(o, s) + 1, built[s].shift)
         /\ \A s \in Writes(o) : \E i \in DOMAIN r : r[i] = ImportTask(s, built[s].rows)
<1> DEFINE a == ImportOf(o, built, Energy)
           b == ImportOf(o, built, Cost)
           c == ShiftOf(o, built, Energy)
           d == ShiftOf(o, built, Cost)
<1>1. IsSeq(<<>>) /\ \A t : IsSeq(<<t>>)
  BY DEF IsSeq
<1>2. IsSeq(a) /\ IsSeq(b) /\ IsSeq(c) /\ IsSeq(d)
  BY <1>1 DEF ImportOf, ShiftOf
<1>3. /\ \A i \in DOMAIN a : i = 1 /\ Energy \in Writes(o)
                             /\ a[i] = ImportTask(Energy, built[Energy].rows)
      /\ \A i \in DOMAIN b : i = 1 /\ Cost \in Writes(o)
                             /\ b[i] = ImportTask(Cost, built[Cost].rows)
      /\ \A i \in DOMAIN c : i = 1 /\ Energy \in Writes(o)
           /\ c[i] = AdjustTask(Energy, Last(o, Energy) + 1, built[Energy].shift)
      /\ \A i \in DOMAIN d : i = 1 /\ Cost \in Writes(o)
           /\ d[i] = AdjustTask(Cost, Last(o, Cost) + 1, built[Cost].shift)
      /\ Energy \in Writes(o) => 1 \in DOMAIN a
      /\ Cost \in Writes(o) => 1 \in DOMAIN b
  BY DEF ImportOf, ShiftOf
<1> HIDE DEF a, b, c, d
<1> DEFINE e == a \o b
           f == c \o d
<1>4. /\ IsSeq(e) /\ Len(a) \in Nat
      /\ DOMAIN a = 1 .. Len(a)
      /\ \A i \in DOMAIN e : i \in Nat /\
           \/ i \in DOMAIN a /\ e[i] = a[i]
           \/ i > Len(a) /\ i - Len(a) \in DOMAIN b /\ e[i] = b[i - Len(a)]
      /\ \A i \in DOMAIN a : i \in DOMAIN e /\ e[i] = a[i]
      /\ \A i \in DOMAIN b : Len(a) + i \in DOMAIN e /\ e[Len(a) + i] = b[i]
  <2>1. IsSeq(a) /\ IsSeq(b)
    BY <1>2
  <2>2. IsSeq(a \o b) /\ Len(a) \in Nat /\ DOMAIN a = 1 .. Len(a)
    BY <2>1, JoinedTasks
  <2>3. \A i \in DOMAIN (a \o b) : i \in Nat /\
           \/ i \in DOMAIN a /\ (a \o b)[i] = a[i]
           \/ i > Len(a) /\ i - Len(a) \in DOMAIN b /\ (a \o b)[i] = b[i - Len(a)]
    BY <2>1, JoinedTasks
  <2>4. \A i \in DOMAIN a : i \in DOMAIN (a \o b) /\ (a \o b)[i] = a[i]
    BY <2>1, JoinedTasks
  <2>5. ASSUME NEW i \in DOMAIN b
        PROVE  Len(a) + i \in DOMAIN (a \o b) /\ (a \o b)[Len(a) + i] = b[i]
    BY <2>1, JoinedLater
  <2> QED
    BY <2>2, <2>3, <2>4, <2>5
<1>5. IsSeq(f) /\ \A i \in DOMAIN f : \/ i \in DOMAIN c /\ f[i] = c[i]
                                      \/ i - Len(c) \in DOMAIN d /\ f[i] = d[i - Len(c)]
  BY <1>2, JoinedTasks
<1> HIDE DEF e, f
<1>6. \A i \in DOMAIN e : \/ /\ i = 1 /\ Energy \in Writes(o)
                             /\ e[i] = ImportTask(Energy, built[Energy].rows)
                          \/ /\ i = Len(a) + 1 /\ Cost \in Writes(o)
                             /\ e[i] = ImportTask(Cost, built[Cost].rows)
  BY <1>3, <1>4
<1>7. Energy # Cost
  BY ReplayAssumption
<1>8. \A s, t, x, y, z : /\ ImportTask(s, x) = ImportTask(t, y) => s = t
                         /\ IsWrite(ImportTask(s, x), t) => s = t
                         /\ AdjustTask(s, y, z).op = "adjust" /\ ImportTask(s, x).op = "import"
  BY DEF ImportTask, AdjustTask, IsWrite
<1>9. \A i \in DOMAIN e : \E s \in Writes(o) :
         /\ e[i] = ImportTask(s, built[s].rows)
         /\ \A j \in DOMAIN e : IsWrite(e[j], s) => j = i
  BY <1>6, <1>7, <1>8
<1>10. \A s \in Writes(o) : \E i \in DOMAIN e : e[i] = ImportTask(s, built[s].rows)
  <2>1. Energy \in Writes(o) => \E i \in DOMAIN e : e[i] = ImportTask(Energy, built[Energy].rows)
    BY <1>3, <1>4
  <2>2. Cost \in Writes(o) => \E i \in DOMAIN e : e[i] = ImportTask(Cost, built[Cost].rows)
    BY <1>3, <1>4
  <2> QED
    BY <2>1, <2>2 DEF Writes, Stats
<1>11. \A i \in DOMAIN f : \E s \in Writes(o) :
         f[i] = AdjustTask(s, Last(o, s) + 1, built[s].shift)
  BY <1>3, <1>5
<1>12. r = e \o f
  BY DEF WriteTasks, a, b, c, d, e, f
<1>13. /\ IsSeq(r) /\ Len(e) \in Nat
       /\ DOMAIN e = 1 .. Len(e)
       /\ \A i \in DOMAIN r : i \in Nat /\
            \/ i \in DOMAIN e /\ r[i] = e[i]
            \/ i > Len(e) /\ i - Len(e) \in DOMAIN f /\ r[i] = f[i - Len(e)]
       /\ \A i \in DOMAIN e : i \in DOMAIN r /\ r[i] = e[i]
  <2>1. IsSeq(e) /\ IsSeq(f)
    BY <1>4, <1>5
  <2>2. IsSeq(e \o f) /\ Len(e) \in Nat /\ DOMAIN e = 1 .. Len(e)
    BY <2>1, JoinedTasks
  <2>3. \A i \in DOMAIN (e \o f) : i \in Nat /\
           \/ i \in DOMAIN e /\ (e \o f)[i] = e[i]
           \/ i > Len(e) /\ i - Len(e) \in DOMAIN f /\ (e \o f)[i] = f[i - Len(e)]
    BY <2>1, JoinedTasks
  <2>4. \A i \in DOMAIN e : i \in DOMAIN (e \o f) /\ (e \o f)[i] = e[i]
    BY <2>1, JoinedTasks
  <2> QED
    BY <1>12, <2>2, <2>3, <2>4
<1>14. ASSUME NEW i \in DOMAIN r
       PROVE  \E s \in Writes(o) :
              \/ /\ r[i] = ImportTask(s, built[s].rows)
                 /\ \A j \in DOMAIN r : IsWrite(r[j], s) /\ j # i => i < j
              \/ r[i] = AdjustTask(s, Last(o, s) + 1, built[s].shift)
  <2>1. CASE i \in DOMAIN e /\ r[i] = e[i]
    <3>1. PICK s \in Writes(o) : /\ e[i] = ImportTask(s, built[s].rows)
                                 /\ \A j \in DOMAIN e : IsWrite(e[j], s) => j = i
      BY <1>9, <2>1
    <3>2. \A j \in DOMAIN r : IsWrite(r[j], s) /\ j # i => i < j
      BY <1>13, <2>1, <3>1
    <3> QED
      BY <2>1, <3>1, <3>2
  <2>2. CASE i - Len(e) \in DOMAIN f /\ r[i] = f[i - Len(e)]
    BY <1>11, <2>2
  <2> QED
    BY <1>13, <2>1, <2>2
<1>15. \A s \in Writes(o) : \E i \in DOMAIN r : r[i] = ImportTask(s, built[s].rows)
  BY <1>10, <1>13
<1> QED
  BY <1>13, <1>14, <1>15

\* The writes a replay queues are typed, and no barriers.
LEMMA WritesTyped ==
  ASSUME Typed, NEW w \in Writers, pc[w] # "idle",
         NEW r, r = WriteTasks(offer[w], BuiltBy(w))
  PROVE  IsSeq(r) /\ \A i \in DOMAIN r : TaskOK(r[i]) /\ r[i].op # "barrier"
<1>1. ASSUME NEW s \in Writes(offer[w])
      PROVE  /\ TaskOK(ImportTask(s, BuiltBy(w)[s].rows))
             /\ TaskOK(AdjustTask(s, Last(offer[w], s) + 1, BuiltBy(w)[s].shift))
  <2>1. BuiltBy(w)[s].rows \in Table /\ BuiltBy(w)[s].shift \in Int
    BY BuiltTyped DEF Part
  <2>2. Last(offer[w], s) \in Hours
    BY SpanHours
  <2>3. Last(offer[w], s) + 1 \in Int
    BY <2>2, HoursAreNaturals
  <2> QED
    BY <2>1, <2>3 DEF ImportTask, AdjustTask, TaskOK
<1>2. \A s, x, y : ImportTask(s, x).op # "barrier" /\ AdjustTask(s, x, y).op # "barrier"
  BY DEF ImportTask, AdjustTask
<1>3. IsSeq(r) /\ \A i \in DOMAIN r : \E s \in Writes(offer[w]) :
         \/ r[i] = ImportTask(s, BuiltBy(w)[s].rows)
         \/ r[i] = AdjustTask(s, Last(offer[w], s) + 1, BuiltBy(w)[s].shift)
  <2>1. PICK o : o = offer[w]
    OBVIOUS
  <2>2. PICK built : built = BuiltBy(w)
    OBVIOUS
  <2>3. r = WriteTasks(o, built)
    BY <2>1, <2>2
  <2>4. IsSeq(r) /\ \A i \in DOMAIN r : \E s \in Writes(o) :
           \/ r[i] = ImportTask(s, built[s].rows)
           \/ r[i] = AdjustTask(s, Last(o, s) + 1, built[s].shift)
    BY <2>3, WriteTasksAre
  <2> QED
    BY <2>1, <2>2, <2>4
<1>4. ASSUME NEW i \in DOMAIN r
      PROVE  TaskOK(r[i]) /\ r[i].op # "barrier"
  <2>1. PICK s \in Writes(offer[w]) :
         \/ r[i] = ImportTask(s, BuiltBy(w)[s].rows)
         \/ r[i] = AdjustTask(s, Last(offer[w], s) + 1, BuiltBy(w)[s].shift)
    BY <1>3
  <2>2. CASE r[i] = ImportTask(s, BuiltBy(w)[s].rows)
    BY <1>1, <1>2, <2>2
  <2>3. CASE r[i] = AdjustTask(s, Last(offer[w], s) + 1, BuiltBy(w)[s].shift)
    BY <1>1, <1>2, <2>3
  <2> QED
    BY <2>1, <2>2, <2>3
<1> QED
  BY <1>3, <1>4

\* A replay that queues its writes holds their plan.
LEMMA BuildAndQueueTyped ==
  ASSUME Typed, NEW w \in Writers, BuildAndQueue(w)
  PROVE  Typed'
<1>1. PICK r : r = WriteTasks(offer[w], BuiltBy(w))
  OBVIOUS
<1>2. /\ pc[w] = "build"
      /\ plan' = [plan EXCEPT ![w] = BuiltBy(w)]
      /\ unsettled' = unsettled \cup Writes(offer[w])
      /\ queue' = queue \o r \o <<BarrierTask(w)>>
      /\ barriers' = [barriers EXCEPT ![w] = 1]
      /\ seen' = [seen EXCEPT ![w] = NoSeen]
      /\ anchor' = [anchor EXCEPT ![w] = NoAnchor]
      /\ pc' = [pc EXCEPT ![w] = "confirm"]
      /\ UNCHANGED <<tables, locks, offer, headHolds, unconfirmed, used>>
  BY <1>1 DEF BuildAndQueue, BuiltBy
<1>3. /\ BuiltBy(w) \in [Stats -> Part \cup {None}]
      /\ \A s \in Stats : BuiltBy(w)[s] # None <=> s \in Writes(offer[w])
  BY <1>2, BuiltTyped
<1>4. pc'[w] = "confirm" /\ Apart(pc, pc', w) /\ pc' \in [Writers -> Locations]
  BY <1>2 DEF Typed, Kinds, Apart, Locations
<1>5. Kinds'
  <2>1. NoAnchor \in [Stats -> Anchor \cup {None}] /\ 1 \in 0 .. (SettleBarriers + ConfirmBarriers)
    BY ReplayAssumption DEF NoAnchor
  <2>2. /\ seen' \in [Writers -> [Stats -> Table]]
        /\ anchor' \in [Writers -> [Stats -> Anchor \cup {None}]]
        /\ plan' \in [Writers -> [Stats -> Part \cup {None}]]
        /\ barriers' \in [Writers -> 0 .. (SettleBarriers + ConfirmBarriers)]
    BY <1>2, <1>3, <2>1, NothingOffered DEF Typed, Kinds
  <2>3. \A v \in Writers : pc'[v] # "idle" => offer'[v] \in Offers
    BY <1>2, <1>4 DEF Typed, Kinds, Apart
  <2>4. unsettled' \subseteq Stats
    BY <1>2 DEF Typed, Kinds, Writes
  <2> QED
    BY <1>2, <1>4, <2>2, <2>3, <2>4 DEF Typed, Kinds
<1>6. PlansHeld'
  <2>1. plan'[w] = BuiltBy(w) /\ offer' = offer /\ \A v \in Writers \ {w} : plan'[v] = plan[v]
    BY <1>2 DEF Typed, Kinds
  <2>2. \A s \in Stats : (plan'[w][s] # None) <=> (pc'[w] \in HasQueued /\ s \in Writes(offer'[w]))
    BY <1>3, <1>4, <2>1 DEF HasQueued
  <2>3. \A v \in Writers \ {w}, s \in Stats :
          (plan'[v][s] # None) <=> (pc'[v] \in HasQueued /\ s \in Writes(offer'[v]))
    BY <1>4, <2>1 DEF Typed, PlansHeld, Apart
  <2> QED
    BY <2>2, <2>3 DEF PlansHeld
<1>7. Queued(queue, pc') /\ NoneOf(queue, w)
  BY <1>2, <1>4, NotWaiting, QueuedApart DEF Typed, Waiting
<1>8. Queued(queue \o r, pc') /\ NoneOf(queue \o r, w)
  <2>1. IsSeq(r) /\ \A i \in DOMAIN r : TaskOK(r[i]) /\ r[i].op # "barrier"
    BY <1>1, <1>2, WritesTyped
  <2> QED
    BY <1>7, <2>1, QueuedWrites
<1>9. Queued(Append(queue \o r, BarrierTask(w)), pc')
  BY <1>4, <1>8, BarrierQueued DEF Waiting
<1>10. queue' = Append(queue \o r, BarrierTask(w))
  <2>1. IsSeq(queue \o r)
    BY <1>8 DEF Queued
  <2>2. PICK q : q = queue \o r
    OBVIOUS
  <2>3. q \in Seq(Elements(q) \cup {BarrierTask(w)})
    BY <2>1, <2>2, SeqOfElements, SeqMonotonic
  <2>4. Append(q, BarrierTask(w)) = q \o <<BarrierTask(w)>>
    BY <2>3, AppendIsConcat
  <2> QED
    BY <1>2, <2>2, <2>4
<1> QED
  BY <1>5, <1>6, <1>9, <1>10 DEF Typed

\* A replay that waits for another barrier, or gives its confirmation up.
LEMMA NextBarrierTyped ==
  ASSUME Typed, NEW w \in Writers, pc[w] \in HasQueued, NEW q, NextBarrier(w, q),
         UNCHANGED <<tables, unsettled>>, IsSeq(q),
         \A at : Apart(pc, at, w) => Queued(q, at), NoneOf(q, w)
  PROVE  Typed'
<1>1. CASE barriers[w] < ConfirmBarriers
  <2>1. /\ queue' = Append(q, BarrierTask(w))
        /\ barriers' = [barriers EXCEPT ![w] = @ + 1]
        /\ pc' = [pc EXCEPT ![w] = "confirm"]
        /\ headHolds' = [headHolds EXCEPT ![w] = FALSE]
        /\ UNCHANGED <<locks, offer, seen, anchor, plan, unconfirmed>>
    BY <1>1 DEF NextBarrier
  <2>2. PlansHeld' /\ Apart(pc, pc', w) /\ pc'[w] = "confirm" /\ pc' \in [Writers -> Locations]
    BY <2>1, MovedTyped DEF Locations, HasQueued
  <2>3. barriers' \in [Writers -> 0 .. (SettleBarriers + ConfirmBarriers)]
    BY <1>1, <2>1, ReplayAssumption DEF Typed, Kinds
  <2>4. offer[w] \in Offers
    BY ReleasedTyped DEF HasQueued
  <2>5. Kinds'
    BY <2>1, <2>2, <2>3, <2>4 DEF Typed, Kinds, Apart
  <2>6. Queued(queue', pc')
    BY <2>1, <2>2, BarrierQueued DEF Waiting
  <2> QED
    BY <2>2, <2>5, <2>6 DEF Typed
<1>2. CASE ~ (barriers[w] < ConfirmBarriers)
  <2>1. /\ queue' = q
        /\ locks' = Released(w)
        /\ unconfirmed' = Unconfirmed(w)
        /\ Idle(w)
    BY <1>2 DEF NextBarrier
  <2>2. Kinds' /\ PlansHeld' /\ Apart(pc, pc', w)
    BY <2>1, IdleTyped, ReleasedTyped DEF Typed, Kinds
  <2> QED
    BY <2>1, <2>2 DEF Typed
<1> QED
  BY <1>1, <1>2

\* A confirmation barrier that times out is followed by another, or the replay ends.
LEMMA ConfirmTimesOutTyped ==
  ASSUME Typed, NEW w \in Writers, ConfirmTimesOut(w)
  PROVE  Typed'
<1>1. /\ pc[w] \in HasQueued /\ NextBarrier(w, Forsaken(w))
      /\ UNCHANGED <<tables, unsettled>>
  BY DEF ConfirmTimesOut, HasQueued
<1>2. /\ \A at : Apart(pc, at, w) => Queued(Forsaken(w), at)
      /\ NoneOf(Forsaken(w), w)
  <2>1. Queued(queue, pc)
    BY DEF Typed
  <2>2. \A at : Apart(pc, at, w) => Queued(Forsaken(w), at)
    BY <2>1, QueuedForsaken
  <2>3. Apart(pc, pc, w)
    BY DEF Apart
  <2> QED
    BY <2>1, <2>2, <2>3, QueuedForsaken
<1>3. IsSeq(Forsaken(w))
  BY <1>2 DEF Queued, Apart
<1> QED
  BY <1>1, <1>2, <1>3, NextBarrierTyped

\* So is a barrier behind which the joins do not hold.
LEMMA ReadTailFailsTyped ==
  ASSUME Typed, NEW w \in Writers, ReadTailFails(w)
  PROVE  Typed'
<1>1. /\ pc[w] = "tail" /\ pc[w] \in HasQueued /\ NextBarrier(w, queue)
      /\ UNCHANGED <<tables, unsettled>>
  BY DEF ReadTailFails, HasQueued
<1>2. NoneOf(queue, w)
  BY <1>1, NotWaiting DEF Waiting
<1>3. \A at : Apart(pc, at, w) => Queued(queue, at)
  BY <1>2, QueuedApart DEF Typed
<1>4. IsSeq(queue)
  BY DEF Typed, Queued
<1> QED
  BY <1>1, <1>2, <1>3, <1>4, NextBarrierTyped

\* Reading back the head tells whether it holds.
LEMMA ReadHeadTyped ==
  ASSUME Typed, NEW w \in Writers, ReadHead(w)
  PROVE  Typed'
<1>1. /\ pc[w] = "confirmed" /\ pc' = [pc EXCEPT ![w] = "tail"]
      /\ UNCHANGED <<tables, queue, locks, unsettled, offer, seen, anchor, plan,
                     barriers, unconfirmed, used>>
  BY DEF ReadHead
<1>2. headHolds' \in [Writers -> BOOLEAN]
  <2>1. PICK b \in BOOLEAN : headHolds' = [headHolds EXCEPT ![w] = b]
    BY DEF ReadHead
  <2> QED
    BY <2>1 DEF Typed, Kinds
<1>3. PlansHeld' /\ Apart(pc, pc', w) /\ pc'[w] = "tail" /\ pc' \in [Writers -> Locations]
  BY <1>1, MovedTyped DEF Locations, HasQueued
<1>4. Kinds'
  BY <1>1, <1>2, <1>3 DEF Typed, Kinds, Apart
<1>5. Queued(queue', pc')
  BY <1>1, <1>3, NotWaiting, QueuedApart DEF Typed, Waiting
<1> QED
  BY <1>3, <1>4, <1>5 DEF Typed

\* A confirmed replay ends, and holds no plan.
LEMMA ReadTailHoldsTyped ==
  ASSUME Typed, NEW w \in Writers, ReadTailHolds(w)
  PROVE  Typed'
<1>1. unconfirmed' \in [Stats -> SUBSET Hours]
  BY DEF ReadTailHolds, Typed, Kinds
<1>2. Kinds' /\ PlansHeld' /\ Apart(pc, pc', w)
  <2>1. unsettled' \subseteq Stats /\ locks' \in [Stats -> Writers \cup {None}]
          /\ tables' \in [Stats -> Table] /\ Idle(w)
    BY ReleasedTyped DEF ReadTailHolds, Typed, Kinds
  <2> QED
    BY <1>1, <2>1, IdleTyped
<1>3. Queued(queue', pc')
  BY <1>2, NotWaiting, QueuedApart DEF ReadTailHolds, Typed, Waiting
<1> QED
  BY <1>2, <1>3 DEF Typed

-------------------------------------------------------------------------------
(***************************************************************************)
(* The recorder's tasks, a user's and a restart keep the types.            *)
(***************************************************************************)

\* Imports and adjustments turn tables into tables.
LEMMA TablesStayTables ==
  ASSUME NEW table \in Table
  PROVE  /\ \A rows \in Table : Imported(table, rows) \in Table
         /\ \A from, delta \in Int : Adjusted(table, from, delta) \in Table
<1>1. \A rows \in Table : Imported(table, rows) \in Table
  BY DEF Table, Imported
<1>2. ASSUME NEW from \in Int, NEW delta \in Int
      PROVE  Adjusted(table, from, delta) \in Table
  <2>1. ASSUME NEW h \in Hours, table[h] # None, table[h].sum # None
        PROVE  [table[h] EXCEPT !.sum = @ + delta] \in Row
    <3>1. table[h] \in Row /\ table[h].sum \in Int
      BY <2>1, TableRows
    <3> QED
      BY <1>2, <3>1 DEF Row
  <2>2. \A h \in Hours : table[h] \in Row \cup {None}
    BY DEF Table
  <2> QED
    BY <2>1, <2>2 DEF Table, Adjusted
<1> QED
  BY <1>1, <1>2

\* What a task does to each statistic's table.
LEMMA TaskRuns ==
  ASSUME Typed, NEW task, TaskOK(task), tables' = RunTask(tables, task)
  PROVE  /\ tables' \in [Stats -> Table]
         /\ \A s \in Stats :
              tables'[s] = IF task.op = "import" /\ task.stat = s
                           THEN Imported(tables[s], task.rows)
                           ELSE IF task.op \in {"adjust", "user"} /\ task.stat = s
                           THEN Adjusted(tables[s], task.from, task.delta)
                           ELSE tables[s]
<1>1. tables \in [Stats -> Table]
  BY DEF Typed, Kinds
<1>2. CASE task.op = "import"
  <2>1. tables' = [tables EXCEPT ![task.stat] = Imported(@, task.rows)]
    BY <1>2 DEF RunTask
  <2>2. task.rows \in Table
    BY <1>2, BarriersDiffer DEF TaskOK
  <2>3. \A s \in Stats : tables'[s] = IF task.stat = s THEN Imported(tables[s], task.rows)
                                      ELSE tables[s]
    BY <1>1, <2>1
  <2>4. tables' \in [Stats -> Table]
    <3>1. \A s \in Stats : tables'[s] \in Table
      BY <1>1, <2>2, <2>3, TablesStayTables
    <3>2. tables' = [s \in Stats |-> tables'[s]]
      BY <1>1, <2>1
    <3> QED
      BY <3>1, <3>2
  <2> QED
    BY <1>2, <2>3, <2>4
<1>3. CASE task.op \in {"adjust", "user"}
  <2>1. tables' = [tables EXCEPT ![task.stat] = Adjusted(@, task.from, task.delta)]
    BY <1>3 DEF RunTask
  <2>2. task.from \in Int /\ task.delta \in Int
    BY <1>3, BarriersDiffer DEF TaskOK
  <2>3. \A s \in Stats : tables'[s] = IF task.stat = s
                                      THEN Adjusted(tables[s], task.from, task.delta)
                                      ELSE tables[s]
    BY <1>1, <2>1
  <2>4. tables' \in [Stats -> Table]
    <3>1. \A s \in Stats : tables'[s] \in Table
      BY <1>1, <2>2, <2>3, TablesStayTables
    <3>2. tables' = [s \in Stats |-> tables'[s]]
      BY <1>1, <2>1
    <3> QED
      BY <3>1, <3>2
  <2> QED
    BY <1>3, <2>3, <2>4
<1>4. CASE task.op \notin {"import", "adjust", "user"}
  BY <1>1, <1>4 DEF RunTask
<1> QED
  BY <1>2, <1>3, <1>4

\* Running a task leaves tables, and its barrier's writer waits no more.
LEMMA RecorderRunsTyped ==
  ASSUME Typed, RecorderRuns
  PROVE  Typed'
<1>1. /\ queue # <<>> /\ queue' = Tail(queue)
      /\ tables' = RunTask(tables, Head(queue)) /\ pc' = Resumed(Head(queue))
      /\ UNCHANGED <<locks, unsettled, offer, seen, anchor, plan, barriers, headHolds,
                     unconfirmed, used>>
  BY DEF RecorderRuns, replay
<1>2. /\ Queued(Tail(queue), pc) /\ TaskOK(Head(queue))
      /\ \A w \in Writers : Head(queue) = BarrierTask(w) =>
           pc[w] \in Waiting /\ NoneOf(Tail(queue), w)
  BY <1>1, QueuedTail DEF Typed
<1>3. PICK task : task = Head(queue)
  OBVIOUS
<1>4. tables' \in [Stats -> Table]
  BY <1>1, <1>2, TaskRuns
<1>5. CASE \E w \in Writers : task = BarrierTask(w)
  <2>1. PICK w \in Writers : task = BarrierTask(w)
    BY <1>5
  <2>2. pc[w] \in Waiting /\ NoneOf(Tail(queue), w)
    BY <1>2, <1>3, <2>1
  <2>3. pc' = [pc EXCEPT ![w] = IF @ = "settle" THEN "settled" ELSE "confirmed"]
    <3>1. task.op = "barrier" /\ task.writer = w /\ w # None
      BY <2>1, NoneIsNoWriter, BarriersDiffer
    <3> QED
      BY <1>1, <1>3, <3>1 DEF Resumed
  <2>4. PICK at \in {"settled", "confirmed"} :
          /\ pc' = [pc EXCEPT ![w] = at]
          /\ (pc[w] \in HasQueued) <=> (at \in HasQueued)
    BY <2>2, <2>3 DEF Waiting, HasQueued
  <2>5. PlansHeld' /\ Apart(pc, pc', w) /\ pc'[w] = at /\ pc' \in [Writers -> Locations]
    BY <1>1, <2>4, MovedTyped DEF Locations
  <2>6. pc[w] # "idle"
    BY <2>2 DEF Waiting
  <2>7. Kinds'
    BY <1>1, <1>4, <2>5, <2>6 DEF Typed, Kinds, Apart
  <2>8. Queued(Tail(queue), pc')
    BY <1>2, <2>2, <2>5, QueuedApart
  <2> QED
    BY <1>1, <2>5, <2>7, <2>8 DEF Typed
<1>6. CASE ~ \E w \in Writers : task = BarrierTask(w)
  <2>1. pc' = pc
    BY <1>1, <1>2, <1>3, <1>6, BarriersDiffer DEF Resumed, TaskOK
  <2>2. Kinds' /\ PlansHeld'
    BY <1>1, <1>4, <2>1 DEF Typed, Kinds, PlansHeld
  <2> QED
    BY <1>1, <1>2, <2>1, <2>2 DEF Typed
<1> QED
  BY <1>5, <1>6

\* A task queued again, or dropped, leaves a queue of tasks.
LEMMA RecorderFailsTyped ==
  ASSUME Typed, RecorderRequeues \/ RecorderDrops
  PROVE  Typed'
<1>1. /\ queue # <<>>
      /\ UNCHANGED <<tables, locks, unsettled, pc, offer, seen, anchor, plan, barriers,
                     headHolds, unconfirmed>>
  BY DEF RecorderRequeues, RecorderDrops, replay
<1>2. Queued(Tail(queue), pc) /\ TaskOK(Head(queue))
  BY <1>1, QueuedTail DEF Typed
<1>3. CASE RecorderRequeues
  <2>1. Head(queue).op # "barrier" /\ queue' = Append(Tail(queue), Head(queue))
    BY <1>3 DEF RecorderRequeues
  <2>2. \A w : Head(queue) # BarrierTask(w)
    BY <2>1, BarriersDiffer
  <2>3. Queued(queue', pc)
    BY <1>2, <2>1, <2>2, QueuedAppend
  <2> QED
    BY <1>1, <2>3 DEF Typed, Kinds, PlansHeld
<1>4. CASE RecorderDrops
  BY <1>1, <1>2, <1>4 DEF RecorderDrops, Typed, Kinds, PlansHeld
<1> QED
  BY <1>3, <1>4

\* A user queues a task like any other.
LEMMA UserAdjustsTyped ==
  ASSUME Typed, UserAdjusts
  PROVE  Typed'
<1>1. UNCHANGED <<tables, locks, unsettled, pc, offer, seen, anchor, plan, barriers,
                  headHolds, unconfirmed>>
  BY DEF UserAdjusts, replay
<1>2. PICK s \in Stats, h \in Hours, delta \in {-1, 1} :
        queue' = Append(queue, UserTask(s, h, delta))
  BY DEF UserAdjusts
<1>3. TaskOK(UserTask(s, h, delta)) /\ \A w : UserTask(s, h, delta) # BarrierTask(w)
  <2>1. h \in Int
    BY HoursAreNaturals
  <2> QED
    BY <2>1, BarriersDiffer DEF TaskOK, UserTask
<1>4. Queued(queue', pc)
  BY <1>2, <1>3, QueuedAppend DEF Typed
<1> QED
  BY <1>1, <1>4 DEF Typed, Kinds, PlansHeld

\* After a restart nothing is queued, and nobody waits.
LEMMA RestartTyped ==
  ASSUME Typed, Restart
  PROVE  Typed'
<1>1. Kinds'
  <2>1. /\ NoAnchor \in [Stats -> Anchor \cup {None}] /\ NoPlan \in [Stats -> Part \cup {None}]
        /\ 0 \in 0 .. (SettleBarriers + ConfirmBarriers) /\ "idle" \in Locations
    BY ReplayAssumption DEF NoAnchor, NoPlan, Locations
  <2>2. unconfirmed' \in [Stats -> SUBSET Hours]
    BY DEF Restart, Typed, Kinds, Given
  <2>3. /\ tables' \in [Stats -> Table] /\ locks' \in [Stats -> Writers \cup {None}]
        /\ unsettled' \subseteq Stats /\ pc' \in [Writers -> Locations]
        /\ \A v \in Writers : pc'[v] # "idle" => offer'[v] \in Offers
    BY <2>1 DEF Restart, Typed, Kinds
  <2>4. /\ offer' \in [Writers -> Offers \cup {NoOffer}]
        /\ seen' \in [Writers -> [Stats -> Table]]
        /\ anchor' \in [Writers -> [Stats -> Anchor \cup {None}]]
        /\ plan' \in [Writers -> [Stats -> Part \cup {None}]]
        /\ barriers' \in [Writers -> 0 .. (SettleBarriers + ConfirmBarriers)]
        /\ headHolds' \in [Writers -> BOOLEAN]
    BY <2>1, NothingOffered DEF Restart
  <2> QED
    BY <2>2, <2>3, <2>4 DEF Kinds
<1>2. PlansHeld'
  BY DEF Restart, PlansHeld, NoPlan, HasQueued
<1>3. Queued(queue', pc')
  BY EmptyIsSeq DEF Restart, Queued, Awaited
<1> QED
  BY <1>1, <1>2, <1>3 DEF Typed

\* Every step keeps the types.
LEMMA NextTyped ==
  ASSUME Typed, [Next]_vars
  PROVE  Typed'
<1>1. ASSUME NEW w \in Writers, Begin(w) \/ Step(w) \/ TimesOut(w) \/ Cancel(w)
      PROVE  Typed'
  <2>1. CASE Begin(w) \/ TimesOut(w) \/ Cancel(w)
    BY <2>1, BeginTyped, SettleTimesOutTyped, ConfirmTimesOutTyped, CancelTyped DEF TimesOut
  <2>2. CASE Step(w)
    BY <2>2, TakeLockTyped, SettleTyped, ReadNearTyped, ReadFarTyped, ReadOlderTyped,
       BuildAndQueueTyped, ReadHeadTyped, ReadTailHoldsTyped, ReadTailFailsTyped DEF Step
  <2> QED
    BY <1>1, <2>1, <2>2
<1>2. CASE RecorderRuns \/ RecorderRequeues \/ RecorderDrops \/ UserAdjusts \/ Restart
  BY <1>2, RecorderRunsTyped, RecorderFailsTyped, UserAdjustsTyped, RestartTyped
<1>3. CASE UNCHANGED vars
  BY <1>3 DEF vars, Typed, Kinds, PlansHeld
<1> QED
  BY <1>1, <1>2, <1>3 DEF Next

\* What is used of the bounds stays within them.
Bounded == \A bound \in DOMAIN Bounds : used[bound] \in 0 .. Bounds[bound]

\* A bound that is used is not exceeded.
LEMMA UseIsBounded ==
  ASSUME Counted, Bounded, NEW bound \in DOMAIN Bounds, Use(bound)
  PROVE  Bounded'
<1>1. DOMAIN Bounds' = DOMAIN Bounds /\ Bounds' = Bounds
  BY DEF Bounds
<1>2. used[bound] \in Nat /\ Bounds[bound] \in Nat /\ used[bound] < Bounds[bound]
  BY BoundsAssumption DEF Counted, Use
<1>3. \A b \in DOMAIN Bounds : used'[b] = IF b = bound THEN used[b] + 1 ELSE used[b]
  BY DEF Counted, Use
<1> QED
  BY <1>1, <1>2, <1>3 DEF Bounded

\* No step exceeds a bound.
LEMMA NextBounded ==
  ASSUME Counted, Bounded, [Next]_vars
  PROVE  Bounded'
<1>1. {"replays", "requeues", "drops", "timeouts", "cancels", "adjusts", "restarts"}
        \subseteq DOMAIN Bounds
  BY DEF Bounds
<1>2. CASE UNCHANGED used
  BY <1>2 DEF Bounded, Bounds
<1>3. CASE UNCHANGED vars
  BY <1>2, <1>3 DEF vars
<1>4. ASSUME NEW w \in Writers, Begin(w) \/ Step(w) \/ TimesOut(w) \/ Cancel(w)
      PROVE  Bounded'
  <2>1. CASE Begin(w) \/ Cancel(w)
    BY <1>1, <2>1, UseIsBounded DEF Begin, Cancel
  <2>2. CASE TimesOut(w)
    BY <1>1, <1>2, <2>2, UseIsBounded DEF TimesOut, SettleTimesOut, ConfirmTimesOut, RunsOutOfTime
  <2>3. CASE TakeLock(w) \/ Settle(w)
    BY <1>2, <2>3 DEF TakeLock, Settle
  <2>4. CASE ReadNear(w) \/ ReadFar(w) \/ ReadOlder(w) \/ BuildAndQueue(w)
    BY <1>2, <2>4 DEF ReadNear, ReadFar, ReadOlder, BuildAndQueue, Refuse
  <2>5. CASE ReadHead(w) \/ ReadTailHolds(w) \/ ReadTailFails(w)
    BY <1>2, <2>5 DEF ReadHead, ReadTailHolds, ReadTailFails
  <2> QED
    BY <1>4, <2>1, <2>2, <2>3, <2>4, <2>5 DEF Step
<1>5. CASE RecorderRuns
  BY <1>2, <1>5 DEF RecorderRuns
<1>6. CASE RecorderRequeues \/ RecorderDrops \/ UserAdjusts \/ Restart
  BY <1>1, <1>6, UseIsBounded DEF RecorderRequeues, RecorderDrops, UserAdjusts, Restart
<1> QED
  BY <1>3, <1>4, <1>5, <1>6 DEF Next

\* Every variable holds a value of its kind, whatever is lost, cancelled or
\* queued again: what a replay read, found and queued is there exactly where
\* async_replay holds it.
THEOREM TypeCorrect == Spec => []TypeOK
<1>1. Init => Typed /\ Counted /\ Bounded
  <2> SUFFICES ASSUME Init PROVE Counted /\ Bounded
    BY InitTyped
  <2> QED
    BY BoundsAssumption DEF Init, Counted, Bounded, Unused
<1>2. Typed /\ Counted /\ Bounded /\ [Next]_vars => Typed' /\ Counted' /\ Bounded'
  BY NextTyped, CountedStep, NextBounded
<1>3. Typed /\ Counted /\ Bounded => TypeOK
  <2> SUFFICES ASSUME Typed, Bounded PROVE TypeOK
    OBVIOUS
  <2>1. \A i \in DOMAIN queue : queue[i].op \in {"import", "adjust", "user", "barrier"}
    BY BarriersDiffer DEF Typed, Queued, TaskOK
  <2>2. offer \in [Writers -> Offered]
    BY NothingOffered DEF Typed, Kinds
  <2> QED
    BY <2>1, <2>2 DEF Typed, Kinds, PlansHeld, Bounded, TypeOK
<1> QED
  BY <1>1, <1>2, <1>3, PTL DEF Spec

-------------------------------------------------------------------------------
(***************************************************************************)
(* Running sums in stored tables: what building, importing and adjusting   *)
(* rows does to the joins between them.                                    *)
(***************************************************************************)

\* What the sums from an hour on continue.
BaseSum(table, hour) ==
  LET earlier == Before(table, hour)
  IN IF earlier = None THEN 0 ELSE table[earlier].sum

\* The sum that a row of some rows follows on from.
SumBefore(rows, base, hour) ==
  LET earlier == Newest({g \in Stored(rows) : g < hour})
  IN IF earlier = None THEN base ELSE rows[earlier].sum

\* The rows of a span, each following on from the one before it, or from a sum.
Chained(o, s, rows, base) ==
  /\ rows \in Table
  /\ First(o, s) \in Stored(rows) /\ Last(o, s) \in Stored(rows)
  /\ \A h \in Stored(rows) :
       /\ First(o, s) <= h /\ h <= Last(o, s)
       /\ rows[h].sum \in Int
       /\ rows[h].sum = rows[h].state + SumBefore(rows, base, h)

\* Every seam of a table lies at, or right after, one of some hours.
Excused(table, hours) ==
  \A h \in Seams(table) :
    \E g \in hours : g <= h /\ (Before(table, h) # None => Before(table, h) <= g)

\* The rows a replay builds are those of its span, chained from its predecessor.
LEMMA BuiltIsChained ==
  ASSUME NEW o \in Offered, NEW s \in Writes(o), NEW rows \in Table,
         NEW before \in Anchor \cup {None},
         NEW built, built = Built(o, s, rows, before).rows
  PROVE  /\ Chained(o, s, built, IF before = None THEN 0 ELSE before.sum)
         /\ \A h \in Stored(rows) : First(o, s) <= h /\ h <= Last(o, s) => h \in Stored(built)
<1>1. PICK states : states = SpanStates(o, s, rows)
  OBVIOUS
<1>2. PICK base : base = IF before = None THEN 0 ELSE before.sum
  OBVIOUS
<1>3. PICK sums : sums = RunningSums(states, base)
  OBVIOUS
<1>4. /\ states \in States
      /\ \A h \in Hours : states[h] # None => First(o, s) <= h /\ h <= Last(o, s)
      /\ \A h \in Given(o, s) : states[h] # None
      /\ \A h \in Stored(rows) : First(o, s) <= h /\ h <= Last(o, s) => states[h] # None
  BY <1>1, SpanStatesAre
<1>5. base \in Int
  BY <1>2 DEF Anchor
<1>6. sums \in [Hours -> Int]
  BY <1>3, <1>4, <1>5, RunningSumsAre
<1>7. built = [h \in Hours |-> IF states[h] = None THEN None
                               ELSE [state |-> states[h], sum |-> sums[h]]]
  BY <1>1, <1>2, <1>3 DEF Built
<1>8. \A h \in Hours : states[h] # None =>
        /\ [state |-> states[h], sum |-> sums[h]] \in Row
        /\ built[h] = [state |-> states[h], sum |-> sums[h]]
        /\ built[h] # None
        /\ built[h].state = states[h] /\ built[h].sum = sums[h]
  BY <1>4, <1>6, <1>7, NoneAssumption DEF States, Row
<1>9. built \in Table
  BY <1>7, <1>8 DEF Table
<1>10. Stored(built) = {h \in Hours : states[h] # None}
  BY <1>7, <1>8 DEF Stored
<1>11. First(o, s) \in Stored(built) /\ Last(o, s) \in Stored(built)
  BY <1>4, <1>10, SpanHours
<1>12. ASSUME NEW h \in Stored(built)
       PROVE  /\ built[h].sum \in Int
              /\ built[h].sum = built[h].state + SumBefore(built, base, h)
  <2>0. PICK earlier : earlier = Newest({g \in Stored(built) : g < h})
    OBVIOUS
  <2>1. h \in Hours /\ states[h] # None
    BY <1>10, <1>12
  <2>2. {g \in Stored(built) : g < h} = {g \in Hours : states[g] # None /\ g < h}
    BY <1>10
  <2>3. earlier = Newest({g \in Hours : states[g] # None /\ g < h})
    BY <2>0, <2>2
  <2>4. /\ sums[h] \in Int
        /\ sums[h] = states[h] + (IF earlier = None THEN base ELSE sums[earlier])
    BY <1>3, <1>4, <1>5, <2>1, <2>3, SumsFollowOn
  <2>5. earlier # None => earlier \in Stored(built)
    <3>1. {g \in Stored(built) : g < h} \subseteq Hours
      BY <1>10
    <3> QED
      BY <2>0, <3>1, NewestHour
  <2>6. earlier # None => built[earlier].sum = sums[earlier]
    BY <1>8, <1>10, <2>5
  <2>7. built[h].sum = sums[h] /\ built[h].state = states[h]
    BY <1>8, <2>1
  <2>8. SumBefore(built, base, h) = IF earlier = None THEN base ELSE sums[earlier]
    BY <2>0, <2>6 DEF SumBefore
  <2> QED
    BY <2>4, <2>7, <2>8
<1>13. \A h \in Stored(built) : First(o, s) <= h /\ h <= Last(o, s)
  BY <1>4, <1>10
<1>14. Chained(o, s, built, base)
  BY <1>9, <1>11, <1>12, <1>13 DEF Chained
<1>15. Stored(rows) \subseteq Hours
  BY TableRows
<1> QED
  BY <1>2, <1>4, <1>10, <1>14, <1>15

\* The row before an hour, and what its sums continue, depend on earlier rows alone.
LEMMA SameBefore ==
  ASSUME NEW t \in Table, NEW u \in Table, NEW hour,
         \A h \in Hours : h < hour => t[h] = u[h]
  PROVE  Before(t, hour) = Before(u, hour) /\ BaseSum(t, hour) = BaseSum(u, hour)
<1>1. {h \in Numeric(t) : h < hour} = {h \in Numeric(u) : h < hour}
  BY DEF Numeric, Stored
<1>2. Before(t, hour) = Before(u, hour)
  BY <1>1 DEF Before
<1>3. Before(t, hour) = None \/ (Before(t, hour) \in Hours /\ Before(t, hour) < hour)
  BY RowBefore, TableRows
<1> QED
  BY <1>2, <1>3 DEF BaseSum

\* A table that holds the chained rows of a span has no seam in it.
LEMMA SpanIsSeamless ==
  ASSUME NEW o, NEW s \in Writes(o), NEW t \in Table, NEW rows, NEW base,
         Chained(o, s, rows, base), base = BaseSum(t, First(o, s)),
         \A h \in First(o, s) .. Last(o, s) : t[h] = rows[h],
         NEW h \in Numeric(t), First(o, s) <= h, h <= Last(o, s)
  PROVE  FollowsOn(t, h)
<1>1. PICK first : first = First(o, s)
  OBVIOUS
<1>2. PICK last : last = Last(o, s)
  OBVIOUS
<1>3. first \in Hours /\ last \in Hours
  BY <1>1, <1>2, SpanHours
<1>4. h \in Hours /\ h \in Int /\ first \in Int /\ last \in Int
  BY <1>3, TableRows, HoursAreNaturals
<1>5. \A g \in Hours : first <= g /\ g <= last => t[g] = rows[g]
  BY <1>1, <1>2, <1>4, HoursAreNaturals
<1>6. h \in Stored(rows) /\ t[h] = rows[h]
  BY <1>1, <1>2, <1>4, <1>5 DEF Numeric, Stored
<1> DEFINE S == {g \in Stored(rows) : g < h}
<1>7. PICK earlier : earlier = Newest(S)
  OBVIOUS
<1>8. /\ rows \in Table /\ first \in Stored(rows)
      /\ \A g \in Stored(rows) : first <= g /\ g <= last /\ rows[g].sum \in Int /\ g \in Hours
      /\ rows[h].sum = rows[h].state + (IF earlier = None THEN base ELSE rows[earlier].sum)
  BY <1>1, <1>2, <1>6, <1>7, TableRows DEF Chained, SumBefore
<1>9. S \subseteq Hours
  BY <1>8
<1>10. CASE h = first
  <2>1. \A g \in Stored(rows) : g \in Int /\ ~ (g < h)
    BY <1>4, <1>8, <1>10, HoursAreNaturals
  <2>2. earlier = None
    BY <1>7, <1>9, <2>1, NewestHour
  <2> QED
    BY <1>1, <1>6, <1>8, <1>10, <2>2 DEF FollowsOn, BaseSum
<1>11. CASE h # first
  <2>1. first < h
    BY <1>1, <1>4, <1>11
  <2>2. earlier \in S /\ \A g \in S : g <= earlier
    BY <1>7, <1>8, <1>9, <2>1, NewestHour
  <2>3. earlier \in Hours /\ t[earlier] = rows[earlier] /\ first <= earlier /\ earlier < h
    BY <1>5, <1>8, <2>2
  <2>4. earlier \in Numeric(t)
    BY <1>8, <2>2, <2>3, NoneAssumption DEF Numeric, Stored
  <2>5. \A g \in Numeric(t) : g < h => g <= earlier
    <3> TAKE g \in Numeric(t)
    <3>1. g \in Hours /\ g \in Int /\ earlier \in Int /\ t[g] # None
      BY <2>3, TableRows, HoursAreNaturals DEF Numeric, Stored
    <3>2. CASE g < first
      BY <1>4, <2>3, <3>1, <3>2
    <3>3. CASE g >= first /\ g < h
      <4>1. g \in Stored(rows)
        BY <1>2, <1>4, <1>5, <3>1, <3>3 DEF Stored
      <4> QED
        BY <2>2, <3>3, <4>1
    <3> QED
      BY <1>4, <3>1, <3>2, <3>3
  <2>6. Before(t, h) = earlier
    <3>1. {g \in Numeric(t) : g < h} \subseteq Hours
      BY TableRows
    <3> QED
      BY <2>3, <2>4, <2>5, <3>1, NewestIs DEF Before
  <2>7. earlier # None
    BY <2>3, HoursAreNaturals, NoneAssumption
  <2> QED
    BY <1>6, <1>8, <2>3, <2>6, <2>7 DEF FollowsOn
<1> QED
  BY <1>10, <1>11

\* An import of a span's rows leaves the rows before and after the span alone.
LEMMA ImportKeeps ==
  ASSUME NEW o, NEW s \in Writes(o), NEW t \in Table, NEW rows, NEW base,
         Chained(o, s, rows, base), NEW u, u = Imported(t, rows)
  PROVE  /\ u \in Table
         /\ \A h \in Hours : h < First(o, s) \/ h > Last(o, s) => u[h] = t[h]
         /\ Before(u, First(o, s)) = Before(t, First(o, s))
         /\ BaseSum(u, First(o, s)) = BaseSum(t, First(o, s))
         /\ {h \in Numeric(u) : h > Last(o, s)} = {h \in Numeric(t) : h > Last(o, s)}
<1>1. rows \in Table /\ u \in Table
  BY TablesStayTables DEF Chained
<1>2. ASSUME NEW h \in Hours, h < First(o, s) \/ h > Last(o, s)
      PROVE  u[h] = t[h]
  <2>1. h \in Int /\ First(o, s) \in Int /\ Last(o, s) \in Int
    BY SpanHours, HoursAreNaturals
  <2>2. h \notin Stored(rows)
    BY <1>2, <2>1 DEF Chained
  <2>3. rows[h] = None
    BY <2>2 DEF Stored
  <2> QED
    BY <2>3 DEF Imported
<1>3. /\ Before(u, First(o, s)) = Before(t, First(o, s))
      /\ BaseSum(u, First(o, s)) = BaseSum(t, First(o, s))
  BY <1>1, <1>2, SameBefore
<1>4. {h \in Numeric(u) : h > Last(o, s)} = {h \in Numeric(t) : h > Last(o, s)}
  BY <1>2 DEF Numeric, Stored
<1> QED
  BY <1>1, <1>2, <1>3, <1>4

\* An import of a span's rows can leave a seam only right after the span, or
\* where one was.
LEMMA ImportIsExcused ==
  ASSUME NEW o, NEW s \in Writes(o), NEW t \in Table, NEW rows,
         Chained(o, s, rows, BaseSum(t, First(o, s))),
         NEW u, u = Imported(t, rows),
         \A h \in First(o, s) .. Last(o, s) : u[h] = rows[h],
         NEW hours, Excused(t, hours)
  PROVE  Excused(u, hours \cup Given(o, s))
<1>1. /\ u \in Table
      /\ \A h \in Hours : h < First(o, s) \/ h > Last(o, s) => u[h] = t[h]
      /\ BaseSum(u, First(o, s)) = BaseSum(t, First(o, s))
  BY ImportKeeps
<1>2. PICK first : first = First(o, s)
  OBVIOUS
<1>3. PICK last : last = Last(o, s)
  OBVIOUS
<1>4. first \in Hours /\ last \in Hours /\ last \in Given(o, s)
        /\ first \in Int /\ last \in Int /\ first <= last
  BY <1>2, <1>3, SpanHours, HoursAreNaturals
<1>5. \A h \in Hours : h < first \/ h > last => u[h] = t[h]
  BY <1>1, <1>2, <1>3
<1>6. last \in Numeric(u)
  <2>1. u[last] = rows[last]
    BY <1>2, <1>3, <1>4
  <2>2. rows[last] # None /\ rows[last].sum \in Int
    BY <1>3 DEF Chained, Stored
  <2> QED
    BY <1>4, <2>1, <2>2, NoneAssumption DEF Numeric, Stored
<1>7. SUFFICES ASSUME NEW h \in Seams(u)
               PROVE  \E g \in hours \cup Given(o, s) :
                        g <= h /\ (Before(u, h) # None => Before(u, h) <= g)
  BY DEF Excused
<1>8. h \in Numeric(u) /\ h \in Hours /\ h \in Int /\ ~ FollowsOn(u, h)
  BY <1>1, TableRows, HoursAreNaturals DEF Seams
<1>9. ASSUME h \in Numeric(t), Before(u, h) = Before(t, h), u[h] = t[h],
             Before(t, h) # None => u[Before(t, h)] = t[Before(t, h)]
      PROVE  \E g \in hours : g <= h /\ (Before(u, h) # None => Before(u, h) <= g)
  <2>1. ~ FollowsOn(t, h)
    BY <1>8, <1>9 DEF FollowsOn
  <2> QED
    BY <1>9, <2>1 DEF Excused, Seams
<1>10. CASE h < first
  <2>1. u[h] = t[h] /\ h \in Numeric(t)
    BY <1>5, <1>8, <1>10 DEF Numeric, Stored
  <2>2. \A g \in Hours : g < h => u[g] = t[g]
    BY <1>4, <1>5, <1>8, <1>10, HoursAreNaturals
  <2>3. Before(u, h) = Before(t, h)
    BY <1>1, <2>2, SameBefore
  <2>4. Before(t, h) # None => Before(t, h) \in Hours /\ Before(t, h) < h
    BY RowBefore, TableRows
  <2> QED
    BY <1>9, <2>1, <2>2, <2>3, <2>4
<1>11. CASE first <= h /\ h <= last
  <2>1. FollowsOn(u, h)
    <3>1. Chained(o, s, rows, BaseSum(u, First(o, s)))
      BY <1>1
    <3> QED
      BY <1>1, <1>2, <1>3, <1>8, <1>11, <3>1, SpanIsSeamless
  <2> QED
    BY <1>8, <2>1
<1>12. CASE h > last
  <2>1. PICK earlier : earlier = Before(u, h)
    OBVIOUS
  <2>2. /\ earlier \in Numeric(u) /\ earlier # None /\ earlier < h /\ last <= earlier
        /\ \A g \in Numeric(u) : g < h => g <= earlier
    BY <1>1, <1>6, <1>12, <2>1, RowBefore
  <2>3. earlier \in Hours /\ earlier \in Int
    BY <1>1, <2>2, TableRows, HoursAreNaturals
  <2>4. CASE earlier = last
    <3>1. last <= h /\ earlier <= last /\ last \in Given(o, s)
      BY <1>4, <1>8, <1>12, <2>4
    <3> QED
      BY <2>1, <3>1
  <2>5. CASE earlier # last
    <3>1. earlier > last
      BY <1>4, <2>2, <2>3, <2>5
    <3>2. /\ u[earlier] = t[earlier] /\ earlier \in Numeric(t)
          /\ u[h] = t[h] /\ h \in Numeric(t)
      BY <1>5, <1>8, <1>12, <2>2, <2>3, <3>1 DEF Numeric, Stored
    <3>3. \A g \in Numeric(t) : g < h => g <= earlier
      <4> TAKE g \in Numeric(t)
      <4>1. g \in Hours /\ g \in Int
        BY TableRows, HoursAreNaturals
      <4>2. CASE g > last
        <5>1. g \in Numeric(u)
          BY <1>5, <4>1, <4>2 DEF Numeric, Stored
        <5> QED
          BY <2>2, <5>1
      <4> QED
        BY <1>4, <2>3, <3>1, <4>1, <4>2
    <3>4. Before(t, h) = earlier
      <4>1. {g \in Numeric(t) : g < h} \subseteq Hours
        BY TableRows
      <4> QED
        BY <2>2, <3>2, <3>3, <4>1, NewestIs DEF Before
    <3> QED
      BY <1>9, <2>1, <3>2, <3>4
  <2> QED
    BY <2>4, <2>5
<1> QED
  BY <1>4, <1>8, <1>10, <1>11, <1>12

\* An adjustment shifts the running sums from an hour on, and no state.
LEMMA AdjustKeeps ==
  ASSUME NEW t \in Table, NEW from \in Int, NEW delta \in Int,
         NEW u, u = Adjusted(t, from, delta)
  PROVE  /\ u \in Table /\ Numeric(u) = Numeric(t)
         /\ \A h \in Hours : ~ (h >= from) => u[h] = t[h]
         /\ \A h \in Numeric(t) : /\ u[h].state = t[h].state
                                  /\ h >= from => u[h].sum = t[h].sum + delta
         /\ \A hour : Before(u, hour) = Before(t, hour)
<1>1. u \in Table
  BY TablesStayTables
<1>2. \A h \in Hours : ~ (h >= from) => u[h] = t[h]
  BY DEF Adjusted
<1>3. ASSUME NEW h \in Numeric(t)
      PROVE  /\ h \in Numeric(u) /\ u[h].state = t[h].state
             /\ h >= from => u[h].sum = t[h].sum + delta
  <2>1. h \in Hours /\ t[h] # None /\ t[h].sum # None /\ t[h] \in Row /\ t[h].sum \in Int
    BY <1>3, TableRows DEF Numeric, Stored
  <2>2. CASE h >= from
    <3>1. PICK new : new = [t[h] EXCEPT !.sum = @ + delta]
      OBVIOUS
    <3>2. u[h] = new
      BY <2>1, <2>2, <3>1 DEF Adjusted
    <3>3. new \in Row /\ new.state = t[h].state /\ new.sum = t[h].sum + delta /\ new.sum \in Int
      BY <2>1, <3>1 DEF Row
    <3> QED
      BY <2>1, <3>2, <3>3, NoneAssumption DEF Numeric, Stored
  <2>3. CASE ~ (h >= from)
    BY <1>2, <1>3, <2>1, <2>3 DEF Numeric, Stored
  <2> QED
    BY <2>2, <2>3
<1>4. Numeric(u) = Numeric(t)
  <2>1. ASSUME NEW h \in Numeric(u), h \notin Numeric(t)
        PROVE  FALSE
    <3>1. h \in Hours /\ u[h] # None /\ u[h].sum # None
      BY <1>1, <2>1, TableRows DEF Numeric, Stored
    <3>2. u[h] = t[h]
      BY <2>1, <3>1 DEF Adjusted, Numeric, Stored
    <3> QED
      BY <2>1, <3>1, <3>2 DEF Numeric, Stored
  <2> QED
    BY <1>3, <2>1
<1>5. \A hour : Before(u, hour) = Before(t, hour)
  BY <1>4 DEF Before
<1> QED
  BY <1>1, <1>2, <1>3, <1>4, <1>5

\* An adjustment can leave a seam only where it starts, or where one was.
LEMMA AdjustIsExcused ==
  ASSUME NEW t \in Table, NEW from \in Int, NEW delta \in Int,
         NEW u, u = Adjusted(t, from, delta),
         NEW hours, Excused(t, hours), from - 1 \in hours
  PROVE  Excused(u, hours)
<1>1. /\ u \in Table /\ Numeric(u) = Numeric(t)
      /\ \A h \in Hours : ~ (h >= from) => u[h] = t[h]
      /\ \A h \in Numeric(t) : /\ u[h].state = t[h].state
                               /\ h >= from => u[h].sum = t[h].sum + delta
      /\ \A hour : Before(u, hour) = Before(t, hour)
  BY AdjustKeeps
<1>2. SUFFICES ASSUME NEW h \in Seams(u)
               PROVE  \E g \in hours : g <= h /\ (Before(u, h) # None => Before(u, h) <= g)
  BY DEF Excused
<1>3. /\ h \in Numeric(t) /\ h \in Hours /\ h \in Int /\ ~ FollowsOn(u, h)
      /\ t[h].sum \in Int /\ t[h].state \in Int
  BY <1>1, TableRows, HoursAreNaturals DEF Seams, Row
<1>4. PICK earlier : earlier = Before(t, h)
  OBVIOUS
<1>5. Before(u, h) = earlier
  BY <1>1, <1>4
<1>6. earlier # None => /\ earlier \in Numeric(t) /\ earlier \in Hours /\ earlier \in Int
                        /\ earlier < h /\ t[earlier].sum \in Int
  BY <1>4, RowBefore, TableRows, HoursAreNaturals
<1>7. CASE FollowsOn(t, h)
  <2>1. h >= from
    <3>1. ASSUME ~ (h >= from)
          PROVE  FALSE
      <4>1. u[h] = t[h]
        BY <1>1, <1>3, <3>1
      <4>2. earlier # None => u[earlier] = t[earlier]
        BY <1>1, <1>3, <1>6, <3>1
      <4>3. FollowsOn(u, h)
        BY <1>4, <1>5, <1>7, <4>1, <4>2 DEF FollowsOn
      <4> QED
        BY <1>3, <4>3
    <3> QED
      BY <3>1
  <2>2. earlier # None => ~ (earlier >= from)
    <3>1. ASSUME earlier # None, earlier >= from
          PROVE  FALSE
      <4>1. /\ u[h].sum = t[h].sum + delta /\ u[h].state = t[h].state
            /\ u[earlier].sum = t[earlier].sum + delta
        BY <1>1, <1>3, <1>6, <2>1, <3>1
      <4>2. t[h].sum = t[h].state + t[earlier].sum
        BY <1>4, <1>7, <3>1 DEF FollowsOn
      <4>3. FollowsOn(u, h)
        BY <1>3, <1>5, <1>6, <3>1, <4>1, <4>2 DEF FollowsOn
      <4> QED
        BY <1>3, <4>3
    <3> QED
      BY <3>1
  <2>3. from - 1 <= h /\ (earlier # None => earlier <= from - 1)
    BY <1>3, <1>6, <2>1, <2>2
  <2> QED
    BY <1>5, <2>3
<1>8. CASE ~ FollowsOn(t, h)
  BY <1>3, <1>4, <1>5, <1>8 DEF Excused, Seams
<1> QED
  BY <1>7, <1>8

-------------------------------------------------------------------------------
(***************************************************************************)
(* What holds while no import is lost, no write is queued again and no     *)
(* user changes a running sum.  A reading replay's predecessors are the    *)
(* stored table's (Anchors).  The rows that a replay has queued continue   *)
(* that table, and fill its span once its import has run (Plans), which    *)
(* it does before any shift (Orders).  And every seam is, or will be, at   *)
(* an hour that some replay has written and not confirmed (Excuses).       *)
(***************************************************************************)
LosesNoImport == ~ (RecorderDrops /\ Head(queue).op = "import")

\* The recorder runs every import where it was queued, and no user changes a sum.
Reliable == []Undisturbed /\ [][LosesNoImport]_vars

\* The hours replayed and not confirmed, of replays that have ended or have not.
Unsure(s) ==
  unconfirmed[s] \cup UNION {Given(offer[w], s) : w \in {v \in Writers : pc[v] \in HasQueued}}

\* Whether an import has still to run for a statistic.
ImportQueued(s) == \E i \in QueuedFor(s) : queue[i].op = "import"

\* A statistic's table with a replay's import, where that has still to run.
WithImport(w, s) ==
  IF ImportQueued(s) THEN Imported(tables[s], plan[w][s].rows) ELSE tables[s]

\* What a replay has found, or not found, of a statistic's predecessor.
AnchorFor(w, s) ==
  /\ anchor[w][s] # None => anchor[w][s] = Predecessor(offer[w], s, tables[s])
  /\ pc[w] = "far" => anchor[w][s] = Predecessor(offer[w], s, seen[w][s])
  /\ pc[w] = "older" /\ anchor[w][s] = None =>
       /\ s \in Searched(w)
       /\ \A h \in Numeric(tables[s]) :
            h < First(offer[w], s) => h < FarFrom(offer[w], Searched(w))
  /\ pc[w] = "build" => anchor[w][s] = Predecessor(offer[w], s, tables[s])

\* What a replay has queued for a statistic, and what its table will hold.
PlanFor(w, s) ==
  /\ Chained(offer[w], s, plan[w][s].rows, BaseSum(tables[s], First(offer[w], s)))
  /\ plan[w][s].following = Oldest({h \in Numeric(tables[s]) : h > Last(offer[w], s)})
  /\ \A i \in QueuedFor(s) :
       IF queue[i].op = "import" THEN queue[i].rows = plan[w][s].rows
       ELSE queue[i].from = Last(offer[w], s) + 1
  /\ \A h \in First(offer[w], s) .. Last(offer[w], s) :
       WithImport(w, s)[h] = plan[w][s].rows[h]

\* An import is queued before every other write of its statistic.
OrderFor(s) == \A i, j \in QueuedFor(s) : queue[i].op = "import" /\ j # i => i < j

\* Each seam is, and after an import or a shift will be, at an unsure hour.
ExcuseFor(s) ==
  /\ Excused(tables[s], Unsure(s))
  /\ \A i \in QueuedFor(s) :
       IF queue[i].op = "import"
       THEN Excused(Imported(tables[s], queue[i].rows), Unsure(s))
       ELSE queue[i].from - 1 \in Unsure(s)

\* Each of them, of every replay and every statistic.
Anchors == \A w \in Writers : pc[w] \in HasRead => \A s \in Writes(offer[w]) : AnchorFor(w, s)
Plans == \A w \in Writers : pc[w] \in HasQueued => \A s \in Writes(offer[w]) : PlanFor(w, s)
Orders == \A s \in Stats : OrderFor(s)
Excuses == \A s \in Stats : ExcuseFor(s)

\* The writes queued for a statistic have moved up by some places, and of those
\* gone none is an import.
Moved(s, k) ==
  /\ QueuedFor(s) \subseteq Int /\ QueuedFor(s)' \subseteq Int
  /\ \A i \in QueuedFor(s)' : i + k \in QueuedFor(s) /\ queue'[i] = queue[i + k]
  /\ \A j \in QueuedFor(s) : queue[j].op = "import" => j - k \in QueuedFor(s)'

\* More hours excuse no less.
LEMMA ExcusedGrows ==
  ASSUME NEW t, NEW hours, NEW more, Excused(t, hours), hours \subseteq more
  PROVE  Excused(t, more)
  BY DEF Excused

\* What holds of a statistic still does when its writes have only moved.
LEMMA StatKeeps ==
  ASSUME NEW s \in Stats, NEW k \in {0, 1}, Moved(s, k), tables'[s] = tables[s]
  PROVE  /\ ImportQueued(s)' = ImportQueued(s)
         /\ OrderFor(s) => OrderFor(s)'
         /\ \A w \in Writers : /\ PlanFor(w, s)
                               /\ offer'[w] = offer[w] /\ plan'[w] = plan[w]
                               => PlanFor(w, s)'
         /\ ExcuseFor(s) /\ Unsure(s) \subseteq Unsure(s)' => ExcuseFor(s)'
<1>1. /\ \A i \in QueuedFor(s)' : i \in Int /\ i + k \in QueuedFor(s) /\ queue'[i] = queue[i + k]
      /\ \A j \in QueuedFor(s) : j \in Int /\ (queue[j].op = "import" => j - k \in QueuedFor(s)')
  BY DEF Moved
<1>2. ImportQueued(s)' = ImportQueued(s)
  <2>1. ASSUME NEW i \in QueuedFor(s)', queue'[i].op = "import"
        PROVE  ImportQueued(s)
    BY <1>1, <2>1 DEF ImportQueued
  <2>2. ASSUME NEW j \in QueuedFor(s), queue[j].op = "import"
        PROVE  ImportQueued(s)'
    <3>1. j - k \in QueuedFor(s)' /\ (j - k) + k = j
      BY <1>1, <2>2
    <3>2. queue'[j - k] = queue[j]
      BY <1>1, <3>1
    <3> QED
      BY <2>2, <3>1, <3>2 DEF ImportQueued
  <2> QED
    BY <2>1, <2>2 DEF ImportQueued
<1>3. ASSUME OrderFor(s)
      PROVE  OrderFor(s)'
  <2>1. ASSUME NEW i \in QueuedFor(s)', NEW j \in QueuedFor(s)',
               queue'[i].op = "import", j # i
        PROVE  i < j
    <3>1. /\ i + k \in QueuedFor(s) /\ j + k \in QueuedFor(s) /\ j + k # i + k
          /\ queue[i + k].op = "import" /\ i \in Int /\ j \in Int
      BY <1>1, <2>1
    <3>2. i + k < j + k
      BY <1>3, <3>1 DEF OrderFor
    <3> QED
      BY <3>1, <3>2
  <2> QED
    BY <2>1 DEF OrderFor
<1>4. ASSUME NEW w \in Writers, PlanFor(w, s), offer'[w] = offer[w], plan'[w] = plan[w]
      PROVE  PlanFor(w, s)'
  <2>1. WithImport(w, s)' = WithImport(w, s)
    BY <1>2, <1>4 DEF WithImport
  <2>2. \A i \in QueuedFor(s)' :
          IF queue'[i].op = "import" THEN queue'[i].rows = plan[w][s].rows
          ELSE queue'[i].from = Last(offer[w], s) + 1
    BY <1>1, <1>4 DEF PlanFor
  <2> QED
    BY <1>4, <2>1, <2>2 DEF PlanFor
<1>5. ASSUME ExcuseFor(s), Unsure(s) \subseteq Unsure(s)'
      PROVE  ExcuseFor(s)'
  <2>1. Excused(tables[s], Unsure(s)')
    BY <1>5, ExcusedGrows DEF ExcuseFor
  <2>2. ASSUME NEW i \in QueuedFor(s)'
        PROVE  IF queue'[i].op = "import"
               THEN Excused(Imported(tables[s], queue'[i].rows), Unsure(s)')
               ELSE queue'[i].from - 1 \in Unsure(s)'
    <3>1. i + k \in QueuedFor(s) /\ queue'[i] = queue[i + k]
      BY <1>1
    <3>2. CASE queue'[i].op = "import"
      <4>1. Excused(Imported(tables[s], queue'[i].rows), Unsure(s))
        BY <1>5, <3>1, <3>2 DEF ExcuseFor
      <4>2. Excused(Imported(tables[s], queue'[i].rows), Unsure(s)')
        BY <1>5, <4>1, ExcusedGrows
      <4> QED
        BY <3>2, <4>2
    <3>3. CASE queue'[i].op # "import"
      <4>1. queue'[i].from - 1 \in Unsure(s)
        BY <1>5, <3>1, <3>3 DEF ExcuseFor
      <4> QED
        BY <1>5, <3>3, <4>1
    <3> QED
      BY <3>2, <3>3
  <2> QED
    BY <2>1, <2>2 DEF ExcuseFor
<1> QED
  BY <1>2, <1>3, <1>4, <1>5

\* What a writer's step changes of no other writer.
Alone(w) ==
  \A v \in Writers \ {w} :
    /\ pc'[v] = pc[v] /\ offer'[v] = offer[v] /\ plan'[v] = plan[v]
    /\ seen'[v] = seen[v] /\ anchor'[v] = anchor[v]

\* A step of a writer that changes no table and queues no write.
Quiet(w) ==
  /\ tables' = tables
  /\ \A s \in Stats : Moved(s, 0)
  /\ Alone(w)
  /\ pc'[w] \in HasQueued =>
       pc[w] \in HasQueued /\ offer'[w] = offer[w] /\ plan'[w] = plan[w]

\* A step that keeps, or hands on, the unconfirmed hours of its writer.
HandsOn(w) ==
  /\ \A s \in Stats : unconfirmed[s] \subseteq unconfirmed'[s]
  /\ pc[w] \in HasQueued /\ pc'[w] \notin HasQueued =>
       \A s \in Stats : Given(offer[w], s) \subseteq unconfirmed'[s]

\* The statistics of a replay are statistics.
LEMMA WritesAreStats == \A o : Writes(o) \subseteq Stats
  BY DEF Writes

\* Where a queue changes by its barriers alone, every write stays where it is.
LEMMA SweptStays ==
  ASSUME NEW w \in Writers, NEW q, Swept(q, w),
         queue' = q \/ queue' = Append(q, BarrierTask(w))
  PROVE  \A s \in Stats : Moved(s, 0)
<1> DEFINE n == Len(queue)
<1>1. /\ n \in Nat /\ n + 1 \notin 1 .. n /\ DOMAIN queue = 1 .. n
      /\ \A i \in 1 .. n : queue'[i] = q[i]
      /\ \/ DOMAIN queue' = 1 .. n
         \/ DOMAIN queue' = 1 .. (n + 1) /\ queue'[n + 1] = BarrierTask(w)
  <2>1. IsSeq(q) /\ n = Len(q) /\ DOMAIN q = 1 .. n /\ DOMAIN queue = 1 .. n
    BY DEF Swept
  <2>2. n \in Nat
    BY <2>1 DEF IsSeq
  <2>3. /\ DOMAIN Append(q, BarrierTask(w)) = 1 .. (n + 1)
        /\ \A i \in 1 .. n : Append(q, BarrierTask(w))[i] = q[i]
        /\ Append(q, BarrierTask(w))[n + 1] = BarrierTask(w)
    BY <2>1, AppendTask
  <2> QED
    BY <2>1, <2>2, <2>3
<1>2. ASSUME NEW s \in Stats
      PROVE  Moved(s, 0)
  <2>1. \A i \in 1 .. n : IsWrite(queue[i], s) => queue'[i] = queue[i]
    BY <1>1, BarriersDiffer DEF Swept
  <2>2. \A i \in 1 .. n : IsWrite(queue'[i], s) => queue'[i] = queue[i]
    BY <1>1, BarriersDiffer DEF Swept
  <2>3. \A i \in DOMAIN queue' : IsWrite(queue'[i], s) => i \in 1 .. n
    BY <1>1, BarriersDiffer
  <2>4. /\ QueuedFor(s)' = QueuedFor(s)
        /\ \A i \in QueuedFor(s) : queue'[i] = queue[i] /\ i \in Int
    BY <1>1, <2>1, <2>2, <2>3 DEF QueuedFor
  <2>5. \A i \in QueuedFor(s) : i + 0 = i /\ i - 0 = i
    BY <2>4
  <2> QED
    BY <2>4, <2>5 DEF Moved
<1> QED
  BY <1>2

\* Hours that are unsure stay so, but for those that a replay confirms.
LEMMA UnsureGrows ==
  ASSUME NEW w \in Writers, Alone(w), HandsOn(w),
         pc'[w] \in HasQueued /\ pc[w] \in HasQueued => offer'[w] = offer[w]
  PROVE  \A s \in Stats : Unsure(s) \subseteq Unsure(s)'
<1> SUFFICES ASSUME NEW s \in Stats, NEW g \in Unsure(s)
             PROVE  g \in Unsure(s)'
  OBVIOUS
<1>1. CASE g \in unconfirmed[s]
  BY <1>1 DEF Unsure, HandsOn
<1>2. CASE \E v \in Writers : pc[v] \in HasQueued /\ g \in Given(offer[v], s)
  <2>1. PICK v \in Writers : pc[v] \in HasQueued /\ g \in Given(offer[v], s)
    BY <1>2
  <2>2. CASE pc'[v] \in HasQueued /\ offer'[v] = offer[v]
    BY <2>1, <2>2 DEF Unsure
  <2>3. CASE v = w /\ pc'[w] \notin HasQueued
    BY <2>1, <2>3 DEF Unsure, HandsOn
  <2> QED
    BY <2>1, <2>2, <2>3 DEF Alone
<1> QED
  BY <1>1, <1>2 DEF Unsure

\* A quiet step keeps what holds of the other writers, and of queued writes.
LEMMA QuietKeeps ==
  ASSUME Anchors, Plans, Orders, NEW w \in Writers, Quiet(w),
         pc'[w] \in HasRead => \A s \in Writes(offer'[w]) : AnchorFor(w, s)'
  PROVE  /\ Anchors' /\ Plans' /\ Orders'
         /\ Excuses /\ (\A s \in Stats : Unsure(s) \subseteq Unsure(s)') => Excuses'
<1>1. Anchors'
  <2>1. ASSUME NEW v \in Writers, v # w, pc'[v] \in HasRead, NEW s \in Writes(offer'[v])
        PROVE  AnchorFor(v, s)'
    <3>1. /\ pc'[v] = pc[v] /\ offer'[v] = offer[v] /\ seen'[v] = seen[v]
          /\ anchor'[v] = anchor[v] /\ tables' = tables
      BY <2>1 DEF Quiet, Alone
    <3>2. AnchorFor(v, s)
      BY <2>1, <3>1 DEF Anchors
    <3>3. Searched(v)' = Searched(v)
      BY <3>1 DEF Searched
    <3> QED
      BY <3>1, <3>2, <3>3 DEF AnchorFor
  <2> QED
    BY <2>1 DEF Anchors
<1>2. \A s \in Stats : Moved(s, 0) /\ tables'[s] = tables[s]
  BY DEF Quiet
<1>3. Plans'
  <2>1. ASSUME NEW v \in Writers, pc'[v] \in HasQueued, NEW s \in Writes(offer'[v])
        PROVE  PlanFor(v, s)'
    <3>1. pc[v] \in HasQueued /\ offer'[v] = offer[v] /\ plan'[v] = plan[v]
      BY <2>1 DEF Quiet, Alone
    <3>2. PlanFor(v, s) /\ s \in Stats
      BY <2>1, <3>1, WritesAreStats DEF Plans
    <3> QED
      BY <1>2, <3>1, <3>2, StatKeeps
  <2> QED
    BY <2>1 DEF Plans
<1>4. Orders'
  BY <1>2, StatKeeps DEF Orders
<1>5. Excuses /\ (\A s \in Stats : Unsure(s) \subseteq Unsure(s)') => Excuses'
  BY <1>2, StatKeeps DEF Excuses
<1> QED
  BY <1>1, <1>3, <1>4, <1>5

\* The joins of what is being replayed.
Joined == Anchors /\ Plans /\ Orders

\* A replay that ends without having read or queued anything more.
LEMMA IdleJoined ==
  ASSUME Typed, Joined, NEW w \in Writers, Idle(w), tables' = tables,
         NEW q, Swept(q, w), queue' = q
  PROVE  /\ Joined' /\ Alone(w) /\ pc'[w] = "idle"
         /\ Excuses /\ HandsOn(w) => Excuses'
<1>1. Alone(w) /\ pc'[w] = "idle" /\ "idle" \notin HasQueued /\ "idle" \notin HasRead
  BY DEF Typed, Kinds, Idle, Alone, HasQueued, HasRead
<1>2. Quiet(w)
  BY <1>1, SweptStays DEF Quiet
<1>3. Joined' /\ (Excuses /\ (\A s \in Stats : Unsure(s) \subseteq Unsure(s)') => Excuses')
  BY <1>1, <1>2, QuietKeeps DEF Joined
<1>4. HandsOn(w) => \A s \in Stats : Unsure(s) \subseteq Unsure(s)'
  BY <1>1, UnsureGrows
<1> QED
  BY <1>1, <1>3, <1>4

\* A replay that goes on without reading rows or queueing writes.
LEMMA MovedJoined ==
  ASSUME Typed, Joined, NEW w \in Writers, NEW at,
         pc' = [pc EXCEPT ![w] = at], at \notin HasRead, at \in HasQueued <=> pc[w] \in HasQueued,
         UNCHANGED <<tables, seen, anchor, plan, unconfirmed>>,
         \/ offer' = offer
         \/ at \notin HasQueued /\ \A v \in Writers \ {w} : offer'[v] = offer[v],
         NEW q, Swept(q, w), queue' = q \/ queue' = Append(q, BarrierTask(w))
  PROVE  Joined' /\ (Excuses => Excuses')
<1>1. Alone(w) /\ pc'[w] = at
  BY DEF Typed, Kinds, Alone
<1>2. Quiet(w)
  <2>1. \A s \in Stats : Moved(s, 0)
    BY SweptStays
  <2> QED
    BY <1>1, <2>1 DEF Quiet
<1>3. Joined' /\ (Excuses /\ (\A s \in Stats : Unsure(s) \subseteq Unsure(s)') => Excuses')
  BY <1>1, <1>2, QuietKeeps DEF Joined
<1>4. HandsOn(w)
  BY <1>1 DEF HandsOn
<1>5. \A s \in Stats : Unsure(s) \subseteq Unsure(s)'
  BY <1>1, <1>4, UnsureGrows
<1> QED
  BY <1>3, <1>5

\* A replay that begins.
LEMMA BeginJoined ==
  ASSUME IInv, Typed, Joined, NEW w \in Writers, Begin(w)
  PROVE  Joined' /\ (Excuses => Excuses')
<1>1. /\ pc[w] = "idle" /\ pc' = [pc EXCEPT ![w] = "lock"]
      /\ UNCHANGED <<tables, queue, seen, anchor, plan, unconfirmed>>
      /\ \A v \in Writers \ {w} : offer'[v] = offer[v]
  BY DEF Begin, Typed, Kinds
<1>2. Swept(queue, w)
  BY <1>1, QueueIsSwept DEF Waiting
<1> QED
  BY <1>1, <1>2, MovedJoined DEF HasRead, HasQueued

\* A replay that takes a lock.
LEMMA TakeLockJoined ==
  ASSUME IInv, Typed, Joined, NEW w \in Writers, TakeLock(w)
  PROVE  Joined' /\ (Excuses => Excuses')
<1>1. /\ pc[w] = "lock"
      /\ UNCHANGED <<tables, offer, seen, anchor, plan, unconfirmed>>
  BY DEF TakeLock
<1>2. Swept(queue, w)
  BY <1>1, QueueIsSwept DEF Waiting
<1>3. \/ pc' = [pc EXCEPT ![w] = "read"] /\ queue' = queue
      \/ pc' = [pc EXCEPT ![w] = "settle"] /\ queue' = Append(queue, BarrierTask(w))
      \/ pc' = [pc EXCEPT ![w] = "lock"] /\ queue' = queue
  BY <1>1 DEF TakeLock, Typed, Kinds
<1> QED
  BY <1>1, <1>2, <1>3, MovedJoined DEF HasRead, HasQueued

\* A replay that waits for another settle barrier, or has waited for all.
LEMMA SettleJoined ==
  ASSUME IInv, Typed, Joined, NEW w \in Writers, Settle(w)
  PROVE  Joined' /\ (Excuses => Excuses')
<1>1. /\ pc[w] = "settled"
      /\ UNCHANGED <<tables, offer, seen, anchor, plan, unconfirmed>>
  BY DEF Settle
<1>2. Swept(queue, w)
  BY <1>1, QueueIsSwept DEF Waiting
<1>3. \/ pc' = [pc EXCEPT ![w] = "read"] /\ queue' = queue
      \/ pc' = [pc EXCEPT ![w] = "settle"] /\ queue' = Append(queue, BarrierTask(w))
  BY <1>1 DEF Settle
<1> QED
  BY <1>1, <1>2, <1>3, MovedJoined DEF HasRead, HasQueued

\* A replay whose settle barrier timed out.
LEMMA SettleTimesOutJoined ==
  ASSUME IInv, Typed, Joined, NEW w \in Writers, SettleTimesOut(w)
  PROVE  Joined' /\ (Excuses => Excuses')
<1>1. /\ pc[w] = "settle" /\ queue' = Forsaken(w) /\ Idle(w)
      /\ UNCHANGED <<tables, unconfirmed>>
  BY DEF SettleTimesOut
<1>2. Swept(Forsaken(w), w)
  BY QueueIsSwept
<1>3. HandsOn(w)
  BY <1>1 DEF HandsOn, HasQueued
<1> QED
  BY <1>1, <1>2, <1>3, IdleJoined

\* A replay that finds nothing to continue from.
LEMMA RefuseJoined ==
  ASSUME IInv, Typed, Joined, NEW w \in Writers, pc[w] \in HasRead, Refuse(w)
  PROVE  Joined' /\ (Excuses => Excuses')
<1>1. UNCHANGED <<tables, queue, unconfirmed>> /\ Idle(w)
  BY DEF Refuse
<1>2. Swept(queue, w)
  BY QueueIsSwept DEF HasRead, Waiting
<1>3. HandsOn(w)
  BY <1>1 DEF HandsOn, HasQueued, HasRead
<1> QED
  BY <1>1, <1>2, <1>3, IdleJoined

\* A replay whose joins did not hold, or could not be read back yet.
LEMMA NextBarrierJoined ==
  ASSUME Typed, Joined, NEW w \in Writers, pc[w] \in HasQueued, tables' = tables,
         NEW q, Swept(q, w), NextBarrier(w, q)
  PROVE  Joined' /\ (Excuses => Excuses')
<1>1. CASE barriers[w] < ConfirmBarriers
  <2>1. /\ queue' = Append(q, BarrierTask(w))
        /\ pc' = [pc EXCEPT ![w] = "confirm"]
        /\ UNCHANGED <<offer, seen, anchor, plan, unconfirmed>>
    BY <1>1 DEF NextBarrier
  <2> QED
    BY <2>1, MovedJoined DEF HasRead, HasQueued
<1>2. CASE ~ (barriers[w] < ConfirmBarriers)
  <2>1. queue' = q /\ unconfirmed' = Unconfirmed(w) /\ Idle(w)
    BY <1>2 DEF NextBarrier
  <2>2. HandsOn(w)
    BY <2>1 DEF HandsOn, Unconfirmed
  <2> QED
    BY <2>1, <2>2, IdleJoined
<1> QED
  BY <1>1, <1>2

\* A replay whose confirmation barrier timed out, or whose tail did not hold.
LEMMA ConfirmTimesOutJoined ==
  ASSUME IInv, Typed, Joined, NEW w \in Writers, ConfirmTimesOut(w)
  PROVE  Joined' /\ (Excuses => Excuses')
<1>1. pc[w] = "confirm" /\ tables' = tables /\ NextBarrier(w, Forsaken(w))
  BY DEF ConfirmTimesOut
<1>2. Swept(Forsaken(w), w)
  BY QueueIsSwept
<1> QED
  BY <1>1, <1>2, NextBarrierJoined DEF HasQueued

\* A replay whose joins do not hold.
LEMMA ReadTailFailsJoined ==
  ASSUME IInv, Typed, Joined, NEW w \in Writers, ReadTailFails(w)
  PROVE  Joined' /\ (Excuses => Excuses')
<1>1. pc[w] = "tail" /\ tables' = tables /\ NextBarrier(w, queue)
  BY DEF ReadTailFails
<1>2. Swept(queue, w)
  BY <1>1, QueueIsSwept DEF Waiting
<1> QED
  BY <1>1, <1>2, NextBarrierJoined DEF HasQueued

\* A replay that reads back where its spans start.
LEMMA ReadHeadJoined ==
  ASSUME IInv, Typed, Joined, NEW w \in Writers, ReadHead(w)
  PROVE  Joined' /\ (Excuses => Excuses')
<1>1. /\ pc[w] = "confirmed" /\ pc' = [pc EXCEPT ![w] = "tail"]
      /\ UNCHANGED <<tables, queue, offer, seen, anchor, plan, unconfirmed>>
  BY DEF ReadHead
<1>2. Swept(queue, w)
  BY <1>1, QueueIsSwept DEF Waiting
<1> QED
  BY <1>1, <1>2, MovedJoined DEF HasRead, HasQueued

\* A replay that is cancelled, wherever it awaits.
LEMMA CancelJoined ==
  ASSUME IInv, Typed, Joined, NEW w \in Writers, Cancel(w)
  PROVE  Joined' /\ (Excuses => Excuses')
<1>1. /\ queue' = Forsaken(w) /\ Idle(w) /\ tables' = tables
      /\ unconfirmed' = IF pc[w] \in HasQueued THEN Unconfirmed(w) ELSE unconfirmed
  BY DEF Cancel
<1>2. Swept(Forsaken(w), w)
  BY QueueIsSwept
<1>3. HandsOn(w)
  BY <1>1 DEF HandsOn, Unconfirmed
<1> QED
  BY <1>1, <1>2, <1>3, IdleJoined

-------------------------------------------------------------------------------
(***************************************************************************)
(* What the three reads of a replay find.                                  *)
(***************************************************************************)

\* No hour of a table lies after the last.
LEMMA HoursEnd ==
  ASSUME NEW t \in Table
  PROVE  \A h \in Numeric(t) : h < LastHour + 1
<1> TAKE h \in Numeric(t)
<1>1. h \in Hours
  BY TableRows
<1> QED
  BY <1>1, LastHourAssumption DEF Hours

\* Where a read starts is a number, before the spans it is for.
LEMMA ReadsStart ==
  ASSUME NEW o, NEW S, S \subseteq Writes(o), NEW s \in S
  PROVE  FarFrom(o, S) \in Int /\ ReadFrom(o) \in Int /\ ReadFrom(o) <= First(o, s)
<1>1. ASSUME NEW T, T \subseteq Writes(o), s \in T
      PROVE  /\ Min({First(o, r) : r \in T}) \in Int
             /\ Min({First(o, r) : r \in T}) <= First(o, s)
  <2> DEFINE F == {First(o, r) : r \in T}
  <2>1. F \subseteq Nat /\ First(o, s) \in F
    BY <1>1, SpanHours, HoursAreNaturals
  <2> HIDE DEF F
  <2>2. \E n \in F : \A m \in F : n <= m
    BY <2>1, LeastNatural
  <2>3. Min(F) \in F /\ \A m \in F : Min(F) <= m
    BY <2>2 DEF Min
  <2> QED
    BY <2>1, <2>3 DEF F
<1>2. s \in Writes(o)
  OBVIOUS
<1>3. Near \in Int /\ Far \in Int /\ 0 <= Near /\ First(o, s) \in Int
  <2>1. Near \in Nat /\ Far \in Nat
    BY ReplayAssumption
  <2>2. First(o, s) \in Hours
    BY <1>2, SpanHours
  <2>3. First(o, s) \in Nat
    BY <2>2, HoursAreNaturals
  <2> QED
    BY <2>1, <2>3
<1>4. FarFrom(o, S) \in Int
  BY <1>1, <1>3 DEF FarFrom
<1>5. ReadFrom(o) \in Int /\ ReadFrom(o) <= First(o, s)
  BY <1>1, <1>2, <1>3 DEF ReadFrom
<1> QED
  BY <1>4, <1>5

\* A read that ends no earlier than the rows before a span finds the newest, or
\* none of the hours it covers has one.
LEMMA ReadFinds ==
  ASSUME NEW t \in Table, NEW o, NEW s \in Writes(o), NEW from \in Int, NEW until,
         \A h \in Numeric(t) : h < First(o, s) => h < until,
         NEW read, read = Read(t, from, until)
  PROVE  /\ Predecessor(o, s, read) # None => Predecessor(o, s, read) = Predecessor(o, s, t)
         /\ Predecessor(o, s, read) = None =>
              \A h \in Numeric(t) : h < First(o, s) => h < from
<1>1. PICK first : first = First(o, s)
  OBVIOUS
<1>2. /\ read \in Table
      /\ Numeric(read) = {h \in Numeric(t) : from <= h /\ h < until}
      /\ \A h \in Numeric(read) : read[h] = t[h]
  BY ReadRows
<1>3. \A h \in Numeric(t) : h < first /\ ~ (h < from) => h \in Numeric(read)
  <2> TAKE h \in Numeric(t)
  <2>1. h \in Int
    BY TableRows, HoursAreNaturals
  <2> QED
    BY <1>1, <1>2, <2>1
<1>4. PICK earlier : earlier = Before(read, first)
  OBVIOUS
<1>5. CASE earlier = None
  <2>1. \A h \in Numeric(read) : ~ (h < first)
    BY <1>2, <1>4, <1>5, RowBefore
  <2>2. \A h \in Numeric(t) : h < first => h < from
    BY <1>3, <2>1
  <2>3. Predecessor(o, s, read) = None
    BY <1>1, <1>4, <1>5 DEF Predecessor
  <2> QED
    BY <1>1, <2>2, <2>3
<1>6. CASE earlier # None
  <2>1. /\ earlier \in Numeric(read) /\ earlier < first
        /\ \A h \in Numeric(read) : h < first => h <= earlier
    BY <1>2, <1>4, <1>6, RowBefore
  <2>2. earlier \in Numeric(t) /\ earlier \in Int /\ from <= earlier
    BY <1>2, <2>1, TableRows, HoursAreNaturals
  <2>3. \A h \in Numeric(t) : h < first => h <= earlier
    <3> TAKE h \in Numeric(t)
    <3>1. h \in Int
      BY TableRows, HoursAreNaturals
    <3> QED
      BY <1>3, <2>1, <2>2, <3>1
  <2>4. Before(t, first) = earlier
    <3>1. {h \in Numeric(t) : h < first} \subseteq Hours
      BY TableRows
    <3> QED
      BY <2>1, <2>2, <2>3, <3>1, NewestIs DEF Before
  <2>5. read[earlier] = t[earlier]
    BY <1>2, <2>1
  <2>6. Predecessor(o, s, read) = Predecessor(o, s, t)
    BY <1>1, <1>4, <2>4, <2>5 DEF Predecessor
  <2>7. Predecessor(o, s, read) # None
    BY <1>1, <1>2, <1>4, <1>6, PredecessorIs DEF Predecessor
  <2> QED
    BY <2>6, <2>7
<1> QED
  BY <1>5, <1>6

\* What a replay reads of the table from its first hour on is what is stored.
LEMMA SeenIsStored ==
  ASSUME NEW t \in Table, NEW o, NEW s \in Writes(o),
         NEW read, read = Read(t, ReadFrom(o), LastHour + 1)
  PROVE  \A h \in Hours : h >= First(o, s) => read[h] = t[h]
<1> TAKE h \in Hours
<1>1. ReadFrom(o) \in Int /\ ReadFrom(o) <= First(o, s) /\ First(o, s) \in Int /\ h \in Int
  BY ReadsStart, SpanHours, HoursAreNaturals
<1>2. h >= First(o, s) => h >= ReadFrom(o) /\ h < LastHour + 1
  BY <1>1, HoursAreNaturals, LastHourAssumption
<1> QED
  BY <1>2 DEF Read

\* A replay that read rows, and neither waits nor has queued any.
LEMMA ReadJoined ==
  ASSUME IInv, Typed, Joined, NEW w \in Writers, pc[w] \in {"read", "far", "older"},
         pc'[w] \in HasRead, Alone(w), UNCHANGED <<tables, queue, unconfirmed>>,
         \A s \in Writes(offer'[w]) : AnchorFor(w, s)'
  PROVE  Joined' /\ (Excuses => Excuses')
<1>1. Swept(queue, w)
  BY QueueIsSwept DEF Waiting
<1>2. \A s \in Stats : Moved(s, 0)
  BY <1>1, SweptStays
<1>3. Quiet(w)
  BY <1>2 DEF Quiet, HasRead, HasQueued
<1>4. HandsOn(w)
  BY DEF HandsOn, HasQueued
<1>5. \A s \in Stats : Unsure(s) \subseteq Unsure(s)'
  BY <1>4, UnsureGrows DEF HasRead, HasQueued
<1> QED
  BY <1>3, <1>5, QuietKeeps DEF Joined

\* The first read.
LEMMA ReadNearJoined ==
  ASSUME IInv, Typed, Joined, NEW w \in Writers, ReadNear(w)
  PROVE  Joined' /\ (Excuses => Excuses')
<1>1. PICK o : o = offer[w]
  OBVIOUS
<1>2. PICK rows : rows = [s \in Stats |->
                IF s \in Writes(o)
                THEN Read(tables[s], ReadFrom(o), LastHour + 1) ELSE EmptyTable]
  OBVIOUS
<1>3. PICK anchors : anchors = [s \in Stats |->
                IF s \in Writes(o) THEN Predecessor(o, s, rows[s]) ELSE None]
  OBVIOUS
<1>4. /\ pc[w] = "read"
      /\ seen' = [seen EXCEPT ![w] = rows]
      /\ anchor' = [anchor EXCEPT ![w] = anchors]
      /\ pc' = [pc EXCEPT ![w] = IF Anchored(w, anchors) THEN "build" ELSE "far"]
      /\ UNCHANGED <<tables, queue, offer, plan, unconfirmed>>
  BY <1>1, <1>2, <1>3 DEF ReadNear
<1>5. /\ Alone(w) /\ seen'[w] = rows /\ anchor'[w] = anchors
      /\ \/ pc'[w] = "far"
         \/ pc'[w] = "build" /\ Anchored(w, anchors)
  BY <1>4 DEF Typed, Kinds, Alone
<1>6. ASSUME NEW s \in Writes(offer'[w])
      PROVE  AnchorFor(w, s)'
  <2>1. s \in Writes(o) /\ s \in Stats /\ tables[s] \in Table /\ offer'[w] = o
    BY <1>1, <1>4, <1>6, WritesAreStats DEF Typed, Kinds
  <2>2. /\ rows[s] = Read(tables[s], ReadFrom(o), LastHour + 1)
        /\ anchors[s] = Predecessor(o, s, rows[s])
    BY <1>2, <1>3, <2>1
  <2>3. ReadFrom(o) \in Int
    BY <2>1, ReadsStart
  <2>4. \A h \in Numeric(tables[s]) : h < First(o, s) => h < LastHour + 1
    BY <2>1, HoursEnd
  <2>5. anchors[s] # None => anchors[s] = Predecessor(o, s, tables[s])
    BY <2>1, <2>2, <2>3, <2>4, ReadFinds
  <2>6. pc'[w] = "build" => anchors[s] # None
    BY <1>1, <1>5, <2>1 DEF Anchored
  <2>7. pc'[w] # "older"
    BY <1>5
  <2> QED
    BY <1>4, <1>5, <2>1, <2>2, <2>5, <2>6, <2>7 DEF AnchorFor
<1> QED
  BY <1>4, <1>5, <1>6, ReadJoined DEF HasRead

\* The second read.
LEMMA ReadFarJoined ==
  ASSUME IInv, Typed, Joined, NEW w \in Writers, ReadFar(w)
  PROVE  Joined' /\ (Excuses => Excuses')
<1>1. PICK o : o = offer[w]
  OBVIOUS
<1>2. PICK rows : rows = [s \in Searched(w) |->
                Read(tables[s], FarFrom(o, Searched(w)), ReadFrom(o))]
  OBVIOUS
<1>3. PICK anchors : anchors = [s \in Stats |->
                IF s \in Searched(w) THEN Predecessor(o, s, rows[s]) ELSE anchor[w][s]]
  OBVIOUS
<1>4. /\ pc[w] = "far"
      /\ \/ Refuse(w)
         \/ /\ anchor' = [anchor EXCEPT ![w] = anchors]
            /\ pc' = [pc EXCEPT ![w] = IF Anchored(w, anchors) THEN "build" ELSE "older"]
            /\ UNCHANGED <<tables, queue, offer, seen, plan, unconfirmed>>
  BY <1>1, <1>2, <1>3 DEF ReadFar
<1>5. CASE Refuse(w)
  BY <1>4, <1>5, RefuseJoined DEF HasRead
<1>6. CASE /\ anchor' = [anchor EXCEPT ![w] = anchors]
           /\ pc' = [pc EXCEPT ![w] = IF Anchored(w, anchors) THEN "build" ELSE "older"]
           /\ UNCHANGED <<tables, queue, offer, seen, plan, unconfirmed>>
  <2>1. /\ Alone(w) /\ anchor'[w] = anchors
        /\ \/ pc'[w] = "older"
           \/ pc'[w] = "build" /\ Anchored(w, anchors)
    BY <1>6 DEF Typed, Kinds, Alone
  <2>2. Searched(w)' = Searched(w)
    BY <1>6 DEF Searched
  <2>3. ASSUME NEW s \in Writes(offer'[w])
        PROVE  AnchorFor(w, s)'
    <3>1. s \in Writes(o) /\ s \in Stats /\ tables[s] \in Table /\ offer'[w] = o
      BY <1>1, <1>6, <2>3, WritesAreStats DEF Typed, Kinds
    <3>2. AnchorFor(w, s) /\ seen[w][s] = Read(tables[s], ReadFrom(o), LastHour + 1)
      BY <1>1, <1>4, <3>1 DEF Joined, Anchors, IInv, Current, HasRead
    <3>3. CASE s \in Searched(w)
      <4>1. Searched(w) \subseteq Writes(o) /\ Predecessor(o, s, seen[w][s]) = None
        BY <1>1, <3>3 DEF Searched
      <4>2. FarFrom(o, Searched(w)) \in Int /\ ReadFrom(o) \in Int
        BY <3>3, <4>1, ReadsStart
      <4>3. \A h \in Numeric(tables[s]) : h < First(o, s) => h < LastHour + 1
        BY <3>1, HoursEnd
      <4>4. \A h \in Numeric(tables[s]) : h < First(o, s) => h < ReadFrom(o)
        BY <3>1, <3>2, <4>1, <4>2, <4>3, ReadFinds
      <4>5. /\ rows[s] = Read(tables[s], FarFrom(o, Searched(w)), ReadFrom(o))
            /\ anchors[s] = Predecessor(o, s, rows[s])
        BY <1>2, <1>3, <3>1, <3>3
      <4>6. /\ anchors[s] # None => anchors[s] = Predecessor(o, s, tables[s])
            /\ anchors[s] = None =>
                 \A h \in Numeric(tables[s]) :
                   h < First(o, s) => h < FarFrom(o, Searched(w))
        BY <3>1, <4>2, <4>4, <4>5, ReadFinds
      <4>7. pc'[w] # "far" /\ (pc'[w] = "build" => anchors[s] # None)
        BY <1>1, <2>1, <3>1 DEF Anchored
      <4> QED
        BY <1>6, <2>1, <2>2, <3>1, <3>3, <4>6, <4>7 DEF AnchorFor
    <3>4. CASE s \notin Searched(w)
      <4>1. anchors[s] = anchor[w][s]
        BY <1>3, <3>1, <3>4
      <4>2. anchor[w][s] # None
        <5>1. anchor[w][s] = Predecessor(o, s, seen[w][s])
          BY <1>1, <1>4, <3>2 DEF AnchorFor
        <5> QED
          BY <1>1, <3>1, <3>4, <5>1 DEF Searched
      <4>3. anchors[s] = Predecessor(o, s, tables[s])
        BY <1>1, <3>2, <4>1, <4>2 DEF AnchorFor
      <4>4. pc'[w] # "far"
        BY <2>1
      <4> QED
        BY <1>6, <2>1, <3>1, <4>1, <4>2, <4>3, <4>4 DEF AnchorFor
    <3> QED
      BY <3>3, <3>4
  <2> QED
    BY <1>4, <1>6, <2>1, <2>3, ReadJoined DEF HasRead
<1> QED
  BY <1>4, <1>5, <1>6

\* The third read.
LEMMA ReadOlderJoined ==
  ASSUME IInv, Typed, Joined, NEW w \in Writers, ReadOlder(w)
  PROVE  Joined' /\ (Excuses => Excuses')
<1>1. PICK o : o = offer[w]
  OBVIOUS
<1>2. /\ pc[w] = "older"
      /\ \/ Refuse(w)
         \/ /\ \A s \in Searched(w) : anchor[w][s] = None =>
                 Stored(Read(tables[s], 0, FarFrom(o, Searched(w)))) = {}
            /\ pc' = [pc EXCEPT ![w] = "build"]
            /\ UNCHANGED <<tables, queue, offer, seen, anchor, plan, unconfirmed>>
  BY <1>1 DEF ReadOlder, replay
<1>3. CASE Refuse(w)
  BY <1>2, <1>3, RefuseJoined DEF HasRead
<1>4. CASE /\ \A s \in Searched(w) : anchor[w][s] = None =>
                Stored(Read(tables[s], 0, FarFrom(o, Searched(w)))) = {}
           /\ pc' = [pc EXCEPT ![w] = "build"]
           /\ UNCHANGED <<tables, queue, offer, seen, anchor, plan, unconfirmed>>
  <2>1. Alone(w) /\ pc'[w] = "build"
    BY <1>4 DEF Typed, Kinds, Alone
  <2>2. ASSUME NEW s \in Writes(offer'[w])
        PROVE  AnchorFor(w, s)'
    <3>1. s \in Writes(o) /\ s \in Stats /\ tables[s] \in Table /\ offer'[w] = o
      BY <1>1, <1>4, <2>2, WritesAreStats DEF Typed, Kinds
    <3>2. AnchorFor(w, s)
      BY <1>1, <1>2, <3>1 DEF Joined, Anchors, HasRead
    <3>3. anchor[w][s] = Predecessor(o, s, tables[s])
      <4>1. CASE anchor[w][s] # None
        BY <1>1, <3>2, <4>1 DEF AnchorFor
      <4>2. CASE anchor[w][s] = None
        <5>1. /\ s \in Searched(w)
              /\ \A h \in Numeric(tables[s]) :
                   h < First(o, s) => h < FarFrom(o, Searched(w))
          BY <1>1, <1>2, <3>2, <4>2 DEF AnchorFor
        <5>2. Stored(Read(tables[s], 0, FarFrom(o, Searched(w)))) = {}
          BY <1>4, <4>2, <5>1
        <5>3. \A h \in Numeric(tables[s]) : ~ (h < First(o, s))
          <6> SUFFICES ASSUME NEW h \in Numeric(tables[s]), h < First(o, s) PROVE FALSE
            OBVIOUS
          <6>1. h \in Hours /\ h >= 0 /\ h < FarFrom(o, Searched(w)) /\ tables[s][h] # None
            BY <3>1, <5>1, TableRows, HoursAreNaturals DEF Numeric, Stored
          <6>2. h \in Stored(Read(tables[s], 0, FarFrom(o, Searched(w))))
            BY <6>1 DEF Stored, Read
          <6> QED
            BY <5>2, <6>2
        <5>4. Before(tables[s], First(o, s)) = None
          BY <3>1, <5>3, RowBefore
        <5> QED
          BY <4>2, <5>4 DEF Predecessor
      <4> QED
        BY <4>1, <4>2
    <3> QED
      BY <1>4, <2>1, <3>1, <3>3 DEF AnchorFor
  <2> QED
    BY <1>2, <1>4, <2>1, <2>2, ReadJoined DEF HasRead
<1> QED
  BY <1>2, <1>3, <1>4

-------------------------------------------------------------------------------
(***************************************************************************)
(* Building and queueing.                                                  *)
(***************************************************************************)

\* The queue after a replay has queued its writes and its first barrier.
QueuedBy(q, r, w) == q \o r \o <<BarrierTask(w)>>

\* A queue, then some writes, then a writer's barrier.
QueuedAfter(u, q, r, w) ==
  /\ Len(q) \in Nat /\ DOMAIN q = 1 .. Len(q)
  /\ \A i \in DOMAIN q : i \in DOMAIN u /\ u[i] = q[i]
  /\ \A i \in DOMAIN r : i \in Nat /\ Len(q) + i \in DOMAIN u /\ u[Len(q) + i] = r[i]
  /\ \A i \in DOMAIN u : i \in Nat /\
       \/ i \in DOMAIN q /\ u[i] = q[i]
       \/ i - Len(q) \in DOMAIN r /\ u[i] = r[i - Len(q)]
       \/ u[i] = BarrierTask(w)

\* Its tasks are those of both, and that barrier.
LEMMA QueueAfter ==
  ASSUME NEW q, IsSeq(q), NEW r, IsSeq(r), NEW w
  PROVE  QueuedAfter(QueuedBy(q, r, w), q, r, w)
<1> SUFFICES ASSUME NEW u, u = QueuedBy(q, r, w)
             PROVE  QueuedAfter(u, q, r, w)
  OBVIOUS
<1> DEFINE p == q \o r
           b == <<BarrierTask(w)>>
<1>1. IsSeq(b) /\ \A i \in DOMAIN b : b[i] = BarrierTask(w)
  BY DEF IsSeq
<1>2. /\ IsSeq(p) /\ Len(q) \in Nat
      /\ DOMAIN q = 1 .. Len(q) /\ DOMAIN r = 1 .. Len(r)
      /\ \A i \in DOMAIN p : i \in Nat /\
           \/ i \in DOMAIN q /\ p[i] = q[i]
           \/ i > Len(q) /\ i - Len(q) \in DOMAIN r /\ p[i] = r[i - Len(q)]
      /\ \A i \in DOMAIN q : i \in DOMAIN p /\ p[i] = q[i]
  BY JoinedTasks
<1>3. \A i \in DOMAIN r : Len(q) + i \in DOMAIN p /\ p[Len(q) + i] = r[i]
  BY JoinedLater
<1>4. u = p \o b
  BY DEF QueuedBy
<1> HIDE DEF p, b
<1>5. /\ \A i \in DOMAIN (p \o b) : i \in Nat /\
           \/ i \in DOMAIN p /\ (p \o b)[i] = p[i]
           \/ i > Len(p) /\ i - Len(p) \in DOMAIN b /\ (p \o b)[i] = b[i - Len(p)]
      /\ \A i \in DOMAIN p : i \in DOMAIN (p \o b) /\ (p \o b)[i] = p[i]
  BY <1>1, <1>2, JoinedTasks
<1>6. /\ \A i \in DOMAIN u : /\ i \in Nat
                            /\ \/ i \in DOMAIN p /\ u[i] = p[i]
                               \/ u[i] = BarrierTask(w)
      /\ \A i \in DOMAIN p : i \in DOMAIN u /\ u[i] = p[i]
  BY <1>1, <1>4, <1>5
<1>7. \A i \in DOMAIN r : i \in Nat
  BY <1>2
<1>8. \A i \in DOMAIN u : i \in Nat /\
           \/ i \in DOMAIN q /\ u[i] = q[i]
           \/ i - Len(q) \in DOMAIN r /\ u[i] = r[i - Len(q)]
           \/ u[i] = BarrierTask(w)
  BY <1>2, <1>6
<1>9. \A i \in DOMAIN q : i \in DOMAIN u /\ u[i] = q[i]
  BY <1>2, <1>6
<1>10. \A i \in DOMAIN r : i \in Nat /\ Len(q) + i \in DOMAIN u /\ u[Len(q) + i] = r[i]
  BY <1>3, <1>6, <1>7
<1> QED
  BY <1>2, <1>8, <1>9, <1>10 DEF QueuedAfter

\* An import and an adjustment are writes of their own statistic.
LEMMA WritesDiffer ==
  /\ \A s, t, x : IsWrite(ImportTask(s, x), t) <=> s = t
  /\ \A s, t, x, y : IsWrite(AdjustTask(s, x, y), t) <=> s = t
  /\ \A s, x : ImportTask(s, x).op = "import" /\ ImportTask(s, x).rows = x
                 /\ ImportTask(s, x).stat = s
  /\ \A s, x, y : AdjustTask(s, x, y).op = "adjust" /\ AdjustTask(s, x, y).from = x
                    /\ AdjustTask(s, x, y).stat = s
  BY DEF IsWrite, ImportTask, AdjustTask

\* The writes queued for a statistic are those of one replay, its import first.
WritesOf(o, built, s) ==
  /\ ImportQueued(s)' /\ OrderFor(s)'
  /\ \A i \in QueuedFor(s)' :
       \/ queue'[i].op = "import" /\ queue'[i].rows = built[s].rows
       \/ queue'[i].op = "adjust" /\ queue'[i].from = Last(o, s) + 1

\* The writes that a replay queues: of its own statistics an import, before any
\* shift from the hour after the span, and of others none.
LEMMA WritesQueued ==
  ASSUME IInv, NEW w \in Writers, pc[w] = "build", NEW o, o = offer[w], NEW built,
         queue' = queue \o WriteTasks(o, built) \o <<BarrierTask(w)>>
  PROVE  /\ \A s \in Stats \ Writes(o) : Moved(s, 0)
         /\ \A s \in Writes(o) : WritesOf(o, built, s)
<1>1. PICK r : r = WriteTasks(o, built)
  OBVIOUS
<1>2. IsSeq(queue) /\ \A s \in Writes(o) : QueuedFor(s) = {}
  BY DEF IInv, Shape, NothingQueued, Clear
<1>3. IsSeq(r)
  BY <1>1, WriteTasksAre
<1>4. \A i \in DOMAIN r : \E s \in Writes(o) :
           \/ /\ r[i] = ImportTask(s, built[s].rows)
              /\ \A j \in DOMAIN r : IsWrite(r[j], s) /\ j # i => i < j
           \/ r[i] = AdjustTask(s, Last(o, s) + 1, built[s].shift)
  BY <1>1, WriteTasksAre
<1>5. \A s \in Writes(o) : \E i \in DOMAIN r : r[i] = ImportTask(s, built[s].rows)
  BY <1>1, WriteTasksAre
<1>6. PICK n : n = Len(queue)
  OBVIOUS
<1>7. /\ n \in Nat /\ DOMAIN queue = 1 .. n
      /\ \A i \in DOMAIN queue : i \in DOMAIN queue' /\ queue'[i] = queue[i]
      /\ \A i \in DOMAIN r : i \in Nat /\ n + i \in DOMAIN queue' /\ queue'[n + i] = r[i]
      /\ \A i \in DOMAIN queue' : i \in Nat /\
           \/ i \in DOMAIN queue /\ queue'[i] = queue[i]
           \/ i - n \in DOMAIN r /\ queue'[i] = r[i - n]
           \/ queue'[i] = BarrierTask(w)
  <2>1. queue' = QueuedBy(queue, r, w)
    BY <1>1 DEF QueuedBy
  <2>2. QueuedAfter(QueuedBy(queue, r, w), queue, r, w)
    BY <1>2, <1>3, QueueAfter
  <2>3. QueuedAfter(queue', queue, r, w)
    BY <2>1, <2>2
  <2> QED
    BY <1>6, <2>3 DEF QueuedAfter
<1>8. ASSUME NEW s \in Stats \ Writes(o)
      PROVE  Moved(s, 0)
  <2>1. \A i \in DOMAIN r : ~ IsWrite(r[i], s)
    BY <1>4, <1>8, WritesDiffer
  <2>2. \A i \in DOMAIN queue' :
          IsWrite(queue'[i], s) => i \in DOMAIN queue /\ queue'[i] = queue[i]
    <3> SUFFICES ASSUME NEW i \in DOMAIN queue', IsWrite(queue'[i], s)
                 PROVE  i \in DOMAIN queue /\ queue'[i] = queue[i]
      OBVIOUS
    <3>1. queue'[i] # BarrierTask(w)
      BY BarriersDiffer
    <3>2. i - n \in DOMAIN r => queue'[i] # r[i - n]
      BY <2>1
    <3> QED
      BY <1>7, <3>1, <3>2
  <2>3. /\ QueuedFor(s)' = QueuedFor(s)
        /\ \A i \in QueuedFor(s) : queue'[i] = queue[i] /\ i \in Int
    BY <1>7, <2>2 DEF QueuedFor
  <2>4. \A i \in QueuedFor(s) : i + 0 = i /\ i - 0 = i
    BY <2>3
  <2> QED
    BY <2>3, <2>4 DEF Moved
<1>9. ASSUME NEW s \in Writes(o)
      PROVE  WritesOf(o, built, s)
  <2>1. ASSUME NEW i \in QueuedFor(s)'
        PROVE  /\ i \in Nat /\ i - n \in DOMAIN r /\ queue'[i] = r[i - n]
               /\ IsWrite(r[i - n], s)
    <3>1. i \in DOMAIN queue' /\ IsWrite(queue'[i], s)
      BY DEF QueuedFor
    <3>2. ~ (i \in DOMAIN queue /\ queue'[i] = queue[i])
      BY <1>2, <3>1 DEF QueuedFor
    <3>3. queue'[i] # BarrierTask(w)
      BY <3>1, BarriersDiffer
    <3> QED
      BY <1>7, <3>1, <3>2, <3>3
  <2>2. ASSUME NEW i \in DOMAIN r, IsWrite(r[i], s)
        PROVE  \/ /\ r[i] = ImportTask(s, built[s].rows)
                  /\ \A j \in DOMAIN r : IsWrite(r[j], s) /\ j # i => i < j
               \/ r[i] = AdjustTask(s, Last(o, s) + 1, built[s].shift)
    <3>1. PICK t \in Writes(o) :
             \/ /\ r[i] = ImportTask(t, built[t].rows)
                /\ \A j \in DOMAIN r : IsWrite(r[j], t) /\ j # i => i < j
             \/ r[i] = AdjustTask(t, Last(o, t) + 1, built[t].shift)
      BY <1>4
    <3>2. t = s
      BY <2>2, <3>1, WritesDiffer
    <3> QED
      BY <3>1, <3>2
  <2>3. ImportQueued(s)'
    <3>1. PICK i \in DOMAIN r : r[i] = ImportTask(s, built[s].rows)
      BY <1>5
    <3>2. n + i \in DOMAIN queue' /\ queue'[n + i] = r[i]
      BY <1>7
    <3>3. IsWrite(queue'[n + i], s) /\ queue'[n + i].op = "import"
      BY <3>1, <3>2, WritesDiffer
    <3> QED
      BY <3>2, <3>3 DEF ImportQueued, QueuedFor
  <2>4. ASSUME NEW i \in QueuedFor(s)', NEW j \in QueuedFor(s)',
               queue'[i].op = "import", j # i
        PROVE  i < j
    <3>1. /\ i \in Nat /\ j \in Nat /\ i - n \in DOMAIN r /\ j - n \in DOMAIN r
          /\ r[i - n].op = "import" /\ IsWrite(r[i - n], s) /\ IsWrite(r[j - n], s)
      BY <2>1, <2>4
    <3>2. i - n # j - n
      BY <1>7, <2>4, <3>1
    <3>3. r[i - n] # AdjustTask(s, Last(o, s) + 1, built[s].shift)
      BY <3>1, WritesDiffer
    <3>4. i - n < j - n
      BY <2>2, <3>1, <3>2, <3>3
    <3> QED
      BY <1>7, <3>1, <3>4
  <2>5. ASSUME NEW i \in QueuedFor(s)'
        PROVE  \/ queue'[i].op = "import" /\ queue'[i].rows = built[s].rows
               \/ queue'[i].op = "adjust" /\ queue'[i].from = Last(o, s) + 1
    <3>1. i - n \in DOMAIN r /\ queue'[i] = r[i - n] /\ IsWrite(r[i - n], s)
      BY <2>1
    <3>2. PICK task : task = queue'[i]
      OBVIOUS
    <3>3. \/ task = ImportTask(s, built[s].rows)
          \/ task = AdjustTask(s, Last(o, s) + 1, built[s].shift)
      BY <2>2, <3>1, <3>2
    <3>4. \/ task.op = "import" /\ task.rows = built[s].rows
          \/ task.op = "adjust" /\ task.from = Last(o, s) + 1
      BY <3>3 DEF ImportTask, AdjustTask
    <3> QED
      BY <3>2, <3>4
  <2> QED
    BY <2>3, <2>4, <2>5 DEF OrderFor, WritesOf
<1> QED
  BY <1>8, <1>9

\* The rows a replay builds continue the stored table, and fill its span.
LEMMA BuiltFromStored ==
  ASSUME NEW t \in Table, NEW o \in Offered, NEW s \in Writes(o),
         NEW read, read = Read(t, ReadFrom(o), LastHour + 1),
         NEW before, before = Predecessor(o, s, t),
         NEW part, part = Built(o, s, read, before)
  PROVE  /\ Chained(o, s, part.rows, BaseSum(t, First(o, s)))
         /\ part.following = Oldest({h \in Numeric(t) : h > Last(o, s)})
         /\ \A h \in First(o, s) .. Last(o, s) : Imported(t, part.rows)[h] = part.rows[h]
<1>1. read \in Table /\ before \in Anchor \cup {None}
  BY ReadRows, PredecessorIs
<1>2. First(o, s) \in Hours /\ Last(o, s) \in Hours /\ First(o, s) <= Last(o, s)
  BY SpanHours
<1>3. First(o, s) \in Int /\ Last(o, s) \in Int
  BY <1>2, HoursAreNaturals
<1>4. \A h \in Hours : h >= First(o, s) => read[h] = t[h]
  BY SeenIsStored
<1>5. PICK rows : rows = Built(o, s, read, before).rows
  OBVIOUS
<1>6. Chained(o, s, rows, IF before = None THEN 0 ELSE before.sum)
  BY <1>1, <1>5, BuiltIsChained
<1>7. \A h \in Stored(read) : First(o, s) <= h /\ h <= Last(o, s) => h \in Stored(rows)
  BY <1>1, <1>5, BuiltIsChained
<1>8. (IF before = None THEN 0 ELSE before.sum) = BaseSum(t, First(o, s))
  <2>1. CASE before = None
    BY <2>1, PredecessorIs DEF BaseSum
  <2>2. CASE before # None
    <3>1. PICK earlier : earlier = Before(t, First(o, s))
      OBVIOUS
    <3>2. earlier # None /\ before = [start |-> earlier, sum |-> t[earlier].sum]
      BY <2>2, <3>1, PredecessorIs
    <3>3. before.sum = t[earlier].sum
      BY <3>2
    <3> QED
      BY <2>2, <3>1, <3>2, <3>3 DEF BaseSum
  <2> QED
    BY <2>1, <2>2
<1>9. {h \in Numeric(read) : h > Last(o, s)} = {h \in Numeric(t) : h > Last(o, s)}
  <2>1. \A h \in Hours : h > Last(o, s) => read[h] = t[h]
    <3> TAKE h \in Hours
    <3>1. h \in Int
      BY HoursAreNaturals
    <3> QED
      BY <1>2, <1>3, <1>4, <3>1
  <2> QED
    BY <2>1 DEF Numeric, Stored
<1>10. part.following = Oldest({h \in Numeric(read) : h > Last(o, s)})
  BY DEF Built
<1>11. ASSUME NEW h \in First(o, s) .. Last(o, s)
       PROVE  Imported(t, rows)[h] = rows[h]
  <2>1. h \in Hours /\ h >= First(o, s) /\ First(o, s) <= h /\ h <= Last(o, s)
    BY <1>2, <1>3, HoursAreNaturals, LastHourAssumption DEF Hours
  <2>2. read[h] = t[h]
    BY <1>4, <2>1
  <2>3. CASE rows[h] # None
    BY <2>1, <2>3 DEF Imported
  <2>4. CASE rows[h] = None
    <3>1. h \notin Stored(rows)
      BY <2>4 DEF Stored
    <3>2. h \notin Stored(read)
      BY <1>7, <2>1, <3>1
    <3>3. t[h] = None
      BY <2>1, <2>2, <3>2 DEF Stored
    <3> QED
      BY <2>1, <2>4, <3>3 DEF Imported
  <2> QED
    BY <2>3, <2>4
<1> QED
  BY <1>5, <1>6, <1>8, <1>9, <1>10, <1>11

\* A replay that queues its writes: they continue what is stored, for nothing
\* was queued or written since it read.
LEMMA BuildAndQueueJoined ==
  ASSUME IInv, Typed, Joined, NEW w \in Writers, BuildAndQueue(w)
  PROVE  Joined' /\ (Excuses => Excuses')
<1>1. PICK o : o = offer[w]
  OBVIOUS
<1>2. PICK built : built = BuiltBy(w)
  OBVIOUS
<1>3. /\ pc[w] = "build" /\ pc' = [pc EXCEPT ![w] = "confirm"]
      /\ plan' = [plan EXCEPT ![w] = built]
      /\ queue' = queue \o WriteTasks(o, built) \o <<BarrierTask(w)>>
      /\ seen' = [seen EXCEPT ![w] = NoSeen]
      /\ anchor' = [anchor EXCEPT ![w] = NoAnchor]
      /\ UNCHANGED <<tables, offer, unconfirmed>>
  BY <1>1, <1>2 DEF BuildAndQueue, BuiltBy
<1>4. Alone(w) /\ pc'[w] = "confirm" /\ plan'[w] = built /\ offer'[w] = o
  BY <1>1, <1>3 DEF Typed, Kinds, Alone
<1>5. o \in Offered /\ Writes(o) \subseteq Stats
  BY <1>1, <1>3, BuiltTyped, WritesAreStats
<1>6. \A s \in Stats \ Writes(o) : Moved(s, 0)
  BY <1>1, <1>3, WritesQueued
<1>7. \A s \in Writes(o) :
        /\ ImportQueued(s)' /\ OrderFor(s)'
        /\ \A i \in QueuedFor(s)' :
             \/ queue'[i].op = "import" /\ queue'[i].rows = built[s].rows
             \/ queue'[i].op = "adjust" /\ queue'[i].from = Last(o, s) + 1
  <2>1. \A s \in Writes(o) : WritesOf(o, built, s)
    BY <1>1, <1>3, WritesQueued
  <2> QED
    BY <2>1 DEF WritesOf
<1>8. ASSUME NEW s \in Writes(o)
      PROVE  /\ tables[s] \in Table
             /\ Chained(o, s, built[s].rows, BaseSum(tables[s], First(o, s)))
             /\ built[s].following = Oldest({h \in Numeric(tables[s]) : h > Last(o, s)})
             /\ \A h \in First(o, s) .. Last(o, s) :
                  Imported(tables[s], built[s].rows)[h] = built[s].rows[h]
  <2>1. s \in Stats /\ tables[s] \in Table
    BY <1>5 DEF Typed, Kinds
  <2>2. built[s] = Built(o, s, seen[w][s], anchor[w][s])
    BY <1>1, <1>2, <2>1 DEF BuiltBy
  <2>3. seen[w][s] = Read(tables[s], ReadFrom(o), LastHour + 1)
    BY <1>1, <1>3 DEF IInv, Current, HasRead
  <2>4. anchor[w][s] = Predecessor(o, s, tables[s])
    BY <1>1, <1>3 DEF Joined, Anchors, AnchorFor, HasRead
  <2> QED
    BY <1>5, <2>1, <2>2, <2>3, <2>4, BuiltFromStored
<1>9. \A v \in Writers \ {w} : pc[v] \in HasQueued => Writes(offer[v]) \cap Writes(o) = {}
  BY <1>1, <1>3 DEF IInv, Exclusive, HasQueued, Waiting, Clear
<1>10. Anchors'
  <2>1. ASSUME NEW v \in Writers, pc'[v] \in HasRead, NEW s \in Writes(offer'[v])
        PROVE  AnchorFor(v, s)'
    <3>1. /\ pc'[v] = pc[v] /\ offer'[v] = offer[v] /\ seen'[v] = seen[v]
          /\ anchor'[v] = anchor[v] /\ tables' = tables
      BY <1>3, <1>4, <2>1 DEF Alone, HasRead
    <3>2. AnchorFor(v, s)
      BY <2>1, <3>1 DEF Joined, Anchors
    <3>3. Searched(v)' = Searched(v)
      BY <3>1 DEF Searched
    <3> QED
      BY <3>1, <3>2, <3>3 DEF AnchorFor
  <2> QED
    BY <2>1 DEF Anchors
<1>11. Plans'
  <2>1. ASSUME NEW v \in Writers, pc'[v] \in HasQueued, NEW s \in Writes(offer'[v])
        PROVE  PlanFor(v, s)'
    <3>1. CASE v = w
      <4>1. s \in Writes(o)
        BY <1>4, <2>1, <3>1
      <4>2. WithImport(v, s)' = Imported(tables[s], built[s].rows)
        BY <1>3, <1>4, <1>7, <3>1, <4>1 DEF WithImport
      <4>3. \A i \in QueuedFor(s)' :
              IF queue'[i].op = "import" THEN queue'[i].rows = built[s].rows
              ELSE queue'[i].from = Last(o, s) + 1
        BY <1>7, <4>1
      <4>4. plan'[v][s] = built[s] /\ offer'[v] = o /\ tables'[s] = tables[s]
        BY <1>3, <1>4, <3>1
      <4>5. \A h \in First(o, s) .. Last(o, s) : WithImport(v, s)'[h] = built[s].rows[h]
        BY <1>8, <4>1, <4>2
      <4> QED
        BY <1>8, <4>1, <4>3, <4>4, <4>5 DEF PlanFor
    <3>2. CASE v # w
      <4>1. pc[v] \in HasQueued /\ offer'[v] = offer[v] /\ plan'[v] = plan[v]
        BY <1>4, <2>1, <3>2 DEF Alone
      <4>2. PlanFor(v, s) /\ s \in Stats \ Writes(o)
        BY <1>9, <2>1, <3>2, <4>1, WritesAreStats DEF Joined, Plans
      <4>3. Moved(s, 0) /\ tables'[s] = tables[s]
        BY <1>3, <1>6, <4>2
      <4> QED
        BY <4>1, <4>2, <4>3, StatKeeps
    <3> QED
      BY <3>1, <3>2
  <2> QED
    BY <2>1 DEF Plans
<1>12. Orders'
  <2>1. ASSUME NEW s \in Stats
        PROVE  OrderFor(s)'
    <3>1. CASE s \in Writes(o)
      BY <1>7, <3>1
    <3>2. CASE s \notin Writes(o)
      <4>1. Moved(s, 0) /\ tables'[s] = tables[s] /\ OrderFor(s)
        BY <1>3, <1>6, <3>2 DEF Joined, Orders
      <4> QED
        BY <4>1, StatKeeps
    <3> QED
      BY <3>1, <3>2
  <2> QED
    BY <2>1 DEF Orders
<1>13. ASSUME Excuses
       PROVE  Excuses'
  <2>1. HandsOn(w)
    BY <1>3, <1>4 DEF HandsOn, HasQueued
  <2>2. \A s \in Stats : Unsure(s) \subseteq Unsure(s)'
    BY <1>1, <1>4, <2>1, UnsureGrows
  <2>3. ASSUME NEW s \in Writes(o)
        PROVE  ExcuseFor(s)'
    <3>1. s \in Stats /\ Excused(tables[s], Unsure(s))
      BY <1>5, <1>13 DEF Excuses, ExcuseFor
    <3>2. Given(o, s) \subseteq Unsure(s)'
      BY <1>4 DEF Unsure, HasQueued
    <3>3. Excused(Imported(tables[s], built[s].rows), Unsure(s) \cup Given(o, s))
      BY <1>8, <3>1, ImportIsExcused
    <3>4. Unsure(s) \cup Given(o, s) \subseteq Unsure(s)'
      BY <2>2, <3>1, <3>2
    <3>5. Excused(Imported(tables[s], built[s].rows), Unsure(s)')
      BY <3>3, <3>4, ExcusedGrows
    <3>6. Excused(tables[s], Unsure(s)')
      BY <2>2, <3>1, ExcusedGrows
    <3>7. Last(o, s) \in Unsure(s)' /\ (Last(o, s) + 1) - 1 = Last(o, s)
      <4>1. Last(o, s) \in Given(o, s) /\ Last(o, s) \in Hours
        BY SpanHours
      <4>2. Last(o, s) \in Int
        BY <4>1, HoursAreNaturals
      <4> QED
        BY <3>2, <4>1, <4>2
    <3>8. \A i \in QueuedFor(s)' :
            IF queue'[i].op = "import"
            THEN Excused(Imported(tables[s], queue'[i].rows), Unsure(s)')
            ELSE queue'[i].from - 1 \in Unsure(s)'
      BY <1>7, <3>5, <3>7
    <3> QED
      BY <1>3, <3>6, <3>8 DEF ExcuseFor
  <2>4. ASSUME NEW s \in Stats \ Writes(o)
        PROVE  ExcuseFor(s)'
    <3>1. Moved(s, 0) /\ tables'[s] = tables[s] /\ ExcuseFor(s) /\ Unsure(s) \subseteq Unsure(s)'
      BY <1>3, <1>6, <1>13, <2>2 DEF Excuses
    <3> QED
      BY <3>1, StatKeeps
  <2> QED
    BY <2>3, <2>4 DEF Excuses
<1> QED
  BY <1>10, <1>11, <1>12, <1>13 DEF Joined

-------------------------------------------------------------------------------
(***************************************************************************)
(* What the recorder does with its oldest task, and a restart.             *)
(***************************************************************************)

\* Taking the oldest task off the queue moves every other write up by one.
Taken(s) ==
  /\ QueuedFor(s) \subseteq Int /\ QueuedFor(s)' \subseteq Int
  /\ \A i \in QueuedFor(s)' : i + 1 \in QueuedFor(s) /\ queue'[i] = queue[i + 1] /\ i >= 1
  /\ \A j \in QueuedFor(s) : j >= 1 /\ (j # 1 => j - 1 \in QueuedFor(s)')
  /\ 1 \in QueuedFor(s) <=> IsWrite(Head(queue), s)
  /\ Head(queue) = queue[1]

\* Tail takes the oldest task off.
LEMMA TakenWrites ==
  ASSUME IsSeq(queue), queue # <<>>, queue' = Tail(queue), NEW s
  PROVE  Taken(s)
<1>1. PICK n : n = Len(queue)
  OBVIOUS
<1>2. /\ n \in Nat \ {0} /\ DOMAIN queue = 1 .. n /\ Head(queue) = queue[1]
      /\ DOMAIN queue' = 1 .. (n - 1)
      /\ \A i \in 1 .. (n - 1) : queue'[i] = queue[i + 1]
  BY <1>1, TailTasks
<1>3. ASSUME NEW i \in QueuedFor(s)'
      PROVE  i \in Int /\ i + 1 \in QueuedFor(s) /\ queue'[i] = queue[i + 1] /\ i >= 1
  <2>1. i \in 1 .. (n - 1) /\ IsWrite(queue'[i], s)
    BY <1>2 DEF QueuedFor
  <2>2. i \in Int /\ i >= 1 /\ i + 1 \in 1 .. n
    BY <1>2, <2>1
  <2>3. queue'[i] = queue[i + 1]
    BY <1>2, <2>1
  <2> QED
    BY <1>2, <2>1, <2>2, <2>3 DEF QueuedFor
<1>4. ASSUME NEW j \in QueuedFor(s)
      PROVE  j \in Int /\ j >= 1 /\ (j # 1 => j - 1 \in QueuedFor(s)')
  <2>1. j \in 1 .. n /\ IsWrite(queue[j], s)
    BY <1>2 DEF QueuedFor
  <2>2. j \in Int /\ j >= 1 /\ (j # 1 => j - 1 \in 1 .. (n - 1) /\ (j - 1) + 1 = j)
    BY <1>2, <2>1
  <2>3. j # 1 => queue'[j - 1] = queue[j]
    BY <1>2, <2>2
  <2> QED
    BY <1>2, <2>1, <2>2, <2>3 DEF QueuedFor
<1>5. 1 \in QueuedFor(s) <=> IsWrite(Head(queue), s)
  BY <1>2 DEF QueuedFor
<1> QED
  BY <1>2, <1>3, <1>4, <1>5 DEF Taken

\* Unless the task taken off was an import of its own, a statistic's writes have
\* moved, and no import is gone.
LEMMA TakenMoves ==
  ASSUME NEW s, Taken(s), ~ (IsWrite(Head(queue), s) /\ Head(queue).op = "import")
  PROVE  Moved(s, 1)
<1>1. \A j \in QueuedFor(s) : queue[j].op = "import" => j # 1
  BY DEF Taken
<1> QED
  BY <1>1 DEF Taken, Moved

\* The recorder has run a statistic's import: no other import is queued for it.
LEMMA ImportRuns ==
  ASSUME NEW s \in Stats, Taken(s), IsWrite(Head(queue), s), Head(queue).op = "import",
         tables[s] \in Table, tables'[s] = Imported(tables[s], Head(queue).rows), OrderFor(s)
  PROVE  /\ OrderFor(s)'
         /\ \A w \in Writers :
              /\ PlanFor(w, s) /\ s \in Writes(offer[w])
              /\ offer'[w] = offer[w] /\ plan'[w] = plan[w]
              => PlanFor(w, s)'
         /\ ExcuseFor(s) /\ Unsure(s) \subseteq Unsure(s)' => ExcuseFor(s)'
<1>1. 1 \in QueuedFor(s) /\ Head(queue) = queue[1] /\ queue[1].op = "import"
  BY DEF Taken
<1>2. ASSUME NEW i \in QueuedFor(s)'
      PROVE  i + 1 \in QueuedFor(s) /\ queue'[i] = queue[i + 1] /\ queue[i + 1].op # "import"
  <2>1. i \in Int /\ i >= 1 /\ i + 1 \in QueuedFor(s) /\ queue'[i] = queue[i + 1]
    BY DEF Taken
  <2>2. i + 1 # 1 /\ ~ (i + 1 < 1)
    BY <2>1
  <2> QED
    BY <1>1, <2>1, <2>2 DEF OrderFor
<1>3. ~ ImportQueued(s)' /\ ImportQueued(s)
  BY <1>1, <1>2 DEF ImportQueued
<1>4. OrderFor(s)'
  BY <1>2 DEF OrderFor
<1>5. ASSUME NEW w \in Writers, PlanFor(w, s), s \in Writes(offer[w]),
             offer'[w] = offer[w], plan'[w] = plan[w]
      PROVE  PlanFor(w, s)'
  <2>1. PICK o : o = offer[w]
    OBVIOUS
  <2>2. PICK rows : rows = plan[w][s].rows
    OBVIOUS
  <2>3. PICK t : t = tables[s]
    OBVIOUS
  <2>4. PICK u : u = tables'[s]
    OBVIOUS
  <2>5. queue[1].rows = rows
    BY <1>1, <1>5, <2>2 DEF PlanFor
  <2>6. u = Imported(t, rows) /\ t \in Table
    BY <1>1, <2>3, <2>4, <2>5
  <2>7. Chained(o, s, rows, BaseSum(t, First(o, s)))
    BY <1>5, <2>1, <2>2, <2>3 DEF PlanFor
  <2>8. /\ BaseSum(u, First(o, s)) = BaseSum(t, First(o, s))
        /\ {h \in Numeric(u) : h > Last(o, s)} = {h \in Numeric(t) : h > Last(o, s)}
    BY <1>5, <2>1, <2>6, <2>7, ImportKeeps
  <2>9. plan[w][s].following = Oldest({h \in Numeric(u) : h > Last(o, s)})
    BY <1>5, <2>1, <2>3, <2>8 DEF PlanFor
  <2>10. \A h \in First(o, s) .. Last(o, s) : u[h] = rows[h]
    BY <1>3, <1>5, <2>1, <2>2, <2>3, <2>6 DEF PlanFor, WithImport
  <2>11. WithImport(w, s)' = u
    BY <1>3, <2>4 DEF WithImport
  <2>12. \A i \in QueuedFor(s)' : /\ queue'[i].op # "import"
                                  /\ queue'[i].from = Last(o, s) + 1
    BY <1>2, <1>5, <2>1 DEF PlanFor
  <2> QED
    BY <1>5, <2>1, <2>2, <2>4, <2>7, <2>8, <2>9, <2>10, <2>11, <2>12 DEF PlanFor
<1>6. ASSUME ExcuseFor(s), Unsure(s) \subseteq Unsure(s)'
      PROVE  ExcuseFor(s)'
  <2>1. Excused(tables'[s], Unsure(s))
    BY <1>1, <1>6 DEF ExcuseFor
  <2>2. Excused(tables'[s], Unsure(s)')
    BY <1>6, <2>1, ExcusedGrows
  <2>3. \A i \in QueuedFor(s)' : /\ queue'[i].op # "import"
                                 /\ queue'[i].from - 1 \in Unsure(s)'
    BY <1>2, <1>6 DEF ExcuseFor
  <2> QED
    BY <2>2, <2>3 DEF ExcuseFor
<1> QED
  BY <1>4, <1>5, <1>6

\* The recorder has run a statistic's shift: its import has run before.
LEMMA ShiftRuns ==
  ASSUME NEW s \in Stats, Taken(s), IsWrite(Head(queue), s), Head(queue).op = "adjust",
         Head(queue).from \in Int, Head(queue).delta \in Int, tables[s] \in Table,
         tables'[s] = Adjusted(tables[s], Head(queue).from, Head(queue).delta), OrderFor(s)
  PROVE  /\ OrderFor(s)'
         /\ \A w \in Writers :
              /\ PlanFor(w, s) /\ s \in Writes(offer[w])
              /\ offer'[w] = offer[w] /\ plan'[w] = plan[w]
              => PlanFor(w, s)'
         /\ ExcuseFor(s) /\ Unsure(s) \subseteq Unsure(s)' => ExcuseFor(s)'
<1>1. 1 \in QueuedFor(s) /\ Head(queue) = queue[1] /\ queue[1].op = "adjust"
  BY DEF Taken
<1>2. ASSUME NEW j \in QueuedFor(s)
      PROVE  queue[j].op # "import"
  <2>1. j \in Int /\ ~ (j < 1)
    BY DEF Taken
  <2> QED
    BY <1>1, <2>1 DEF OrderFor
<1>3. ASSUME NEW i \in QueuedFor(s)'
      PROVE  i + 1 \in QueuedFor(s) /\ queue'[i] = queue[i + 1] /\ queue[i + 1].op # "import"
  BY <1>2 DEF Taken
<1>4. ~ ImportQueued(s)' /\ ~ ImportQueued(s)
  BY <1>2, <1>3 DEF ImportQueued
<1>5. OrderFor(s)'
  BY <1>3 DEF OrderFor
<1>6. PICK t : t = tables[s]
  OBVIOUS
<1>7. PICK u : u = tables'[s]
  OBVIOUS
<1>8. PICK from \in Int : from = Head(queue).from
  OBVIOUS
<1>9. PICK delta \in Int : delta = Head(queue).delta
  OBVIOUS
<1>10. t \in Table /\ u = Adjusted(t, from, delta)
  BY <1>6, <1>7, <1>8, <1>9
<1>11. ASSUME NEW w \in Writers, PlanFor(w, s), s \in Writes(offer[w]),
             offer'[w] = offer[w], plan'[w] = plan[w]
      PROVE  PlanFor(w, s)'
  <2>1. PICK o : o = offer[w]
    OBVIOUS
  <2>2. PICK rows : rows = plan[w][s].rows
    OBVIOUS
  <2>3. from = Last(o, s) + 1
    BY <1>1, <1>8, <1>11, <2>1 DEF PlanFor
  <2>4. /\ First(o, s) \in Int /\ Last(o, s) \in Int /\ First(o, s) <= Last(o, s)
        /\ First(o, s) \in Hours /\ Last(o, s) \in Hours
    <3>1. First(o, s) \in Hours /\ Last(o, s) \in Hours /\ First(o, s) <= Last(o, s)
      BY <1>11, <2>1, SpanHours
    <3> QED
      BY <3>1, HoursAreNaturals
  <2>5. u \in Table /\ Numeric(u) = Numeric(t) /\ \A h \in Hours : ~ (h >= from) => u[h] = t[h]
    BY <1>10, AdjustKeeps
  <2>6. \A h \in Hours : h <= Last(o, s) => u[h] = t[h]
    <3> TAKE h \in Hours
    <3>1. h \in Int
      BY HoursAreNaturals
    <3> QED
      BY <2>3, <2>4, <2>5, <3>1
  <2>7. \A h \in Hours : h < First(o, s) => t[h] = u[h]
    <3> TAKE h \in Hours
    <3>1. h \in Int
      BY HoursAreNaturals
    <3> QED
      BY <2>4, <2>6, <3>1
  <2>8. BaseSum(t, First(o, s)) = BaseSum(u, First(o, s))
    BY <1>10, <2>5, <2>7, SameBefore
  <2>9. Chained(o, s, rows, BaseSum(u, First(o, s)))
    BY <1>6, <1>11, <2>1, <2>2, <2>8 DEF PlanFor
  <2>10. plan[w][s].following = Oldest({h \in Numeric(u) : h > Last(o, s)})
    BY <1>6, <1>11, <2>1, <2>5 DEF PlanFor
  <2>11. \A h \in First(o, s) .. Last(o, s) : u[h] = rows[h]
    <3> TAKE h \in First(o, s) .. Last(o, s)
    <3>1. h \in Hours /\ h <= Last(o, s)
      BY <2>4, LastHourAssumption DEF Hours
    <3>2. t[h] = rows[h]
      BY <1>4, <1>6, <1>11, <2>1, <2>2 DEF PlanFor, WithImport
    <3> QED
      BY <2>6, <3>1, <3>2
  <2>12. WithImport(w, s)' = u
    BY <1>4, <1>7 DEF WithImport
  <2>13. \A i \in QueuedFor(s)' : /\ queue'[i].op # "import"
                                  /\ queue'[i].from = Last(o, s) + 1
    BY <1>3, <1>11, <2>1 DEF PlanFor
  <2> QED
    BY <1>7, <1>11, <2>1, <2>2, <2>9, <2>10, <2>11, <2>12, <2>13 DEF PlanFor
<1>12. ASSUME ExcuseFor(s), Unsure(s) \subseteq Unsure(s)'
      PROVE  ExcuseFor(s)'
  <2>1. Excused(t, Unsure(s)) /\ from - 1 \in Unsure(s)
    BY <1>1, <1>6, <1>8, <1>12 DEF ExcuseFor
  <2>2. Excused(u, Unsure(s))
    BY <1>10, <2>1, AdjustIsExcused
  <2>3. Excused(u, Unsure(s)')
    BY <1>12, <2>2, ExcusedGrows
  <2>4. \A i \in QueuedFor(s)' : /\ queue'[i].op # "import"
                                 /\ queue'[i].from - 1 \in Unsure(s)'
    BY <1>3, <1>12 DEF ExcuseFor
  <2> QED
    BY <1>7, <2>3, <2>4 DEF ExcuseFor
<1> QED
  BY <1>5, <1>11, <1>12

\* What holds of each statistic after its oldest write is gone from the queue.
Carried(s) ==
  /\ OrderFor(s)'
  /\ \A w \in Writers : PlanFor(w, s) /\ s \in Writes(offer[w]) => PlanFor(w, s)'
  /\ ExcuseFor(s) => ExcuseFor(s)'

\* A task off the queue, statistic by statistic.
LEMMA TakenJoined ==
  ASSUME IInv, Joined, UNCHANGED <<offer, seen, anchor, plan, unconfirmed>>,
         \A w \in Writers : pc'[w] \in HasRead => pc'[w] = pc[w],
         \A w \in Writers : pc'[w] \in HasQueued <=> pc[w] \in HasQueued,
         \A s \in Stats : Carried(s) /\ (tables'[s] = tables[s] \/ QueuedFor(s) # {})
  PROVE  Joined' /\ (Excuses => Excuses')
<1>1. Anchors'
  <2>1. ASSUME NEW w \in Writers, pc'[w] \in HasRead, NEW s \in Writes(offer'[w])
        PROVE  AnchorFor(w, s)'
    <3>1. pc'[w] = pc[w] /\ pc[w] \in HasRead /\ offer'[w] = offer[w] /\ s \in Stats
      BY <2>1, WritesAreStats
    <3>2. AnchorFor(w, s) /\ s \in Writes(offer[w])
      BY <2>1, <3>1 DEF Joined, Anchors
    <3>3. QueuedFor(s) = {}
      BY <3>1, <3>2 DEF IInv, NothingQueued, HasRead, Clear
    <3>4. tables'[s] = tables[s]
      BY <3>1, <3>3
    <3>5. Searched(w)' = Searched(w)
      BY DEF Searched
    <3> QED
      BY <3>1, <3>2, <3>4, <3>5 DEF AnchorFor
  <2> QED
    BY <2>1 DEF Anchors
<1>2. Plans'
  <2>1. ASSUME NEW w \in Writers, pc'[w] \in HasQueued, NEW s \in Writes(offer'[w])
        PROVE  PlanFor(w, s)'
    <3>1. pc[w] \in HasQueued /\ s \in Writes(offer[w]) /\ s \in Stats
      BY <2>1, WritesAreStats
    <3> QED
      BY <3>1 DEF Joined, Plans, Carried
  <2> QED
    BY <2>1 DEF Plans
<1>3. Orders' /\ (Excuses => Excuses')
  BY DEF Carried, Orders, Excuses
<1> QED
  BY <1>1, <1>2, <1>3 DEF Joined

\* The recorder runs its oldest task.
LEMMA RecorderRunsJoined ==
  ASSUME IInv, Typed, Joined, RecorderRuns
  PROVE  Joined' /\ (Excuses => Excuses')
<1>1. /\ queue # <<>> /\ queue' = Tail(queue)
      /\ tables' = RunTask(tables, Head(queue)) /\ pc' = Resumed(Head(queue))
      /\ UNCHANGED <<offer, seen, anchor, plan, unconfirmed>>
  BY DEF RecorderRuns, replay
<1>2. PICK task : task = Head(queue)
  OBVIOUS
<1>3. /\ TaskOK(task)
      /\ \A w \in Writers : task = BarrierTask(w) => pc[w] \in Waiting
  BY <1>1, <1>2, QueuedTail DEF Typed
<1>4. /\ \/ task.op \in {"import", "adjust"}
         \/ \E w \in Writers \cup {None} : task = BarrierTask(w)
      /\ task.op \in {"import", "adjust", "barrier"}
  <2>1. Head(queue) = queue[1] /\ 1 \in DOMAIN queue
    BY <1>1, TailTasks DEF IInv, Shape
  <2> QED
    BY <1>2, <2>1, BarriersDiffer DEF IInv, Tasks
<1>5. \A s \in Stats : Taken(s)
  BY <1>1, TakenWrites DEF IInv, Shape
<1>6. \A s \in Stats :
        /\ tables[s] \in Table
        /\ tables'[s] = IF task.op = "import" /\ task.stat = s
                        THEN Imported(tables[s], task.rows)
                        ELSE IF task.op \in {"adjust", "user"} /\ task.stat = s
                        THEN Adjusted(tables[s], task.from, task.delta)
                        ELSE tables[s]
  BY <1>1, <1>2, <1>3, TaskRuns DEF Typed, Kinds
<1>7. /\ \A w \in Writers : pc'[w] \in HasRead => pc'[w] = pc[w]
      /\ \A w \in Writers : pc'[w] \in HasQueued <=> pc[w] \in HasQueued
  <2>1. CASE task.op \in {"import", "adjust"} \/ task = BarrierTask(None)
    BY <1>1, <1>2, <2>1, BarriersDiffer DEF Resumed
  <2>2. ASSUME NEW w \in Writers, task = BarrierTask(w)
        PROVE  \A v \in Writers : /\ pc'[v] \in HasRead => pc'[v] = pc[v]
                                  /\ pc'[v] \in HasQueued <=> pc[v] \in HasQueued
    <3>1. pc[w] \in Waiting /\ pc \in [Writers -> Locations]
      BY <1>3, <2>2 DEF Typed, Kinds
    <3>2. task.op = "barrier" /\ task.writer = w /\ w # None
      BY <2>2, BarriersDiffer, NoneIsNoWriter
    <3>3. pc' = [pc EXCEPT ![w] = IF @ = "settle" THEN "settled" ELSE "confirmed"]
      BY <1>1, <1>2, <3>2 DEF Resumed
    <3> QED
      BY <3>1, <3>3 DEF Waiting, HasRead, HasQueued
  <2> QED
    BY <1>4, <2>1, <2>2
<1>8. \A s \in Stats : Unsure(s) \subseteq Unsure(s)'
  BY <1>1, <1>7 DEF Unsure
<1>9. ASSUME NEW s \in Stats
      PROVE  Carried(s) /\ (tables'[s] = tables[s] \/ QueuedFor(s) # {})
  <2>1. Taken(s) /\ OrderFor(s) /\ tables[s] \in Table /\ Unsure(s) \subseteq Unsure(s)'
    BY <1>5, <1>6, <1>8 DEF Joined, Orders
  <2>2. CASE ~ IsWrite(task, s)
    <3>1. tables'[s] = tables[s]
      BY <1>4, <1>6, <2>2 DEF IsWrite
    <3>2. Moved(s, 1)
      BY <1>2, <2>1, <2>2, TakenMoves
    <3> QED
      BY <1>1, <2>1, <3>1, <3>2, StatKeeps DEF Carried
  <2>3. CASE IsWrite(task, s)
    <3>1. QueuedFor(s) # {}
      BY <1>2, <2>1, <2>3 DEF Taken
    <3>2. CASE task.op = "import"
      <4>1. tables'[s] = Imported(tables[s], Head(queue).rows)
        BY <1>2, <1>6, <2>3, <3>2 DEF IsWrite
      <4> QED
        BY <1>1, <1>2, <2>1, <2>3, <3>1, <3>2, <4>1, ImportRuns DEF Carried
    <3>3. CASE task.op = "adjust"
      <4>1. tables'[s] = Adjusted(tables[s], Head(queue).from, Head(queue).delta)
        BY <1>2, <1>6, <2>3, <3>3 DEF IsWrite
      <4>2. Head(queue).from \in Int /\ Head(queue).delta \in Int
        BY <1>2, <1>3, <3>3, BarriersDiffer DEF TaskOK
      <4> QED
        BY <1>1, <1>2, <2>1, <2>3, <3>1, <3>3, <4>1, <4>2, ShiftRuns DEF Carried
    <3> QED
      BY <2>3, <3>2, <3>3 DEF IsWrite
  <2> QED
    BY <2>2, <2>3
<1> QED
  BY <1>1, <1>7, <1>9, TakenJoined

\* The recorder loses a task that is no import.
LEMMA RecorderDropsJoined ==
  ASSUME IInv, Joined, LosesNoImport, RecorderDrops
  PROVE  Joined' /\ (Excuses => Excuses')
<1>1. /\ queue # <<>> /\ queue' = Tail(queue) /\ Head(queue).op # "import"
      /\ UNCHANGED <<tables, pc, offer, seen, anchor, plan, unconfirmed>>
  BY DEF RecorderDrops, replay, LosesNoImport
<1>2. \A s \in Stats : Unsure(s) \subseteq Unsure(s)'
  BY <1>1 DEF Unsure
<1>3. ASSUME NEW s \in Stats
      PROVE  Carried(s) /\ tables'[s] = tables[s]
  <2>1. Taken(s) /\ OrderFor(s) /\ tables'[s] = tables[s]
    BY <1>1, TakenWrites DEF IInv, Shape, Joined, Orders
  <2>2. Moved(s, 1)
    BY <1>1, <2>1, TakenMoves
  <2> QED
    BY <1>1, <1>2, <2>1, <2>2, StatKeeps DEF Carried
<1> QED
  BY <1>1, <1>3, TakenJoined

\* A restart empties the queue: what was being replayed is not confirmed.
LEMMA RestartJoined ==
  ASSUME Restart
  PROVE  Joined' /\ (Excuses => Excuses')
<1>1. /\ queue' = <<>> /\ tables' = tables
      /\ \A w \in Writers : pc'[w] = "idle"
      /\ \A s \in Stats : unconfirmed'[s] = Unsure(s)
  BY DEF Restart, Unsure
<1>2. \A s : QueuedFor(s)' = {}
  BY <1>1, EmptyIsSeq DEF QueuedFor
<1>3. Joined'
  BY <1>1, <1>2 DEF Joined, Anchors, Plans, Orders, OrderFor, HasRead, HasQueued
<1>4. \A s \in Stats : Unsure(s) \subseteq Unsure(s)'
  BY <1>1 DEF Unsure
<1>5. ASSUME Excuses
      PROVE  Excuses'
  <2>1. ASSUME NEW s \in Stats
        PROVE  ExcuseFor(s)'
    <3>1. Excused(tables[s], Unsure(s)')
      BY <1>4, <1>5, ExcusedGrows DEF Excuses, ExcuseFor
    <3> QED
      BY <1>1, <1>2, <3>1 DEF ExcuseFor
  <2> QED
    BY <2>1 DEF Excuses
<1> QED
  BY <1>3, <1>5

-------------------------------------------------------------------------------
(***************************************************************************)
(* What a confirmation shows.                                              *)
(***************************************************************************)

\* The row after a span follows on from the last of the span.
LEMMA AfterFollows ==
  ASSUME NEW o, NEW s \in Writes(o), NEW t \in Table, Last(o, s) \in Numeric(t),
         NEW after, after = Oldest({h \in Numeric(t) : h > Last(o, s)}), after # None,
         t[after].sum - t[Last(o, s)].sum = t[after].state
  PROVE  after \in Numeric(t) /\ FollowsOn(t, after)
<1>1. PICK last : last = Last(o, s)
  OBVIOUS
<1> DEFINE S == {h \in Numeric(t) : h > last}
<1>2. S \subseteq Hours /\ after = Oldest(S)
  BY <1>1, TableRows
<1>3. S # {}
  BY <1>2, OldestHour
<1>4. after \in S /\ \A h \in S : after <= h
  BY <1>2, <1>3, OldestHour
<1>5. last \in Numeric(t) /\ after \in Numeric(t)
  BY <1>1, <1>4
<1>6. /\ last \in Hours /\ after \in Hours /\ last \in Int /\ after \in Int
      /\ t[last].sum \in Int /\ t[after].sum \in Int
  BY <1>5, TableRows, HoursAreNaturals
<1>7. last < after
  BY <1>4, <1>6
<1>8. \A g \in Numeric(t) : g < after => g <= last
  <2> TAKE g \in Numeric(t)
  <2>1. g \in Hours /\ g \in Int
    BY TableRows, HoursAreNaturals
  <2>2. g > last => after <= g
    BY <1>4
  <2> QED
    BY <1>6, <2>1, <2>2
<1>9. Before(t, after) = last
  <2>1. {g \in Numeric(t) : g < after} \subseteq Hours
    BY TableRows
  <2> QED
    BY <1>5, <1>7, <1>8, <2>1, NewestIs DEF Before
<1>10. last # None
  BY <1>6, NoneAssumption
<1>11. t[after] \in Row
  BY <1>5, TableRows
<1>12. t[after].sum = t[after].state + t[last].sum
  <2>1. t[after].state \in Int
    BY <1>11 DEF Row
  <2> QED
    BY <1>1, <1>6, <2>1
<1> QED
  BY <1>5, <1>9, <1>10, <1>12 DEF FollowsOn

\* What a replay's joins, read back, tell of the rows of its spans, and of the
\* rows after them.
LEMMA ConfirmedSpan ==
  ASSUME IInv, Typed, Joined, NEW w \in Writers, pc[w] = "tail", JoinsHold(w),
         NEW s \in Writes(offer[w]), NEW o, o = offer[w], NEW t, t = tables[s]
  PROVE  /\ t \in Table /\ Last(o, s) \in Numeric(t) /\ QueuedFor(s) = {}
         /\ \A h \in Numeric(t) : First(o, s) <= h /\ h <= Last(o, s) => FollowsOn(t, h)
         /\ LET after == Oldest({h \in Numeric(t) : h > Last(o, s)})
            IN after # None => FollowsOn(t, after)
<1>1. s \in Stats /\ t \in Table
  BY WritesAreStats DEF Typed, Kinds
<1>2. QueuedFor(s) = {}
  BY DEF IInv, NothingQueued, Clear
<1>3. PlanFor(w, s)
  BY DEF Joined, Plans, HasQueued
<1>4. PICK rows : rows = plan[w][s].rows
  OBVIOUS
<1>5. \A h \in First(o, s) .. Last(o, s) : t[h] = rows[h]
  BY <1>2, <1>3, <1>4 DEF PlanFor, WithImport, ImportQueued
<1>6. Chained(o, s, rows, BaseSum(t, First(o, s)))
  BY <1>3, <1>4 DEF PlanFor
<1>7. \A h \in Numeric(t) : First(o, s) <= h /\ h <= Last(o, s) => FollowsOn(t, h)
  BY <1>1, <1>5, <1>6, SpanIsSeamless
<1>8. Last(o, s) \in Numeric(t)
  <2>1. First(o, s) \in Hours /\ Last(o, s) \in Hours /\ First(o, s) <= Last(o, s)
    BY SpanHours
  <2>2. First(o, s) \in Int /\ Last(o, s) \in Int
    BY <2>1, HoursAreNaturals
  <2>3. t[Last(o, s)] = rows[Last(o, s)]
    BY <1>5, <2>1, <2>2
  <2> QED
    BY <1>6, <2>1, <2>3, NoneAssumption DEF Chained, Numeric, Stored
<1>9. ASSUME NEW after, after = Oldest({h \in Numeric(t) : h > Last(o, s)}), after # None
      PROVE  FollowsOn(t, after)
  <2>1. plan[w][s].following = after
    BY <1>3, <1>9 DEF PlanFor
  <2>2. t[after].sum - t[Last(o, s)].sum = t[after].state
    BY <1>9, <2>1 DEF JoinsHold, TailHolds
  <2> QED
    BY <1>1, <1>8, <1>9, <2>2, AfterFollows
<1> QED
  BY <1>1, <1>2, <1>4, <1>5, <1>7, <1>8, <1>9

\* A seam that only an hour of a confirmed span would excuse is none.
LEMMA NoSeamIsLost ==
  ASSUME IInv, Typed, Joined, NEW w \in Writers, pc[w] = "tail", JoinsHold(w),
         NEW s \in Writes(offer[w]), NEW o, o = offer[w], NEW t, t = tables[s],
         NEW hours, Excused(t, hours)
  PROVE  Excused(t, hours \ (First(o, s) .. Last(o, s)))
<1>1. /\ t \in Table /\ Last(o, s) \in Numeric(t)
      /\ \A h \in Numeric(t) : First(o, s) <= h /\ h <= Last(o, s) => FollowsOn(t, h)
  BY ConfirmedSpan
<1>2. PICK after : after = Oldest({h \in Numeric(t) : h > Last(o, s)})
  OBVIOUS
<1>3. after # None => FollowsOn(t, after)
  BY <1>2, ConfirmedSpan
<1>4. PICK first : first = First(o, s)
  OBVIOUS
<1>5. PICK last : last = Last(o, s)
  OBVIOUS
<1>6. first \in Int /\ last \in Int
  <2>1. first \in Hours /\ last \in Hours
    BY <1>4, <1>5, SpanHours
  <2> QED
    BY <2>1, HoursAreNaturals
<1>7. SUFFICES ASSUME NEW h \in Seams(t)
               PROVE  \E g \in hours \ (first .. last) :
                        g <= h /\ (Before(t, h) # None => Before(t, h) <= g)
  BY <1>4, <1>5 DEF Excused
<1>8. h \in Numeric(t) /\ ~ FollowsOn(t, h) /\ h \in Hours /\ h \in Int
  BY <1>1, TableRows, HoursAreNaturals DEF Seams
<1>9. PICK g \in hours : g <= h /\ (Before(t, h) # None => Before(t, h) <= g)
  BY DEF Excused
<1>10. ASSUME g \in first .. last
       PROVE  FALSE
  <2>1. g \in Int /\ first <= g /\ g <= last /\ first <= h
    BY <1>6, <1>8, <1>9, <1>10
  <2>2. last < h
    BY <1>1, <1>4, <1>5, <1>6, <1>8, <2>1
  <2>3. PICK earlier : earlier = Before(t, h)
    OBVIOUS
  <2>4. /\ earlier \in Numeric(t) /\ earlier # None /\ earlier < h
        /\ \A k \in Numeric(t) : k < h => k <= earlier
    BY <1>1, <1>5, <2>2, <2>3, RowBefore
  <2>5. earlier \in Int /\ earlier <= last
    <3>1. earlier \in Int
      BY <1>1, <2>4, TableRows, HoursAreNaturals
    <3> QED
      BY <1>6, <1>9, <2>1, <2>3, <2>4, <3>1
  <2> DEFINE S == {k \in Numeric(t) : k > last}
  <2>6. S \subseteq Hours /\ h \in S /\ after = Oldest(S)
    BY <1>1, <1>2, <1>5, <1>6, <1>8, <2>2, TableRows
  <2>7. after \in S /\ after <= h
    BY <2>6, OldestHour
  <2>8. after \in Numeric(t) /\ after > last /\ after \in Int /\ after # None
    BY <1>1, <2>6, <2>7, HoursAreNaturals, NoneAssumption
  <2>9. after = h
    <3>1. after < h => after <= earlier
      BY <2>4, <2>8
    <3> QED
      BY <1>6, <1>8, <2>5, <2>7, <2>8, <3>1
  <2> QED
    BY <1>3, <1>8, <2>8, <2>9
<1> QED
  BY <1>9, <1>10

\* A confirmed replay: what it heals needs no hour of its spans any more.
LEMMA ReadTailHoldsJoined ==
  ASSUME IInv, Typed, Joined, NEW w \in Writers, ReadTailHolds(w)
  PROVE  Joined' /\ (Excuses => Excuses')
<1>1. PICK o : o = offer[w]
  OBVIOUS
<1>2. /\ pc[w] = "tail" /\ JoinsHold(w) /\ Idle(w) /\ tables' = tables /\ queue' = queue
      /\ unconfirmed' = [s \in Stats |->
              IF s \in Writes(o) THEN unconfirmed[s] \ (First(o, s) .. Last(o, s))
              ELSE unconfirmed[s]]
  BY <1>1 DEF ReadTailHolds
<1>3. Swept(queue, w)
  BY <1>2, QueueIsSwept DEF Waiting
<1>4. Joined' /\ Alone(w) /\ pc'[w] = "idle"
  BY <1>2, <1>3, IdleJoined
<1>5. \A s \in Stats : Moved(s, 0)
  BY <1>2, <1>3, SweptStays
<1>6. ASSUME NEW s \in Stats, NEW g \in Unsure(s),
             s \in Writes(o) => g \notin First(o, s) .. Last(o, s)
      PROVE  g \in Unsure(s)'
  <2>1. CASE g \in unconfirmed[s]
    BY <1>2, <1>6, <2>1 DEF Unsure
  <2>2. CASE \E v \in Writers : pc[v] \in HasQueued /\ g \in Given(offer[v], s)
    <3>1. PICK v \in Writers : pc[v] \in HasQueued /\ g \in Given(offer[v], s)
      BY <2>2
    <3>2. CASE v = w
      <4>1. g \in Given(o, s) /\ s \in Writes(o)
        BY <1>1, <3>1, <3>2 DEF Writes
      <4>2. First(o, s) \in Int /\ Last(o, s) \in Int /\ g \in Int
        <5>1. First(o, s) \in Hours /\ Last(o, s) \in Hours /\ g \in Hours
          BY <4>1, SpanHours
        <5> QED
          BY <5>1, HoursAreNaturals
      <4>3. First(o, s) <= g /\ g <= Last(o, s)
        BY <4>1, SpanHours
      <4> QED
        BY <1>6, <4>1, <4>2, <4>3
    <3>3. CASE v # w
      BY <1>4, <3>1, <3>3 DEF Alone, Unsure
    <3> QED
      BY <3>2, <3>3
  <2> QED
    BY <2>1, <2>2 DEF Unsure
<1>7. ASSUME Excuses
      PROVE  Excuses'
  <2>1. ASSUME NEW s \in Stats, s \notin Writes(o)
        PROVE  ExcuseFor(s)'
    <3>1. Unsure(s) \subseteq Unsure(s)' /\ tables'[s] = tables[s] /\ ExcuseFor(s)
      BY <1>2, <1>6, <1>7, <2>1 DEF Excuses
    <3> QED
      BY <1>5, <3>1, StatKeeps
  <2>2. ASSUME NEW s \in Stats, s \in Writes(o)
        PROVE  ExcuseFor(s)'
    <3>1. Excused(tables[s], Unsure(s))
      BY <1>7 DEF Excuses, ExcuseFor
    <3>2. Excused(tables[s], Unsure(s) \ (First(o, s) .. Last(o, s)))
      BY <1>1, <1>2, <2>2, <3>1, NoSeamIsLost
    <3>3. Unsure(s) \ (First(o, s) .. Last(o, s)) \subseteq Unsure(s)'
      BY <1>6
    <3>4. Excused(tables[s], Unsure(s)')
      BY <3>2, <3>3, ExcusedGrows
    <3>5. QueuedFor(s)' = {}
      BY <1>1, <1>2, <2>2, ConfirmedSpan DEF QueuedFor
    <3> QED
      BY <1>2, <3>4, <3>5 DEF ExcuseFor
  <2> QED
    BY <2>1, <2>2 DEF Excuses
<1> QED
  BY <1>4, <1>7

-------------------------------------------------------------------------------
(***************************************************************************)
(* Every step keeps it, and what follows.                                  *)
(***************************************************************************)

\* Nothing is read, queued or unconfirmed at first.
LEMMA InitJoined == Init => Joined
<1> SUFFICES ASSUME Init PROVE Joined
  OBVIOUS
<1>1. \A w \in Writers : pc[w] = "idle"
  BY DEF Init
<1>2. \A s : QueuedFor(s) = {}
  BY EmptyIsSeq DEF Init, QueuedFor
<1> QED
  BY <1>1, <1>2 DEF Joined, Anchors, Plans, Orders, OrderFor, HasRead, HasQueued

\* Every step keeps the joins of what is being replayed, and what excuses seams.
LEMMA NextJoined ==
  ASSUME IInv, Typed, Joined, Undisturbed', [LosesNoImport]_vars, [Next]_vars
  PROVE  Joined' /\ (Excuses => Excuses')
<1>1. CASE UNCHANGED vars
  <2>1. /\ \A s \in Stats : QueuedFor(s)' = QueuedFor(s) /\ Unsure(s)' = Unsure(s)
        /\ \A w \in Writers : Searched(w)' = Searched(w)
        /\ \A w \in Writers, s \in Stats : WithImport(w, s)' = WithImport(w, s)
    BY <1>1 DEF vars, QueuedFor, Unsure, Searched, WithImport, ImportQueued
  <2>2. \A w \in Writers : Writes(offer[w])' = Writes(offer[w]) /\ Writes(offer[w]) \subseteq Stats
    BY <1>1, WritesAreStats DEF vars
  <2>3. Anchors'
    BY <1>1, <2>1, <2>2 DEF vars, Joined, Anchors, AnchorFor
  <2>4. Plans'
    BY <1>1, <2>1, <2>2 DEF vars, Joined, Plans, PlanFor
  <2>5. Orders' /\ (Excuses => Excuses')
    BY <1>1, <2>1 DEF vars, Joined, Orders, OrderFor, Excuses, ExcuseFor
  <2> QED
    BY <2>3, <2>4, <2>5 DEF Joined
<1>2. ASSUME NEW w \in Writers, Begin(w) \/ Step(w) \/ TimesOut(w) \/ Cancel(w)
      PROVE  Joined' /\ (Excuses => Excuses')
  <2>1. CASE Begin(w)
    BY <2>1, BeginJoined
  <2>2. CASE TakeLock(w) \/ Settle(w) \/ TimesOut(w) \/ Cancel(w)
    BY <2>2, TakeLockJoined, SettleJoined, SettleTimesOutJoined, ConfirmTimesOutJoined,
       CancelJoined DEF TimesOut
  <2>3. CASE ReadNear(w) \/ ReadFar(w) \/ ReadOlder(w) \/ BuildAndQueue(w)
    BY <2>3, ReadNearJoined, ReadFarJoined, ReadOlderJoined, BuildAndQueueJoined
  <2>4. CASE ReadHead(w) \/ ReadTailHolds(w) \/ ReadTailFails(w)
    BY <2>4, ReadHeadJoined, ReadTailHoldsJoined, ReadTailFailsJoined
  <2> QED
    BY <1>2, <2>1, <2>2, <2>3, <2>4 DEF Step
<1>3. CASE RecorderRuns
  BY <1>3, RecorderRunsJoined
<1>4. CASE RecorderDrops /\ LosesNoImport
  BY <1>4, RecorderDropsJoined
<1>5. CASE Restart
  BY <1>5, RestartJoined
<1>6. ~ RecorderRequeues /\ ~ UserAdjusts
  <2>1. "requeues" \in DOMAIN Bounds /\ "adjusts" \in DOMAIN Bounds
    BY DEF Bounds
  <2> QED
    BY <2>1 DEF RecorderRequeues, UserAdjusts, Use, Bounds, Undisturbed, IInv, Shape
<1> QED
  BY <1>1, <1>2, <1>3, <1>4, <1>5, <1>6 DEF Next

\* The invariant of a reliable behaviour.
RInv == IInv /\ Typed /\ Joined

\* It holds at first.
LEMMA ReliableInit == Init => RInv
  BY InitInv, InitTyped, InitJoined DEF RInv

\* And a reliable step keeps it.
LEMMA ReliableStep ==
  ASSUME RInv, Undisturbed', [LosesNoImport]_vars, [Next]_vars
  PROVE  RInv' /\ (Excuses => Excuses')
  BY NextStep, NextTyped, NextJoined DEF RInv

\* A replay is confirmed only with every row of its spans stored as it built it,
\* whatever times out, is cancelled or restarts, as long as the recorder runs
\* every import where it was queued and no user changes a running sum: "Its
\* writes are confirmed before it returns" (statistics.py:12).
THEOREM ConfirmedStored == Spec /\ Reliable => ConfirmedIsStored
<1>1. RInv => [\A w \in Writers : ReadTailHolds(w) =>
                 \A s \in Writes(offer[w]) :
                   \A h \in First(offer[w], s) .. Last(offer[w], s) :
                     tables[s][h] = plan[w][s].rows[h]]_vars
  <2> SUFFICES ASSUME RInv, NEW w \in Writers, ReadTailHolds(w), NEW s \in Writes(offer[w])
               PROVE  \A h \in First(offer[w], s) .. Last(offer[w], s) :
                        tables[s][h] = plan[w][s].rows[h]
    OBVIOUS
  <2>1. pc[w] = "tail"
    BY DEF ReadTailHolds
  <2>2. PlanFor(w, s)
    BY <2>1 DEF RInv, Joined, Plans, HasQueued
  <2>3. QueuedFor(s) = {}
    BY <2>1 DEF RInv, IInv, NothingQueued, Clear
  <2> QED
    BY <2>2, <2>3 DEF PlanFor, WithImport, ImportQueued
<1>2. RInv /\ Undisturbed' /\ [LosesNoImport]_vars /\ [Next]_vars => RInv'
  BY ReliableStep
<1> QED
  BY <1>1, <1>2, ReliableInit, PTL DEF Spec, Reliable, ConfirmedIsStored

\* And then the running sums of its spans, and of the first row after each,
\* follow on, whatever seams the tables held before (async_replay, steps 2 and 3).
THEOREM ConfirmedSeamless == Spec /\ Reliable => ConfirmedIsSeamless
<1>1. RInv => [\A w \in Writers : ReadTailHolds(w) =>
                 \A s \in Writes(offer[w]) :
                   LET last == Last(offer[w], s)
                       after == Oldest({h \in Numeric(tables[s]) : h > last})
                   IN Seams(tables[s]) \cap
                        ((First(offer[w], s) .. last) \cup {after}) = {}]_vars
  <2> SUFFICES ASSUME RInv, NEW w \in Writers, ReadTailHolds(w), NEW s \in Writes(offer[w]),
                      NEW o, o = offer[w], NEW t, t = tables[s],
                      NEW after, after = Oldest({h \in Numeric(t) : h > Last(o, s)}),
                      NEW h \in Seams(t), h \in (First(o, s) .. Last(o, s)) \cup {after}
               PROVE  FALSE
    OBVIOUS
  <2>1. pc[w] = "tail" /\ JoinsHold(w)
    BY DEF ReadTailHolds
  <2>2. /\ t \in Table
        /\ \A g \in Numeric(t) : First(o, s) <= g /\ g <= Last(o, s) => FollowsOn(t, g)
    BY <2>1, ConfirmedSpan DEF RInv
  <2>3. after # None => FollowsOn(t, after)
    BY <2>1, ConfirmedSpan DEF RInv
  <2>4. h \in Numeric(t) /\ ~ FollowsOn(t, h) /\ h # None
    BY <2>2, TableRows, HoursAreNaturals, NoneAssumption DEF Seams
  <2>5. First(o, s) \in Int /\ Last(o, s) \in Int
    <3>1. First(o, s) \in Hours /\ Last(o, s) \in Hours
      BY SpanHours
    <3> QED
      BY <3>1, HoursAreNaturals
  <2> QED
    BY <2>2, <2>3, <2>4, <2>5
<1>2. RInv /\ Undisturbed' /\ [LosesNoImport]_vars /\ [Next]_vars => RInv'
  BY ReliableStep
<1> QED
  BY <1>1, <1>2, ReliableInit, PTL DEF Spec, Reliable, ConfirmedIsSeamless

\* Tables without a seam at first never hold one that nobody knows of: once no
\* write of a statistic is under way, each seam lies at, or right after, an hour
\* of a replay that was not confirmed, which the caller offers again.
THEOREM SeamsKnown ==
  ASSUME \A t \in InitTables : \A s \in Stats : Seams(t[s]) = {}
  PROVE  Spec /\ Reliable => []SeamsAreUnconfirmed
<1>1. Init => RInv /\ Excuses
  <2> SUFFICES ASSUME Init PROVE Excuses
    BY ReliableInit
  <2>1. \A s : QueuedFor(s) = {}
    BY EmptyIsSeq DEF Init, QueuedFor
  <2> QED
    BY <2>1 DEF Init, Excuses, ExcuseFor, Excused
<1>2. RInv /\ Excuses /\ Undisturbed' /\ [LosesNoImport]_vars /\ [Next]_vars
        => RInv' /\ Excuses'
  BY ReliableStep
<1>3. Excuses => SeamsAreUnconfirmed
  <2> SUFFICES ASSUME Excuses, NEW s \in Stats,
                      \A w \in Writers : pc[w] \in HasQueued => s \notin Writes(offer[w])
               PROVE  Excused(tables[s], unconfirmed[s])
    BY DEF SeamsAreUnconfirmed, Excused
  <2>1. \A w \in Writers : pc[w] \in HasQueued => Given(offer[w], s) = {}
    BY DEF Writes
  <2>2. Unsure(s) \subseteq unconfirmed[s]
    BY <2>1 DEF Unsure
  <2>3. Excused(tables[s], Unsure(s))
    BY DEF Excuses, ExcuseFor
  <2> QED
    BY <2>2, <2>3, ExcusedGrows
<1> QED
  BY <1>1, <1>2, <1>3, PTL DEF Spec, Reliable

-------------------------------------------------------------------------------
(***************************************************************************)
(* How far a replay reaches: as long as no replay ends with its writes     *)
(* still queued, none changes a step past the first row after its span.    *)
(***************************************************************************)

\* Every write that is queued is one that a replay waits for.
NoneForsaken ==
  \A s \in Stats : QueuedFor(s) # {} =>
    \E w \in Writers : pc[w] \in HasQueued /\ s \in Writes(offer[w])

\* With a row between the hours that changed and an hour, the row before that
\* hour is the same.
LEMMA SameAfter ==
  ASSUME NEW t \in Table, NEW u \in Table, NEW last \in Hours, NEW h \in Hours,
         \A g \in Hours : g > last => u[g] = t[g],
         NEW k \in Numeric(t), last < k, k < h
  PROVE  Before(u, h) = Before(t, h) /\ Before(t, h) # None
           /\ u[Before(t, h)] = t[Before(t, h)]
<1>1. /\ \A g \in Hours : g \in Int
      /\ \A g \in Numeric(t) : g \in Hours
      /\ \A g \in Numeric(u) : g \in Hours
  BY TableRows, HoursAreNaturals
<1>2. \A g \in Hours : g > last => (g \in Numeric(u) <=> g \in Numeric(t))
  BY DEF Numeric, Stored
<1>3. PICK earlier : earlier = Before(t, h)
  OBVIOUS
<1>4. /\ earlier \in Numeric(t) /\ earlier # None /\ earlier < h
      /\ \A g \in Numeric(t) : g < h => g <= earlier
  BY <1>3, RowBefore
<1>5. k <= earlier
  BY <1>4
<1>6. earlier > last /\ earlier \in Hours
  BY <1>1, <1>4, <1>5
<1>7. earlier \in Numeric(u) /\ u[earlier] = t[earlier]
  BY <1>2, <1>4, <1>6
<1>8. \A g \in Numeric(u) : g < h => g <= earlier
  <2> TAKE g \in Numeric(u)
  <2>1. g > last => g \in Numeric(t)
    BY <1>1, <1>2
  <2> QED
    BY <1>1, <1>4, <1>6, <2>1
<1>9. Before(u, h) = earlier
  <2>1. {g \in Numeric(u) : g < h} \subseteq Hours
    BY <1>1
  <2> QED
    BY <1>4, <1>7, <1>8, <2>1, NewestIs DEF Before
<1> QED
  BY <1>3, <1>4, <1>7, <1>9

\* A row that is past the span, and not the first after it, has one between.
LEMMA RowBetween ==
  ASSUME NEW t \in Table, NEW last \in Hours, NEW h \in Numeric(t), h > last,
         NEW after, after = Oldest({g \in Numeric(t) : g > last}), h # after
  PROVE  after \in Numeric(t) /\ last < after /\ after < h
<1> DEFINE S == {g \in Numeric(t) : g > last}
<1>1. S \subseteq Hours /\ h \in S
  BY TableRows
<1>2. after \in S /\ after <= h
  BY <1>1, OldestHour
<1>3. after \in Int /\ h \in Int /\ last \in Int
  BY <1>1, <1>2, HoursAreNaturals
<1> QED
  BY <1>2, <1>3

\* An import changes no step before its span, or past the first row after it.
LEMMA ImportStepsAre ==
  ASSUME NEW o, NEW s \in Writes(o), NEW t \in Table, NEW rows, NEW base,
         Chained(o, s, rows, base), NEW u, u = Imported(t, rows),
         NEW h \in Numeric(t), StepAt(u, h) # StepAt(t, h),
         NEW after, after = Oldest({g \in Numeric(t) : g > Last(o, s)})
  PROVE  First(o, s) <= h /\ (h <= Last(o, s) \/ h = after)
<1>1. /\ u \in Table
      /\ \A g \in Hours : g < First(o, s) \/ g > Last(o, s) => u[g] = t[g]
  BY ImportKeeps
<1>2. First(o, s) \in Hours /\ Last(o, s) \in Hours /\ First(o, s) <= Last(o, s)
  BY SpanHours
<1>3. First(o, s) \in Int /\ Last(o, s) \in Int /\ h \in Hours /\ h \in Int
  BY <1>2, TableRows, HoursAreNaturals
<1>4. ASSUME h < First(o, s)
      PROVE  FALSE
  <2>1. \A g \in Hours : g < h => u[g] = t[g]
    BY <1>1, <1>3, <1>4, HoursAreNaturals
  <2>2. Before(u, h) = Before(t, h) /\ BaseSum(u, h) = BaseSum(t, h)
    BY <1>1, <2>1, SameBefore
  <2>3. u[h] = t[h]
    BY <1>1, <1>3, <1>4
  <2> QED
    BY <2>2, <2>3 DEF StepAt, BaseSum
<1>5. ASSUME h > Last(o, s), h # after
      PROVE  FALSE
  <2>1. after \in Numeric(t) /\ Last(o, s) < after /\ after < h
    BY <1>2, <1>5, RowBetween
  <2>2. /\ Before(u, h) = Before(t, h) /\ u[Before(t, h)] = t[Before(t, h)]
    BY <1>1, <1>2, <1>3, <2>1, SameAfter
  <2>3. u[h] = t[h]
    BY <1>1, <1>3, <1>5
  <2> QED
    BY <2>2, <2>3 DEF StepAt
<1> QED
  BY <1>3, <1>4, <1>5

\* A shift changes no step but that of the first row it shifts.
LEMMA ShiftStepsAre ==
  ASSUME NEW t \in Table, NEW last \in Hours, NEW from \in Int, from = last + 1,
         NEW delta \in Int, NEW u, u = Adjusted(t, from, delta),
         NEW h \in Numeric(t), StepAt(u, h) # StepAt(t, h)
  PROVE  h = Oldest({g \in Numeric(t) : g > last}) /\ last < h
<1>1. /\ \A g \in Hours : ~ (g >= from) => u[g] = t[g]
      /\ \A g \in Numeric(t) : g >= from => u[g].sum = t[g].sum + delta
      /\ Before(u, h) = Before(t, h)
  BY AdjustKeeps
<1>2. last \in Int /\ h \in Hours /\ h \in Int /\ t[h].sum \in Int
  BY TableRows, HoursAreNaturals
<1>3. PICK earlier : earlier = Before(t, h)
  OBVIOUS
<1>4. \/ earlier = None /\ \A g \in Numeric(t) : ~ (g < h)
      \/ /\ earlier \in Numeric(t) /\ earlier < h /\ earlier # None
         /\ \A g \in Numeric(t) : g < h => g <= earlier
  BY <1>3, RowBefore
<1>5. earlier # None => earlier \in Hours /\ earlier \in Int /\ t[earlier].sum \in Int
  BY <1>4, TableRows, HoursAreNaturals
<1>6. h >= from
  <2>1. ASSUME ~ (h >= from)
        PROVE  FALSE
    <3>1. u[h] = t[h] /\ (earlier # None => u[earlier] = t[earlier])
      BY <1>1, <1>2, <1>4, <1>5, <2>1
    <3> QED
      BY <1>1, <1>3, <3>1 DEF StepAt
  <2> QED
    BY <2>1
<1>7. earlier # None => ~ (earlier >= from)
  <2>1. ASSUME earlier # None, earlier >= from
        PROVE  FALSE
    <3>1. u[h].sum = t[h].sum + delta /\ u[earlier].sum = t[earlier].sum + delta
      BY <1>1, <1>4, <1>6, <2>1
    <3>2. StepAt(u, h) = u[h].sum - u[earlier].sum /\ StepAt(t, h) = t[h].sum - t[earlier].sum
      BY <1>1, <1>3, <2>1 DEF StepAt
    <3> QED
      BY <1>2, <1>5, <2>1, <3>1, <3>2
  <2> QED
    BY <2>1
<1>8. PICK after : after = Oldest({g \in Numeric(t) : g > last})
  OBVIOUS
<1>9. ASSUME h # after
      PROVE  FALSE
  <2>1. after \in Numeric(t) /\ last < after /\ after < h
    BY <1>2, <1>6, <1>8, <1>9, RowBetween
  <2>2. after \in Int /\ after <= earlier /\ earlier # None
    <3>1. after \in Int
      BY <2>1, TableRows, HoursAreNaturals
    <3> QED
      BY <1>4, <2>1, <3>1
  <2> QED
    BY <1>2, <1>5, <1>7, <2>1, <2>2
<1> QED
  BY <1>2, <1>6, <1>8, <1>9

\* Steps later than the first row after a replay's span are never touched, as
\* long as no replay ends with its writes still queued: an "Adjust sum" that a
\* user made there before is kept (statistics.py:8-11).  The tables at first are
\* any, so they may hold such steps.
THEOREM LaterStepsKept == Spec /\ Reliable /\ []NoneForsaken => LaterStepsAreKept
<1>1. RInv /\ NoneForsaken =>
        [RecorderRuns /\ Head(queue).op # "user" =>
           \A s \in Stats : \A h \in Numeric(tables[s]) :
             StepAt(tables'[s], h) # StepAt(tables[s], h) =>
               \E w \in Writers :
                 /\ plan[w][s] # None
                 /\ First(offer[w], s) <= h
                 /\ h <= Last(offer[w], s) \/ h = plan[w][s].following]_vars
  <2> SUFFICES ASSUME RInv, NoneForsaken, RecorderRuns, NEW s \in Stats,
                      NEW h \in Numeric(tables[s]),
                      StepAt(tables'[s], h) # StepAt(tables[s], h)
               PROVE  \E w \in Writers :
                        /\ plan[w][s] # None
                        /\ First(offer[w], s) <= h
                        /\ h <= Last(offer[w], s) \/ h = plan[w][s].following
    OBVIOUS
  <2>1. PICK task : task = Head(queue)
    OBVIOUS
  <2>2. /\ queue # <<>> /\ queue' = Tail(queue) /\ tables' = RunTask(tables, task)
        /\ IsSeq(queue) /\ Typed
    BY <2>1 DEF RecorderRuns, RInv, IInv, Shape
  <2>3. TaskOK(task)
    BY <2>1, <2>2, QueuedTail DEF Typed
  <2>4. task.op \in {"import", "adjust", "barrier"}
    <3>1. Head(queue) = queue[1] /\ 1 \in DOMAIN queue
      BY <2>2, TailTasks
    <3> QED
      BY <2>1, <3>1, BarriersDiffer DEF RInv, IInv, Tasks
  <2>5. /\ tables[s] \in Table
        /\ tables'[s] = IF task.op = "import" /\ task.stat = s
                        THEN Imported(tables[s], task.rows)
                        ELSE IF task.op \in {"adjust", "user"} /\ task.stat = s
                        THEN Adjusted(tables[s], task.from, task.delta)
                        ELSE tables[s]
    BY <2>2, <2>3, TaskRuns DEF Typed, Kinds
  <2>6. IsWrite(task, s)
    BY <2>4, <2>5 DEF IsWrite
  <2>7. 1 \in QueuedFor(s) /\ queue[1] = task
    <3>1. Taken(s)
      BY <2>2, TakenWrites
    <3> QED
      BY <2>1, <2>6, <3>1 DEF Taken
  <2>8. PICK w \in Writers : pc[w] \in HasQueued /\ s \in Writes(offer[w])
    BY <2>7 DEF NoneForsaken
  <2>9. PlanFor(w, s) /\ plan[w][s] # None
    BY <2>2, <2>8 DEF RInv, Joined, Plans, Typed, PlansHeld
  <2>10. PICK o : o = offer[w]
    OBVIOUS
  <2>11. PICK t : t = tables[s]
    OBVIOUS
  <2>12. PICK u : u = tables'[s]
    OBVIOUS
  <2>13. plan[w][s].following = Oldest({g \in Numeric(t) : g > Last(o, s)})
    BY <2>9, <2>10, <2>11 DEF PlanFor
  <2>14. PICK after : after = plan[w][s].following
    OBVIOUS
  <2>15. First(o, s) <= h /\ (h <= Last(o, s) \/ h = after)
    <3>1. CASE task.op = "import"
      <4>1. PICK rows : rows = task.rows
        OBVIOUS
      <4>2. Chained(o, s, rows, BaseSum(t, First(o, s)))
        BY <2>7, <2>9, <2>10, <2>11, <3>1, <4>1 DEF PlanFor
      <4>3. u = Imported(t, rows) /\ t \in Table
        BY <2>5, <2>6, <2>11, <2>12, <3>1, <4>1 DEF IsWrite
      <4> QED
        BY <2>8, <2>10, <2>11, <2>12, <2>13, <2>14, <4>2, <4>3, ImportStepsAre
    <3>2. CASE task.op = "adjust"
      <4>1. PICK from : from = task.from
        OBVIOUS
      <4>2. PICK delta : delta = task.delta
        OBVIOUS
      <4>3. from \in Int /\ delta \in Int
        BY <2>3, <3>2, <4>1, <4>2, BarriersDiffer DEF TaskOK
      <4>4. from = Last(o, s) + 1
        BY <2>7, <2>9, <2>10, <3>2, <4>1 DEF PlanFor
      <4>5. u = Adjusted(t, from, delta) /\ t \in Table
        BY <2>5, <2>6, <2>11, <2>12, <3>2, <4>1, <4>2 DEF IsWrite
      <4>6. First(o, s) \in Hours /\ Last(o, s) \in Hours /\ First(o, s) <= Last(o, s)
        BY <2>8, <2>10, SpanHours
      <4>7. h = after /\ Last(o, s) < h
        BY <2>11, <2>12, <2>13, <2>14, <4>3, <4>4, <4>5, <4>6, ShiftStepsAre
      <4>8. First(o, s) \in Int /\ Last(o, s) \in Int /\ h \in Int
        BY <2>11, <4>5, <4>6, TableRows, HoursAreNaturals
      <4> QED
        BY <4>6, <4>7, <4>8
    <3> QED
      BY <2>6, <3>1, <3>2 DEF IsWrite
  <2> QED
    BY <2>9, <2>10, <2>14, <2>15
<1>2. RInv /\ Undisturbed' /\ [LosesNoImport]_vars /\ [Next]_vars => RInv'
  BY ReliableStep
<1> QED
  BY <1>1, <1>2, ReliableInit, PTL DEF Spec, Reliable, LaterStepsAreKept
===============================================================================
