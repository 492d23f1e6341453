------------------------------ MODULE WalkProofs ------------------------------
(***************************************************************************)
(* Proofs about Walk, for any supply, windows of any length and any        *)
(* failures: a walk asks for each date once, newest first, what it has     *)
(* fetched is one block of dates back from the date it started on, and one *)
(* that ends leaves no newer hour out; a history starts where it was shown *)
(* to, the size of a window does not end walk after walk, and windows read *)
(* otherwise than asked are found out by the third.                        *)
(***************************************************************************)
EXTENDS Walk, WindowsProofs, SequenceTheorems, FiniteSetTheorems

\* A window of the queue, with its share of the progress.
Parts == [window : AWindow, share : Nat]

-------------------------------------------------------------------------------
(***************************************************************************)
(* The windows still to ask for: they cover the dates from to to, newest   *)
(* first, each once.                                                       *)
(***************************************************************************)
APart(part, from, to) ==
  LET w == part.window
  IN  /\ to <= w.first /\ w.first <= w.last /\ w.last <= from
      /\ w.last - w.first < WindowDays
      /\ part.share \in 1 .. WholeShare
      /\ w.first < w.last => part.share = WholeShare

Chain(q, from, to) ==
  /\ q \in Seq(Parts)
  /\ \A k \in 1 .. Len(q) :
       /\ APart(q[k], from, to)
       /\ q[k].window.last = IF k = 1 THEN from ELSE q[k - 1].window.first - 1
       /\ \A j \in 1 .. k - 1 : q[k].window.last < q[j].window.first
  /\ IF q = <<>> THEN from = to - 1 ELSE q[Len(q)].window.first = to

\* What a queue of windows is, window by window.
LEMMA PartsOf ==
  ASSUME NEW q \in Seq(Parts)
  PROVE  /\ Len(q) \in Nat /\ (q = <<>> <=> Len(q) = 0)
         /\ \A k \in 1 .. Len(q) :
              /\ q[k] \in Parts /\ q[k].window \in AWindow
              /\ q[k].window.first \in Int /\ q[k].window.last \in Int
<1>1. Len(q) \in Nat /\ (q = <<>> <=> Len(q) = 0)
  BY EmptySeq, LenProperties
<1>2. ASSUME NEW k \in 1 .. Len(q)
      PROVE  /\ q[k] \in Parts /\ q[k].window \in AWindow
             /\ q[k].window.first \in Int /\ q[k].window.last \in Int
  <2>1. q[k] \in Parts BY ElementOfSeq
  <2>2. q[k].window \in AWindow BY <2>1 DEF Parts
  <2> QED BY <2>1, <2>2 DEF AWindow
<1> QED BY <1>1, <1>2

\* The first window is the newest, and the others cover what is before it.
LEMMA ChainTail ==
  ASSUME NEW q, NEW from \in Int, NEW to \in Int, Chain(q, from, to), q # <<>>
  PROVE  /\ q \in Seq(Parts) /\ Head(q) \in Parts /\ Head(q) = q[1]
         /\ APart(Head(q), from, to) /\ Head(q).window.last = from
         /\ Head(q).window.first \in Int /\ Tail(q) \in Seq(Parts)
         /\ Chain(Tail(q), Head(q).window.first - 1, to)
<1>1. q \in Seq(Parts) /\ Len(q) \in Nat /\ Len(q) >= 1
      /\ Head(q) = q[1] /\ Head(q) \in Parts
  BY PartsOf, HeadTailProperties DEF Chain
<1>2. PICK t \in Seq(Parts) : t = Tail(q)
  BY <1>1, HeadTailProperties
<1>3. PICK n \in Nat : n = Len(q)
  BY <1>1
<1>4. Len(t) = n - 1 /\ n >= 1 /\ \A k \in 1 .. n - 1 : t[k] = q[k + 1]
  BY <1>1, <1>2, <1>3, HeadTailProperties DEF Chain
<1>5. /\ \A k \in 1 .. n : q[k].window.first \in Int /\ q[k].window.last \in Int
      /\ \A k \in 1 .. n :
           /\ APart(q[k], from, to)
           /\ q[k].window.last = IF k = 1 THEN from ELSE q[k - 1].window.first - 1
           /\ \A j \in 1 .. k - 1 : q[k].window.last < q[j].window.first
      /\ q[n].window.first = to
  BY <1>1, <1>3, PartsOf DEF Chain
<1>6. PICK next \in Int : next = q[1].window.first - 1
  BY <1>4, <1>5
<1>7. ASSUME NEW k \in 1 .. n - 1
      PROVE  /\ APart(t[k], next, to)
             /\ t[k].window.last = IF k = 1 THEN next ELSE t[k - 1].window.first - 1
             /\ \A j \in 1 .. k - 1 : t[k].window.last < t[j].window.first
  <2>1. k + 1 \in 1 .. n /\ 1 \in 1 .. (k + 1) - 1 /\ t[k] = q[k + 1] /\ k + 1 # 1
    BY <1>4
  <2>2. /\ APart(q[k + 1], from, to)
        /\ q[k + 1].window.last = q[k].window.first - 1
        /\ \A j \in 1 .. k : q[k + 1].window.last < q[j].window.first
    BY <2>1, <1>5
  <2>3. q[k + 1].window.last <= next
    <3>1. PICK last \in Int : last = q[k + 1].window.last
      BY <2>1, <1>5
    <3>2. PICK first \in Int : first = q[1].window.first
      BY <1>4, <1>5
    <3>3. last < first
      BY <3>1, <3>2, <2>1, <2>2
    <3> QED BY <3>1, <3>2, <3>3, <1>6
  <2>4. APart(t[k], next, to)
    BY <2>1, <2>2, <2>3 DEF APart
  <2>5. t[k].window.last = IF k = 1 THEN next ELSE t[k - 1].window.first - 1
    <3>1. CASE k = 1
      BY <3>1, <2>1, <2>2, <1>6
    <3>2. CASE k # 1
      <4>1. k - 1 \in 1 .. n - 1 BY <3>2
      <4>2. t[k - 1] = q[k] BY <4>1, <1>4
      <4> QED BY <4>2, <3>2, <2>1, <2>2
    <3> QED BY <3>1, <3>2
  <2>6. \A j \in 1 .. k - 1 : t[k].window.last < t[j].window.first
    <3> TAKE j \in 1 .. k - 1
    <3>1. j \in 1 .. n - 1 /\ j + 1 \in 1 .. k BY <1>4
    <3>2. t[j] = q[j + 1] BY <3>1, <1>4
    <3> QED BY <3>1, <3>2, <2>1, <2>2
  <2> QED BY <2>4, <2>5, <2>6
<1>8. IF t = <<>> THEN next = to - 1 ELSE t[Len(t)].window.first = to
  <2>1. CASE t = <<>>
    <3>1. n = 1 BY <2>1, <1>4, PartsOf
    <3> QED BY <3>1, <2>1, <1>5, <1>6
  <2>2. CASE t # <<>>
    <3>1. Len(t) = n - 1 /\ n - 1 \in 1 .. n - 1 BY <2>2, <1>4, PartsOf
    <3>2. t[n - 1] = q[n] BY <3>1, <1>4
    <3> QED BY <3>1, <3>2, <2>2, <1>5
  <2> QED BY <2>1, <2>2
<1>9. Chain(t, next, to)
  BY <1>4, <1>7, <1>8 DEF Chain
<1>10. APart(q[1], from, to) /\ q[1].window.last = from /\ q[1].window.first \in Int
  BY <1>4, <1>5
<1> QED
  BY <1>1, <1>2, <1>6, <1>9, <1>10

\* Windows that cover the dates before others follow them.
LEMMA ChainJoin ==
  ASSUME NEW b, NEW t, NEW from \in Int, NEW mid \in Int, NEW to \in Int,
         Chain(b, from, mid), b # <<>>, Chain(t, mid - 1, to), to <= mid
  PROVE  Chain(b \o t, from, to) /\ b \o t # <<>>
<1>1. b \in Seq(Parts) /\ t \in Seq(Parts)
  BY DEF Chain
<1>2. PICK n \in Nat : n = Len(b)
  BY <1>1, PartsOf
<1>3. PICK m \in Nat : m = Len(t)
  BY <1>1, PartsOf
<1>4. PICK s \in Seq(Parts) : s = b \o t
  BY <1>1, ConcatProperties
<1>5. Len(s) = n + m /\ n >= 1 /\ \A k \in 1 .. n + m : s[k] = IF k <= n THEN b[k] ELSE t[k - n]
  <2>1. Len(s) = n + m /\ \A k \in 1 .. n + m : s[k] = IF k <= n THEN b[k] ELSE t[k - n]
    BY <1>1, <1>2, <1>3, <1>4, ConcatProperties
  <2> QED BY <2>1, <1>1, <1>2, PartsOf
<1>6. /\ \A k \in 1 .. n :
           /\ APart(b[k], from, mid) /\ b[k].window.first \in Int /\ b[k].window.last \in Int
           /\ b[k].window.last = IF k = 1 THEN from ELSE b[k - 1].window.first - 1
           /\ \A j \in 1 .. k - 1 : b[k].window.last < b[j].window.first
      /\ b[n].window.first = mid
  BY <1>1, <1>2, PartsOf DEF Chain
<1>7. /\ \A k \in 1 .. m :
           /\ APart(t[k], mid - 1, to) /\ t[k].window.first \in Int /\ t[k].window.last \in Int
           /\ t[k].window.last = IF k = 1 THEN mid - 1 ELSE t[k - 1].window.first - 1
           /\ \A j \in 1 .. k - 1 : t[k].window.last < t[j].window.first
      /\ IF m = 0 THEN mid = to ELSE t[m].window.first = to
  BY <1>1, <1>3, PartsOf DEF Chain
<1>8. mid <= from
  BY <1>5, <1>6 DEF APart
<1>9. ASSUME NEW k \in 1 .. n + m
      PROVE  /\ APart(s[k], from, to)
             /\ s[k].window.last = IF k = 1 THEN from ELSE s[k - 1].window.first - 1
             /\ \A j \in 1 .. k - 1 : s[k].window.last < s[j].window.first
  <2>1. CASE k <= n
    <3>1. k \in 1 .. n /\ s[k] = b[k] BY <2>1, <1>5
    <3>2. APart(s[k], from, to) BY <3>1, <1>6 DEF APart
    <3>3. \A j \in 1 .. k - 1 : s[j] = b[j] BY <2>1, <1>5
    <3>4. s[k].window.last = IF k = 1 THEN from ELSE s[k - 1].window.first - 1
      <4>1. k # 1 => k - 1 \in 1 .. k - 1 OBVIOUS
      <4> QED BY <4>1, <3>1, <3>3, <1>6
    <3>5. \A j \in 1 .. k - 1 : s[k].window.last < s[j].window.first
      BY <3>1, <3>3, <1>6
    <3> QED BY <3>2, <3>4, <3>5
  <2>2. CASE k > n
    <3>1. PICK i \in 1 .. m : i = k - n
      BY <2>2
    <3>2. s[k] = t[i] BY <3>1, <2>2, <1>5
    <3>3. /\ APart(t[i], mid - 1, to) /\ t[i].window.first \in Int /\ t[i].window.last \in Int
          /\ t[i].window.last = IF i = 1 THEN mid - 1 ELSE t[i - 1].window.first - 1
          /\ \A j \in 1 .. i - 1 : t[i].window.last < t[j].window.first
      BY <1>7
    <3>4. APart(s[k], from, to)
      BY <3>2, <3>3, <1>8 DEF APart
    <3>5. s[k].window.last = s[k - 1].window.first - 1
      <4>1. CASE i = 1
        <5>1. k - 1 = n /\ n \in 1 .. n + m BY <4>1, <3>1, <1>5
        <5>2. s[k - 1] = b[n] BY <5>1, <1>5
        <5> QED BY <5>2, <4>1, <3>2, <3>3, <1>6
      <4>2. CASE i # 1
        <5>1. k - 1 \in 1 .. n + m /\ k - 1 > n /\ (k - 1) - n = i - 1 BY <4>2, <3>1, <2>2
        <5>2. s[k - 1] = t[i - 1] BY <5>1, <1>5
        <5> QED BY <5>2, <4>2, <3>2, <3>3
      <4> QED BY <4>1, <4>2
    <3>6. ASSUME NEW j \in 1 .. k - 1 PROVE s[k].window.last < s[j].window.first
      <4>1. CASE j <= n
        <5>1. j \in 1 .. n /\ j \in 1 .. n + m BY <4>1
        <5>2. s[j] = b[j] BY <5>1, <4>1, <1>5
        <5>3. APart(b[j], from, mid) /\ b[j].window.first \in Int BY <5>1, <1>6
        <5>4. mid <= b[j].window.first BY <5>3 DEF APart
        <5>5. t[i].window.last <= mid - 1 BY <3>3 DEF APart
        <5> QED BY <5>2, <5>3, <5>4, <5>5, <3>2, <3>3
      <4>2. CASE j > n
        <5>1. j \in 1 .. n + m /\ j - n \in 1 .. i - 1 BY <4>2, <3>1, <2>2
        <5>2. s[j] = t[j - n] BY <5>1, <4>2, <1>5
        <5> QED BY <5>1, <5>2, <3>2, <3>3
      <4> QED BY <4>1, <4>2
    <3>7. k # 1 BY <2>2, <1>5
    <3> QED BY <3>4, <3>5, <3>6, <3>7
  <2> QED BY <2>1, <2>2
<1>10. s # <<>> /\ s[n + m].window.first = to
  <2>1. s # <<>> BY <1>4, <1>5, PartsOf
  <2>2. CASE m = 0
    <3>1. s[n + m] = b[n] BY <2>2, <1>5
    <3> QED BY <3>1, <2>1, <2>2, <1>6, <1>7
  <2>3. CASE m # 0
    <3>1. n + m \in 1 .. n + m /\ n + m > n /\ (n + m) - n = m BY <2>3, <1>5
    <3>2. s[n + m] = t[m] BY <3>1, <1>5
    <3> QED BY <3>2, <2>1, <2>3, <1>7
  <2> QED BY <2>2, <2>3
<1>11. Chain(s, from, to)
  BY <1>4, <1>5, <1>9, <1>10 DEF Chain
<1> QED
  BY <1>4, <1>10, <1>11

\* The dates of a window of some dates, each alone.
LEMMA ChainDays ==
  ASSUME NEW part \in Parts, Days(part.window) > 1, Days(part.window) <= WindowDays,
         part.share = WholeShare
  PROVE  /\ Chain(ByDays(part), part.window.last, part.window.first)
         /\ ByDays(part) # <<>>
<1>1. part.window.first \in Int /\ part.window.last \in Int
  BY DEF Parts, AWindow
<1>2. PICK last \in Int : last = part.window.last
  BY <1>1
<1>3. PICK n \in Nat : n = Days(part.window) /\ n > 1 /\ n <= WindowDays
                       /\ part.window.first = last - n + 1
  BY <1>1, <1>2 DEF Days
<1>4. WindowDays \in Nat /\ WholeShare \in Nat /\ WholeShare > 0 /\ WholeShare % n = 0
  BY <1>3, WindowsAssumption, WalkAssumption
<1>5. PICK u : u = WholeShare \div n
  OBVIOUS
<1>6. u \in 1 .. WholeShare
  <2>1. WholeShare = n * (WholeShare \div n) + (WholeShare % n) /\ WholeShare \div n \in Int
    BY <1>3, <1>4
  <2>2. WholeShare = n * u /\ u \in Int
    BY <2>1, <1>3, <1>4, <1>5
  <2>3. u > 0
    BY <2>2, <1>3, <1>4
  <2>4. u <= WholeShare
    BY <2>2, <2>3, <1>3, <1>4
  <2> QED BY <2>2, <2>3, <2>4
<1>7. PICK b : b = ByDays(part)
  OBVIOUS
<1>8. b = [k \in 1 .. n |-> [window |-> [first |-> last - k + 1, last |-> last - k + 1],
                             share |-> u]]
  BY <1>2, <1>3, <1>5, <1>7 DEF ByDays, Part, Window
<1>9. ASSUME NEW k \in 1 .. n
      PROVE  /\ b[k] \in Parts /\ b[k].share = u
             /\ b[k].window.first = last - k + 1 /\ b[k].window.last = last - k + 1
  BY <1>6, <1>8 DEF Parts, AWindow
<1>10. b \in Seq(Parts) /\ Len(b) = n
  <2>1. b \in [1 .. n -> Parts]
    BY <1>8, <1>9
  <2> QED BY <2>1
<1>11. b # <<>>
  BY <1>3, <1>10, PartsOf
<1>12. ASSUME NEW k \in 1 .. n
       PROVE  /\ APart(b[k], last, last - n + 1)
              /\ b[k].window.last = IF k = 1 THEN last ELSE b[k - 1].window.first - 1
              /\ \A j \in 1 .. k - 1 : b[k].window.last < b[j].window.first
  <2>1. APart(b[k], last, last - n + 1)
    BY <1>3, <1>4, <1>6, <1>9 DEF APart
  <2>2. CASE k = 1
    BY <2>1, <2>2, <1>9
  <2>3. CASE k # 1
    <3>1. k - 1 \in 1 .. n BY <2>3
    <3>2. b[k].window.last = b[k - 1].window.first - 1 BY <3>1, <1>9
    <3>3. \A j \in 1 .. k - 1 : b[k].window.last < b[j].window.first BY <1>9
    <3> QED BY <2>1, <2>3, <3>2, <3>3
  <2> QED BY <2>2, <2>3
<1>13. b[n].window.first = last - n + 1
  BY <1>3, <1>9
<1> QED
  BY <1>2, <1>3, <1>7, <1>10, <1>11, <1>12, <1>13 DEF Chain

\* A window asked for by its dates leaves each date where it was.
LEMMA ChainSplit ==
  ASSUME NEW q, NEW from \in Int, NEW to \in Int, Chain(q, from, to), q # <<>>,
         Days(Head(q).window) > 1
  PROVE  /\ Chain(ByDays(Head(q)) \o Tail(q), from, to)
         /\ ByDays(Head(q)) \o Tail(q) # <<>>
<1>1. PICK part \in Parts : part = Head(q)
  BY ChainTail
<1>2. /\ APart(part, from, to) /\ part.window.last = from
      /\ Chain(Tail(q), part.window.first - 1, to)
      /\ part.window.first \in Int /\ part.window.last \in Int
  BY <1>1, ChainTail
<1>3. /\ Days(part.window) > 1 /\ Days(part.window) <= WindowDays
      /\ part.share = WholeShare /\ to <= part.window.first
  BY <1>1, <1>2, WindowsAssumption DEF APart, Days
<1> QED
  BY <1>1, <1>2, <1>3, ChainDays, ChainJoin

-------------------------------------------------------------------------------
(***************************************************************************)
(* The inductive invariant.                                                *)
(***************************************************************************)
Fields ==
  {"mode", "today", "since", "quiet", "queue", "stored", "statistics", "frontier",
   "probe", "probed", "laddered", "daysOnly", "querySplit", "ended", "error", "kept",
   "completed", "rows", "oldest", "streak", "gap", "start", "startAfter", "before",
   "newer", "missingLast", "oneSided"}

MemoryFields ==
  {"probeOn", "probeDays", "ladderedOn", "ladderedAt", "daysOn", "daysAt", "quiet"}

Typed(wk) ==
  /\ Fields \subseteq DOMAIN wk
  /\ wk.today \in Dates /\ wk.since \in Int
  /\ wk.stored \subseteq Hours /\ wk.rows \subseteq Hours /\ wk.before \subseteq Hours
  /\ wk.queue \in Seq(Parts) /\ wk.kept \in Seq(AWindow)
  /\ wk.completed \in Int \cup {None} /\ wk.oldest \in Hours \cup {None}
  /\ wk.frontier \in Hours \cup {None}
  /\ wk.error \in Errors \cup {None} /\ wk.startAfter \in Int \cup {None}
  /\ wk.streak \in Nat
  /\ \A k \in 1 .. Len(wk.queue) : wk.queue[k].share \in 1 .. WholeShare

\* The newest date a walk has still to fetch, and the oldest one it asks for.
Newest(wk) == IF wk.completed = None THEN wk.today ELSE wk.completed - 1
Oldest(wk) == OldestAsked(wk.since, wk.today)

\* The windows still to ask for cover the dates left.
Left(wk) == wk.since >= 0 /\ Chain(wk.queue, Newest(wk), Oldest(wk))

Empty(wk) == wk.queue = <<>> /\ wk.kept = <<>> /\ wk.completed = None

Queued ==
  walk.error = None /\ walk.startAfter = None =>
    Left(walk) \/ (phase = "idle" /\ Empty(walk))

\* The windows kept are a block back from the date the walk started on.
Kept(wk) ==
  /\ \A k \in 1 .. Len(wk.kept) :
       wk.kept[k].last = IF k = 1 THEN wk.today ELSE wk.kept[k - 1].first - 1
  /\ wk.startAfter = None =>
       wk.completed = IF wk.kept = <<>> THEN None ELSE wk.kept[Len(wk.kept)].first
  /\ wk.startAfter # None => wk.start /\ wk.ended
  /\ wk.completed # None => wk.completed <= wk.today
  /\ wk.oldest # None => wk.completed # None

\* Empty windows in a row end a walk before they are more.
Streaks(wk) ==
  /\ ~ wk.ended => wk.streak < EmptyWindows * WholeShare
  /\ wk.streak < EmptyWindows * WholeShare + WholeShare

\* No hour is stored before a start, and the newest stored one is the frontier.
Bounded(wk) ==
  /\ wk.start =>
       /\ wk.completed # None /\ \A h \in wk.stored : h >= Midnight(wk.completed)
       /\ wk.startAfter # None => \A h \in wk.stored : DayOf(h) > wk.startAfter
  /\ wk.stored # {} =>
       /\ wk.frontier \in wk.stored
       /\ \A h \in wk.stored : wk.since - 1 <= h /\ h <= wk.frontier

\* What may end a walk before its cutoff.
Ends(wk) ==
  /\ wk.start => wk.ended
  /\ wk.ended =>
       \/ wk.start
       \/ wk.completed # None /\ \E h \in wk.stored : h >= Midnight(wk.completed)
       \/ wk.quiet /\ wk.oldest = None

\* The rows held are of the block, and from the walk's cutoff on.
Held(wk, has) ==
  \A h \in wk.rows :
    /\ h \in has /\ wk.since <= h /\ h < NowOn(wk.today)
    /\ wk.completed # None /\ DayOf(h) >= wk.completed

\* Read as asked, they are all Meridian has there, but for dates before a start.
HeldAll(wk, m) ==
  m.reads = "asked" /\ wk.completed # None =>
    \A h \in m.has :
      /\ wk.since <= h /\ h < NowOn(wk.today) /\ DayOf(h) >= wk.completed
      /\ wk.startAfter = None \/ DayOf(h) > wk.startAfter
      => h \in wk.rows

WalkOK(wk) ==
  Typed(wk) /\ Kept(wk) /\ Streaks(wk) /\ Bounded(wk) /\ Ends(wk)

\* What the unit remembers: dates, each with the date it was learned on.
MemoryOK(mem) ==
  /\ MemoryFields \subseteq DOMAIN mem
  /\ mem.probeOn \in Dates \cup {None} /\ mem.probeDays \in 0 .. WindowDays
  /\ mem.ladderedOn \in Dates \cup {None} /\ mem.ladderedAt \in Dates \cup {None}
  /\ mem.daysOn \in Dates \cup {None} /\ mem.daysAt \in Dates \cup {None}
  /\ mem.ladderedOn # None => mem.ladderedAt # None
  /\ mem.daysOn # None => mem.daysAt # None
  /\ mem.quiet \in Hours \cup {None}

StateOK ==
  /\ today \in Dates /\ meridian \in MeridianRecord /\ stored \subseteq Hours
  /\ phase \in {"idle", "walking", "ended"}
  /\ phase # "idle" => walk.today >= FirstToday
  /\ today >= FirstToday

Fetched ==
  /\ Held(walk, meridian.has)
  /\ phase # "idle" => HeldAll(walk, meridian)

\* The inductive invariant.
IInv ==
  StateOK /\ MemoryOK(memory) /\ WalkOK(walk) /\ Queued /\ Fetched /\ NewerIsStored

-------------------------------------------------------------------------------
(***************************************************************************)
(* What a step changes of a walk.                                          *)
(***************************************************************************)
SameBut(wk, old, changed) ==
  /\ Fields \subseteq DOMAIN wk
  /\ \A f \in Fields \ changed : wk[f] = old[f]

\* A walk that still asks has its next window in its queue.
LEMMA Asking ==
  ASSUME IInv, Asks
  PROVE  /\ phase = "walking" /\ walk.queue # <<>> /\ walk.error = None
         /\ walk.startAfter = None /\ Left(walk) /\ ~ walk.ended
         /\ Oldest(walk) \in Int /\ Newest(walk) \in Int /\ Oldest(walk) >= 0
         /\ Newest(walk) <= walk.today
<1>1. /\ phase = "walking" /\ walk.queue # <<>> /\ walk.error = None /\ ~ walk.ended
  BY DEF Asks, Done
<1>2. walk.startAfter = None
  BY <1>1 DEF IInv, WalkOK, Kept
<1>3. Left(walk)
  BY <1>1, <1>2 DEF IInv, Queued
<1>4. Oldest(walk) \in Int /\ Oldest(walk) >= 0
  <2>1. walk.since \in Int /\ walk.since >= 0 /\ walk.today \in Int /\ walk.today >= 0
    BY <1>3 DEF IInv, WalkOK, Typed, Left, Dates
  <2>2. DayOf(walk.since) \in Int /\ 0 <= DayOf(walk.since)
    BY <2>1, DayOfNat
  <2> QED BY <2>1, <2>2 DEF Oldest, OldestAsked, Smaller
<1>5. Newest(walk) \in Int /\ Newest(walk) <= walk.today
  BY WalkAssumption DEF IInv, WalkOK, Typed, Kept, Newest, Dates
<1> QED BY <1>1, <1>2, <1>3, <1>4, <1>5

\* Its windows by days are the dates it has still to ask for.
LEMMA PlannedIs ==
  ASSUME IInv, Asks
  PROVE  /\ SameBut(Planned, walk, {"queue", "probe", "probed"})
         /\ Chain(Planned.queue, Newest(walk), Oldest(walk)) /\ Planned.queue # <<>>
<1>1. /\ walk.queue # <<>> /\ Chain(walk.queue, Newest(walk), Oldest(walk))
      /\ Newest(walk) \in Int /\ Oldest(walk) \in Int /\ Fields \subseteq DOMAIN walk
  BY Asking DEF Left, IInv, WalkOK, Typed
<1> DEFINE part == Head(walk.queue)
           w == part.window
           kept == DaysKept(walk.today) # None /\ w.first <= DaysKept(walk.today)
           rest == [walk EXCEPT !.queue = Tail(@)]
           byDays == [Split(rest, part, walk.probe \/ Due(w)) EXCEPT !.probed = @ \/ Due(w)]
           if == Days(w) > 1 /\ (Due(w) \/ kept \/ walk.daysOnly)
<1>2. Planned = IF if THEN byDays ELSE walk
  BY DEF Planned
<1>3. SameBut(walk, walk, {"queue", "probe", "probed"})
  BY <1>1 DEF SameBut
<1>4. /\ DOMAIN byDays = DOMAIN walk /\ byDays.queue = ByDays(part) \o Tail(walk.queue)
      /\ SameBut(byDays, walk, {"queue", "probe", "probed"})
  BY <1>1 DEF Split, SameBut, Fields
<1>5. CASE if
  <2>1. Days(Head(walk.queue).window) > 1 BY <1>5
  <2>2. /\ Chain(byDays.queue, Newest(walk), Oldest(walk)) /\ byDays.queue # <<>>
    BY <1>1, <1>4, <2>1, ChainSplit
  <2>3. Planned = byDays BY <1>2, <1>5
  <2> QED BY <2>2, <2>3, <1>4
<1>6. CASE ~ if
  <2>1. Planned = walk BY <1>2, <1>6
  <2> QED BY <2>1, <1>1, <1>3
<1> QED BY <1>5, <1>6

\* Once the next window is asked for, the dates before it are left.
LEMMA SentIs ==
  ASSUME IInv, Asks
  PROVE  /\ SameBut(Sent, walk, {"queue", "probe", "probed"})
         /\ NextPart \in Parts /\ APart(NextPart, Newest(walk), Oldest(walk))
         /\ Asked.last = Newest(walk) /\ Asked.first \in Dates /\ Asked.last \in Dates
         /\ Asked.first <= Asked.last /\ Asked.last <= walk.today
         /\ Asked \in AWindow
         /\ Chain(Sent.queue, Asked.first - 1, Oldest(walk))
         /\ Days(Asked) > 1 =>
              Chain(ByDays(NextPart) \o Sent.queue, Newest(walk), Oldest(walk))
<1>1. /\ SameBut(Planned, walk, {"queue", "probe", "probed"})
      /\ Chain(Planned.queue, Newest(walk), Oldest(walk)) /\ Planned.queue # <<>>
  BY PlannedIs
<1>2. /\ Newest(walk) \in Int /\ Oldest(walk) \in Int /\ Oldest(walk) >= 0
      /\ Newest(walk) <= walk.today /\ walk.today \in Dates
  BY Asking DEF IInv, WalkOK, Typed
<1>3. PICK q : q = Planned.queue
  OBVIOUS
<1>4. /\ Head(q) \in Parts /\ APart(Head(q), Newest(walk), Oldest(walk))
      /\ Head(q).window.last = Newest(walk) /\ Head(q).window.first \in Int
      /\ Chain(Tail(q), Head(q).window.first - 1, Oldest(walk))
  BY <1>1, <1>2, <1>3, ChainTail
<1>5. /\ Sent.queue = Tail(q) /\ SameBut(Sent, walk, {"queue", "probe", "probed"})
  BY <1>1, <1>3 DEF Sent, SameBut, Fields
<1>6. NextPart = Head(q) /\ Asked = Head(q).window
  BY <1>3 DEF NextPart, Asked
<1>7. /\ Asked.first <= Asked.last /\ Oldest(walk) <= Asked.first
      /\ Asked \in AWindow
  BY <1>4, <1>6 DEF APart, Parts
<1>8. Asked.first \in Dates /\ Asked.last \in Dates /\ Asked.last <= walk.today
  BY <1>2, <1>4, <1>6, <1>7, WalkAssumption DEF Dates
<1>9. Days(Asked) > 1 =>
        Chain(ByDays(NextPart) \o Sent.queue, Newest(walk), Oldest(walk))
  BY <1>1, <1>2, <1>3, <1>5, <1>6, ChainSplit
<1> QED BY <1>4, <1>5, <1>6, <1>7, <1>8, <1>9

\* The parts of the invariant about what was fetched stay as they are while
\* only the queue, the checks and the error of a walk change.
Aside == {"queue", "probe", "probed", "laddered", "daysOnly", "querySplit", "error",
          "before", "newer", "missingLast", "oneSided"}

ShareOf(q) == \A k \in 1 .. Len(q) : q[k].share \in 1 .. WholeShare

\* A walk that only changed what stands beside its rows keeps what it holds.
LEMMA AsideKeeps ==
  ASSUME IInv, NEW wk, SameBut(wk, walk, Aside), wk.queue \in Seq(Parts),
         ShareOf(wk.queue), wk.before \subseteq Hours, wk.error \in Errors \cup {None}
  PROVE  /\ WalkOK(wk) /\ Held(wk, meridian.has)
         /\ phase # "idle" => HeldAll(wk, meridian)
<1>1. /\ wk.today = walk.today /\ wk.since = walk.since /\ wk.stored = walk.stored
      /\ wk.rows = walk.rows /\ wk.kept = walk.kept /\ wk.completed = walk.completed
      /\ wk.oldest = walk.oldest /\ wk.frontier = walk.frontier
      /\ wk.startAfter = walk.startAfter /\ wk.streak = walk.streak
      /\ wk.ended = walk.ended /\ wk.start = walk.start /\ wk.quiet = walk.quiet
  BY DEF SameBut, Fields, Aside
<1>2. Typed(wk)
  BY <1>1 DEF IInv, WalkOK, Typed, SameBut, ShareOf
<1>3. Kept(wk) /\ Streaks(wk)
  BY <1>1 DEF IInv, WalkOK, Kept, Streaks
<1>4. Bounded(wk) /\ Ends(wk)
  BY <1>1 DEF IInv, WalkOK, Bounded, Ends
<1>5. Held(wk, meridian.has)
  BY <1>1 DEF IInv, Fetched, Held
<1>6. phase # "idle" => HeldAll(wk, meridian)
  BY <1>1 DEF IInv, Fetched, HeldAll
<1> QED BY <1>2, <1>3, <1>4, <1>5, <1>6 DEF WalkOK

\* Hours are integers, from the first date's on.
LEMMA HoursAre ==
  /\ Hours \subseteq Nat
  /\ \A h \in Hours : DayOf(h) \in Dates /\ h <= Midnight(LastToday + 1)
<1>1. Midnight(0) = 0 /\ Midnight(LastToday + 1) \in Int /\ LastToday \in Nat
  BY DayIs, WindowsAssumption, WalkAssumption DEF Midnight
<1>2. Hours \subseteq Nat
  BY <1>1 DEF Hours
<1>3. ASSUME NEW h \in Hours
      PROVE  DayOf(h) \in Dates /\ h <= Midnight(LastToday + 1)
  <2>1. h \in Nat /\ h < Midnight(LastToday + 1) BY <1>1, <1>2 DEF Hours
  <2>2. DayOf(h) \in Nat BY <2>1, DayOfNat
  <2>3. DayOf(h) < LastToday + 1 BY <2>1, <1>1, DayIs
  <2> QED BY <2>1, <2>2, <2>3, <1>1 DEF Dates
<1> QED BY <1>2, <1>3

-------------------------------------------------------------------------------
(***************************************************************************)
(* What comes back for a window.                                           *)
(***************************************************************************)
\* The rows inside a page are of dates asked for, and those Meridian has there
\* when it reads windows as asked.
LEMMA PageIs ==
  ASSUME IInv, Asks, NEW page, page = Answer(Asked)
  PROVE  /\ page.inside \subseteq Hours /\ page.before \subseteq Hours
         /\ \A h \in page.inside :
              /\ h \in meridian.has /\ h < NowOn(walk.today)
              /\ Asked.first <= DayOf(h) /\ DayOf(h) <= Asked.last
         /\ meridian.reads = "asked" =>
              \A h \in meridian.has :
                /\ h < NowOn(walk.today)
                /\ Asked.first <= DayOf(h) /\ DayOf(h) <= Asked.last
                /\ Refuses(Asked) => DayOf(h) \in KeptDates(Asked, Start(Asked))
                => h \in page.inside
<1>1. meridian.has \subseteq Hours
  BY DEF IInv, StateOK, MeridianRecord
<1>2. PICK w : w = Asked /\ w.first \in Int /\ w.last \in Int
  BY SentIs DEF AWindow
<1>3. PICK kept : kept = KeptDates(w, Start(w)) /\ kept \subseteq w.first .. w.last
  BY KeptIn DEF WindowDates
<1>4. PICK ws : /\ ws = IF Refuses(w) THEN {Window(d, d) : d \in kept} ELSE {w}
                /\ page = Page(ws)
  BY <1>2, <1>3 DEF Answer
<1>5. /\ page.inside = UNION {InWindow(Received(v), v) : v \in ws}
      /\ page.before = UNION {{h \in Received(v) : DayOf(h) < v.first} : v \in ws}
  BY <1>4 DEF Page
<1>6. \A v : Received(v) \subseteq meridian.has /\ \A h \in Received(v) : h < NowOn(walk.today)
  BY DEF Received
<1>7. ASSUME NEW v \in ws, NEW h \in InWindow(Received(v), v)
      PROVE  w.first <= DayOf(h) /\ DayOf(h) <= w.last
  <2>1. DayOf(h) \in v.first .. v.last
    BY DEF InWindow, WindowDates
  <2>2. v = w \/ \E d \in kept : v = Window(d, d)
    BY <1>4
  <2>3. CASE v = w
    BY <2>1, <2>3, <1>2
  <2>4. ASSUME NEW d \in kept, v = Window(d, d) PROVE w.first <= DayOf(h) /\ DayOf(h) <= w.last
    <3>1. v.first = d /\ v.last = d /\ d \in w.first .. w.last
      BY <2>4, <1>3 DEF Window
    <3> QED BY <3>1, <2>1, <1>2
  <2> QED BY <2>2, <2>3, <2>4
<1>8. ASSUME NEW h \in page.inside
      PROVE  /\ h \in meridian.has /\ h < NowOn(walk.today)
             /\ Asked.first <= DayOf(h) /\ DayOf(h) <= Asked.last
  <2>1. PICK v \in ws : h \in InWindow(Received(v), v)
    BY <1>5
  <2>2. h \in Received(v) BY <2>1 DEF InWindow
  <2> QED BY <2>1, <2>2, <1>2, <1>6, <1>7
<1>9. ASSUME NEW h \in page.before PROVE h \in meridian.has
  BY <1>5, <1>6
<1>10. ASSUME meridian.reads = "asked", NEW h \in meridian.has, h < NowOn(walk.today),
              w.first <= DayOf(h), DayOf(h) <= w.last,
              Refuses(w) => DayOf(h) \in kept
       PROVE  h \in page.inside
  <2>1. \A v : Heard(v) = InWindow(Hours, v)
    BY <1>10 DEF Heard
  <2>2. h \in Hours /\ DayOf(h) \in Int
    <3>1. h \in Hours BY <1>1
    <3>2. Hours \subseteq Int BY HoursAre
    <3> QED BY <3>1, <3>2, DayIs
  <2>3. PICK v \in ws : DayOf(h) \in WindowDates(v)
    <3>1. CASE Refuses(w)
      <4>1. Window(DayOf(h), DayOf(h)) \in ws BY <3>1, <1>4, <1>10
      <4>2. DayOf(h) \in WindowDates(Window(DayOf(h), DayOf(h)))
        BY <2>2 DEF WindowDates, Window
      <4> QED BY <4>1, <4>2
    <3>2. CASE ~ Refuses(w)
      BY <3>2, <1>2, <1>4, <1>10, <2>2 DEF WindowDates
    <3> QED BY <3>1, <3>2
  <2>4. h \in Received(v)
    BY <2>1, <2>2, <2>3, <1>10 DEF Received, InWindow
  <2> QED BY <2>3, <2>4, <1>5 DEF InWindow
<1> QED
  BY <1>1, <1>2, <1>3, <1>5, <1>8, <1>9, <1>10

\* A nonempty page's oldest row.
LEMMA OldestRow ==
  ASSUME NEW rows \in SUBSET Hours, rows # {}
  PROVE  Least(rows) \in rows /\ Least(rows) \in Int
<1>1. rows \in SUBSET Int
  BY DayIs, WalkAssumption DEF Hours, Dates
<1>2. Midnight(0) \in Int /\ \A h \in rows : Midnight(0) <= h
  BY DayIs DEF Hours
<1> QED BY <1>1, <1>2, LeastIs

\* An hour that has passed is not of a date to come.
LEMMA PassedIs ==
  ASSUME NEW h \in Int, NEW date \in Int, h < NowOn(date)
  PROVE  DayOf(h) <= date
<1>1. HoursPerDay \in Nat /\ HoursPerDay > 0
  BY WindowsAssumption
<1>2. HoursPerDay \div 2 \in Int /\ HoursPerDay \div 2 <= HoursPerDay
  BY <1>1
<1>3. /\ Midnight(date) \in Int /\ Midnight(date + 1) = Midnight(date) + HoursPerDay
      /\ Midnight(date + 1) \in Int
  BY <1>1, DayIs
<1>4. h < Midnight(date + 1)
  BY <1>1, <1>2, <1>3 DEF NowOn
<1>5. DayOf(h) < date + 1 /\ DayOf(h) \in Int
  BY <1>4, DayIs
<1> QED BY <1>5

-------------------------------------------------------------------------------
(***************************************************************************)
(* A window that came back.                                                *)
(***************************************************************************)
\* The checks of a window leave what was fetched as it was.
LEMMA CheckedIs ==
  ASSUME IInv, Asks, NEW page, page = Answer(Asked)
  PROVE  /\ SameBut(Checked(Sent, Asked, page), walk, Aside)
         /\ Checked(Sent, Asked, page).before \subseteq Hours
         /\ Checked(Sent, Asked, page).queue = Sent.queue
         /\ Checked(Sent, Asked, page).error = None
<1>1. SameBut(Sent, walk, {"queue", "probe", "probed"})
  BY SentIs
<1>2. page.before \subseteq Hours /\ walk.before \subseteq Hours /\ walk.error = None
  BY PageIs, Asking DEF IInv, WalkOK, Typed
<1>3. Sent.before = walk.before /\ Sent.error = None
  BY <1>1, <1>2 DEF SameBut, Fields
<1> QED
  BY <1>1, <1>2, <1>3 DEF Checked, SameBut, Fields, Aside

TakenFields ==
  Aside \cup {"kept", "completed", "rows", "oldest", "streak", "gap", "start", "ended"}

\* A window kept: its rows join the walk's, or it is empty.
Joins(wk, page) ==
  /\ page.inside # {}
  /\ wk.rows = walk.rows \cup {h \in page.inside : h >= walk.since}
  /\ wk.oldest \in Hours /\ wk.oldest <= Least(page.inside)
  /\ wk.oldest = IF walk.oldest = None THEN Least(page.inside)
                 ELSE Smaller(walk.oldest, Least(page.inside))
  /\ wk.streak = 0 /\ wk.start = walk.start /\ wk.ended = walk.ended

IsEmpty(wk, page) ==
  /\ page.inside = {}
  /\ wk.rows = walk.rows /\ wk.oldest = walk.oldest
  /\ \/ /\ wk.start = walk.start /\ wk.ended /\ wk.streak = walk.streak
        /\ InWindow(walk.stored, Asked) # {}
     \/ /\ wk.start = walk.start /\ wk.ended = walk.quiet /\ wk.streak = walk.streak
        /\ walk.oldest = None
     \/ wk.start = walk.start /\ wk.ended = walk.ended /\ wk.streak = walk.streak
     \/ /\ walk.oldest # None
        /\ wk.streak = walk.streak + NextPart.share
        /\ wk.start = (wk.streak >= EmptyWindows * WholeShare) /\ wk.ended = wk.start
        /\ Older(walk, Asked) = {}

\* What taking a page changes: its window is kept, its rows join or it was empty.
LEMMA TakenIs ==
  ASSUME IInv, Asks, NEW page, page = Answer(Asked),
         NEW wk, wk = Taken(Sent, Asked, NextPart.share, page)
  PROVE  /\ SameBut(wk, walk, TakenFields)
         /\ wk.kept = Append(walk.kept, Asked) /\ wk.completed = Asked.first
         /\ wk.before \subseteq Hours /\ wk.queue = Sent.queue /\ wk.error = None
         /\ Joins(wk, page) \/ IsEmpty(wk, page)
<1>1. PICK c : c = Checked(Sent, Asked, page)
  OBVIOUS
<1>2. /\ SameBut(c, walk, Aside) /\ c.before \subseteq Hours
      /\ c.queue = Sent.queue /\ c.error = None
  BY <1>1, CheckedIs
<1>3. PICK b : b = [c EXCEPT !.kept = Append(@, Asked)]
  OBVIOUS
<1>4. /\ SameBut(b, walk, Aside \cup {"kept"}) /\ b.before \subseteq Hours
      /\ b.queue = Sent.queue /\ b.error = None /\ b.kept = Append(walk.kept, Asked)
  BY <1>2, <1>3 DEF SameBut, Fields, Aside
<1>5. /\ b.rows = walk.rows /\ b.since = walk.since /\ b.oldest = walk.oldest
      /\ b.streak = walk.streak /\ b.start = walk.start /\ b.ended = walk.ended
      /\ b.stored = walk.stored /\ b.quiet = walk.quiet
  BY <1>4 DEF SameBut, Fields, Aside
<1>6. PICK took : /\ took = IF page.inside # {} THEN Added(b, page)
                             ELSE TakenEmpty(b, Asked, NextPart.share)
                  /\ wk = [took EXCEPT !.completed = Asked.first]
  BY <1>1, <1>3 DEF Taken
<1>7. CASE page.inside # {}
  <2>1. PICK r : r = walk.rows \cup {h \in page.inside : h >= walk.since}
    OBVIOUS
  <2>2. PICK o : o = IF walk.oldest = None THEN Least(page.inside)
                     ELSE Smaller(walk.oldest, Least(page.inside))
    OBVIOUS
  <2>3. took = [b EXCEPT !.rows = r, !.oldest = o, !.streak = 0]
    <3>1. took = Added(b, page) BY <1>6, <1>7
    <3> QED BY <3>1, <2>1, <2>2, <1>5 DEF Added
  <2>4. /\ SameBut(took, walk, Aside \cup {"kept", "rows", "oldest", "streak"})
        /\ took.kept = Append(walk.kept, Asked)
        /\ took.before \subseteq Hours /\ took.queue = Sent.queue /\ took.error = None
        /\ took.rows = r /\ took.oldest = o /\ took.streak = 0
    BY <2>3, <1>4 DEF SameBut, Fields, Aside
  <2>5. took.start = walk.start /\ took.ended = walk.ended
    BY <2>4 DEF SameBut, Fields, Aside
  <2>6. /\ SameBut(wk, walk, TakenFields)
        /\ wk.kept = Append(walk.kept, Asked) /\ wk.completed = Asked.first
        /\ wk.before \subseteq Hours /\ wk.queue = Sent.queue /\ wk.error = None
    BY <2>4, <1>6 DEF SameBut, Fields, Aside, TakenFields
  <2>7. /\ wk.rows = r /\ wk.oldest = o
        /\ wk.streak = 0 /\ wk.start = walk.start /\ wk.ended = walk.ended
    BY <2>4, <2>5, <1>6 DEF SameBut, Fields
  <2>8. Least(page.inside) \in Hours /\ walk.oldest \in Hours \cup {None} /\ Hours \subseteq Int
    BY <1>7, PageIs, OldestRow, HoursAre DEF IInv, WalkOK, Typed
  <2>9. o \in Hours /\ o <= Least(page.inside)
    <3>1. PICK l : l = Least(page.inside) OBVIOUS
    <3>2. l \in Int /\ l \in Hours BY <3>1, <2>8
    <3>3. CASE walk.oldest = None
      BY <3>1, <3>2, <3>3, <2>2
    <3>4. CASE walk.oldest # None
      <4>1. walk.oldest \in Hours /\ walk.oldest \in Int BY <3>4, <2>8
      <4>2. o = Smaller(walk.oldest, l) BY <3>1, <3>4, <2>2
      <4>3. o \in {walk.oldest, l} /\ o <= l BY <3>2, <4>1, <4>2, Chosen
      <4> QED BY <3>1, <3>2, <4>1, <4>3
    <3> QED BY <3>3, <3>4
  <2> QED BY <2>1, <2>2, <2>6, <2>7, <2>9, <1>7 DEF Joins
<1>8. CASE page.inside = {}
  <2>1. took = TakenEmpty(b, Asked, NextPart.share)
    BY <1>6, <1>8
  <2>2. /\ SameBut(took, walk, Aside \cup {"kept", "gap", "start", "ended", "streak"})
        /\ took.kept = Append(walk.kept, Asked)
        /\ took.before \subseteq Hours /\ took.queue = Sent.queue /\ took.error = None
        /\ \/ /\ took.start = walk.start /\ took.ended /\ took.streak = walk.streak
              /\ InWindow(walk.stored, Asked) # {}
           \/ /\ took.start = walk.start /\ took.ended = walk.quiet
              /\ took.streak = walk.streak /\ walk.oldest = None
           \/ /\ took.start = walk.start /\ took.ended = walk.ended
              /\ took.streak = walk.streak
           \/ /\ walk.oldest # None
              /\ took.streak = walk.streak + NextPart.share
              /\ took.start = (took.streak >= EmptyWindows * WholeShare)
              /\ took.ended = took.start /\ Older(walk, Asked) = {}
    <3>1. CASE InWindow(b.stored, Asked) # {}
      <4>1. PICK g : g = [b EXCEPT !.gap = TRUE, !.ended = TRUE]
        OBVIOUS
      <4>2. took = g
        <5>1. TakenEmpty(b, Asked, NextPart.share) = [b EXCEPT !.gap = TRUE, !.ended = TRUE]
          BY <3>1 DEF TakenEmpty
        <5> QED BY <5>1, <2>1, <4>1
      <4>3. /\ SameBut(g, walk, Aside \cup {"kept", "gap", "start", "ended", "streak"})
            /\ g.kept = Append(walk.kept, Asked)
            /\ g.before \subseteq Hours /\ g.queue = Sent.queue /\ g.error = None
        BY <4>1, <1>4 DEF SameBut, Fields, Aside
      <4>4. g.start = walk.start /\ g.ended /\ g.streak = walk.streak
        BY <4>1, <1>4, <1>5 DEF SameBut, Fields
      <4> QED BY <4>2, <4>3, <4>4, <3>1, <1>5
    <3>2. CASE InWindow(b.stored, Asked) = {} /\ b.oldest = None
      <4>1. took = [b EXCEPT !.ended = b.quiet]
        BY <2>1, <3>2 DEF TakenEmpty
      <4>2. /\ SameBut(took, walk, Aside \cup {"kept", "gap", "start", "ended", "streak"})
            /\ took.kept = Append(walk.kept, Asked)
            /\ took.before \subseteq Hours /\ took.queue = Sent.queue /\ took.error = None
        BY <4>1, <1>4 DEF SameBut, Fields, Aside
      <4>3. took.start = walk.start /\ took.ended = walk.quiet /\ took.streak = walk.streak
        BY <4>1, <1>4, <1>5 DEF SameBut, Fields
      <4> QED BY <4>2, <4>3, <3>2, <1>5
    <3>3. CASE /\ InWindow(b.stored, Asked) = {} /\ b.oldest # None
               /\ Older(b, Asked) # {}
      <4>1. took = b
        BY <2>1, <3>3 DEF TakenEmpty
      <4>2. SameBut(took, walk, Aside \cup {"kept", "gap", "start", "ended", "streak"})
        BY <4>1, <1>4 DEF SameBut
      <4> QED BY <4>1, <4>2, <1>4, <1>5
    <3>4. CASE /\ InWindow(b.stored, Asked) = {} /\ b.oldest # None
               /\ Older(b, Asked) = {}
      <4>1. PICK limit : limit = EmptyWindows * WholeShare
        OBVIOUS
      <4>2. PICK streak : streak = walk.streak + NextPart.share
        OBVIOUS
      <4>3. took = [b EXCEPT !.streak = streak, !.start = (streak >= limit),
                             !.ended = (streak >= limit)]
        <5>1. took = Emptier(b, NextPart.share)
          BY <2>1, <3>4 DEF TakenEmpty
        <5> QED BY <5>1, <4>1, <4>2, <1>5 DEF Emptier
      <4>4. /\ SameBut(took, walk, Aside \cup {"kept", "gap", "start", "ended", "streak"})
            /\ took.kept = Append(walk.kept, Asked)
            /\ took.before \subseteq Hours /\ took.queue = Sent.queue /\ took.error = None
        BY <4>3, <1>4 DEF SameBut, Fields, Aside
      <4>5. /\ took.start = (streak >= limit) /\ took.ended = (streak >= limit)
            /\ took.streak = streak
        BY <4>3, <1>4 DEF SameBut, Fields
      <4>6. Older(walk, Asked) = {} /\ walk.oldest # None
        BY <3>4, <1>5 DEF Older
      <4> QED BY <4>1, <4>2, <4>4, <4>5, <4>6
    <3> QED BY <3>1, <3>2, <3>3, <3>4
  <2>3. took.rows = walk.rows /\ took.oldest = walk.oldest
    BY <2>2 DEF SameBut, Fields, Aside
  <2>4. /\ SameBut(wk, walk, TakenFields)
        /\ wk.kept = Append(walk.kept, Asked) /\ wk.completed = Asked.first
        /\ wk.before \subseteq Hours /\ wk.queue = Sent.queue /\ wk.error = None
    BY <2>2, <1>6 DEF SameBut, Fields, Aside, TakenFields
  <2>5. /\ wk.rows = took.rows /\ wk.oldest = took.oldest /\ wk.start = took.start
        /\ wk.ended = took.ended /\ wk.streak = took.streak
    BY <2>2, <1>6 DEF SameBut, Fields
  <2> QED BY <2>2, <2>3, <2>4, <2>5, <1>8 DEF IsEmpty
<1> QED BY <1>7, <1>8

\* One more window kept, next to those before it.
LEMMA KeptOneMore ==
  ASSUME IInv, Asks, NEW kept, kept = Append(walk.kept, Asked)
  PROVE  /\ kept \in Seq(AWindow) /\ kept # <<>>
         /\ kept[Len(kept)] = Asked
         /\ \A k \in 1 .. Len(kept) :
              kept[k].last = IF k = 1 THEN walk.today ELSE kept[k - 1].first - 1
<1>1. walk.kept \in Seq(AWindow) /\ Asked \in AWindow /\ Asked.last = Newest(walk)
      /\ walk.startAfter = None
  BY SentIs, Asking DEF IInv, WalkOK, Typed
<1>2. PICK n \in Nat : n = Len(walk.kept)
  BY <1>1, LenProperties
<1>3. /\ kept \in Seq(AWindow) /\ Len(kept) = n + 1 /\ kept[n + 1] = Asked
      /\ \A k \in 1 .. n : kept[k] = walk.kept[k]
  BY <1>1, <1>2, AppendProperties
<1>4. /\ \A k \in 1 .. n :
           walk.kept[k].last = IF k = 1 THEN walk.today ELSE walk.kept[k - 1].first - 1
      /\ walk.completed = IF walk.kept = <<>> THEN None ELSE walk.kept[n].first
  BY <1>1, <1>2 DEF IInv, WalkOK, Kept
<1>5. walk.kept = <<>> <=> n = 0
  BY <1>1, <1>2, EmptySeq
<1>6. ASSUME NEW k \in 1 .. n + 1
      PROVE  kept[k].last = IF k = 1 THEN walk.today ELSE kept[k - 1].first - 1
  <2>1. CASE k = n + 1
    <3>1. CASE n = 0
      BY <3>1, <2>1, <1>1, <1>3, <1>4, <1>5 DEF Newest
    <3>2. CASE n # 0
      <4>1. k - 1 = n /\ n \in 1 .. n BY <3>2, <2>1
      <4>2. kept[k - 1] = walk.kept[n] BY <4>1, <1>3
      <4>3. walk.completed = walk.kept[n].first /\ walk.completed # None
        <5>1. walk.kept[n] \in AWindow
          BY <4>1, <1>1, <1>2, ElementOfSeq
        <5>2. walk.kept[n].first \in Int
          BY <5>1 DEF AWindow
        <5> QED BY <5>2, <3>2, <1>4, <1>5, WalkAssumption
      <4> QED BY <4>2, <4>3, <3>2, <2>1, <1>1, <1>3 DEF Newest
    <3> QED BY <3>1, <3>2
  <2>2. CASE k # n + 1
    <3>1. k \in 1 .. n /\ (k # 1 => k - 1 \in 1 .. n) BY <2>2
    <3> QED BY <3>1, <1>3, <1>4
  <2> QED BY <2>1, <2>2
<1>7. kept # <<>>
  BY <1>3, EmptySeq
<1> QED BY <1>3, <1>6, <1>7

\* The shares of a chain's windows.
LEMMA ChainShares ==
  ASSUME NEW q, NEW from, NEW to, Chain(q, from, to)
  PROVE  q \in Seq(Parts) /\ ShareOf(q)
BY DEF Chain, APart, ShareOf

\* A window kept leaves the rest of the dates to ask for, and its rows are all
\* that Meridian has there.
LEMMA TakenKeeps ==
  ASSUME IInv, Asks, NEW page, page = Answer(Asked),
         Refuses(Asked) => Start(Asked) = AllCame,
         NEW wk, wk = Taken(Sent, Asked, NextPart.share, page)
  PROVE  /\ WalkOK(wk) /\ Left(wk) /\ Held(wk, meridian.has) /\ HeldAll(wk, meridian)
         /\ wk.today = walk.today
<1>1. /\ SameBut(wk, walk, TakenFields)
      /\ wk.kept = Append(walk.kept, Asked) /\ wk.completed = Asked.first
      /\ wk.before \subseteq Hours /\ wk.queue = Sent.queue /\ wk.error = None
      /\ Joins(wk, page) \/ IsEmpty(wk, page)
  BY TakenIs
<1>2. /\ wk.today = walk.today /\ wk.since = walk.since /\ wk.stored = walk.stored
      /\ wk.frontier = walk.frontier /\ wk.startAfter = walk.startAfter
      /\ wk.quiet = walk.quiet
  BY <1>1 DEF SameBut, Fields, Aside, TakenFields
<1>3. /\ Chain(Sent.queue, Asked.first - 1, Oldest(walk))
      /\ Asked.first \in Dates /\ Asked.last \in Dates /\ Asked.last = Newest(walk)
      /\ Asked.first <= Asked.last /\ Asked.last <= walk.today
      /\ NextPart.share \in 1 .. WholeShare /\ Dates \subseteq Int
  BY SentIs, WalkAssumption DEF APart, Dates
<1>4. /\ walk.startAfter = None /\ ~ walk.ended /\ ~ walk.start /\ walk.since >= 0
      /\ Typed(walk) /\ Kept(walk) /\ Streaks(walk) /\ Bounded(walk)
      /\ Held(walk, meridian.has) /\ HeldAll(walk, meridian) /\ walk.today \in Dates
  BY Asking DEF IInv, WalkOK, Ends, Fetched, Left, Typed
<1>5. /\ wk.kept \in Seq(AWindow) /\ wk.kept # <<>> /\ wk.kept[Len(wk.kept)] = Asked
      /\ \A k \in 1 .. Len(wk.kept) :
           wk.kept[k].last = IF k = 1 THEN walk.today ELSE wk.kept[k - 1].first - 1
  BY <1>1, KeptOneMore
<1>6. /\ page.inside \subseteq Hours /\ Hours \subseteq Int
      /\ \A h \in page.inside :
           /\ h \in meridian.has /\ h < NowOn(walk.today)
           /\ Asked.first <= DayOf(h) /\ DayOf(h) <= Asked.last
  BY PageIs, HoursAre
<1>7. /\ Asked.first \in Int /\ Asked.first # None /\ None \notin Int
      /\ Asked.last \in Int /\ walk.today \in Int
  BY <1>3, <1>4, WalkAssumption
<1>8. /\ wk.oldest \in Hours \cup {None} /\ wk.rows \subseteq Hours /\ wk.streak \in Nat
      /\ wk.rows = walk.rows \cup {h \in page.inside : h >= walk.since}
  <2>1. CASE Joins(wk, page)
    BY <2>1, <1>4, <1>6 DEF Joins, Typed
  <2>2. CASE IsEmpty(wk, page)
    BY <2>2, <1>3, <1>4, WalkAssumption DEF IsEmpty, Typed
  <2> QED BY <2>1, <2>2, <1>1
<1>9. Typed(wk)
  <2>1. wk.queue \in Seq(Parts) /\ ShareOf(wk.queue)
    BY <1>1, <1>3, ChainShares
  <2>2. Fields \subseteq DOMAIN wk BY <1>1 DEF SameBut
  <2> QED BY <2>1, <2>2, <1>1, <1>2, <1>3, <1>4, <1>5, <1>8 DEF Typed, ShareOf
<1>10. Kept(wk)
  <2>1. \A k \in 1 .. Len(wk.kept) :
          wk.kept[k].last = IF k = 1 THEN wk.today ELSE wk.kept[k - 1].first - 1
    BY <1>2, <1>5
  <2>2. wk.completed = IF wk.kept = <<>> THEN None ELSE wk.kept[Len(wk.kept)].first
    BY <1>1, <1>5
  <2>3. wk.completed # None /\ wk.completed <= wk.today /\ wk.startAfter = None
    BY <1>1, <1>2, <1>3, <1>4, <1>7
  <2> QED BY <2>1, <2>2, <2>3 DEF Kept
<1>11. Streaks(wk)
  <2>1. PICK limit \in Nat : limit = EmptyWindows * WholeShare /\ limit > 0
    <3>1. EmptyWindows \in Nat /\ EmptyWindows > 0 /\ WholeShare \in Nat /\ WholeShare > 0
      BY WalkAssumption
    <3> QED BY <3>1
  <2>2. walk.streak < limit /\ walk.streak \in Nat /\ WholeShare \in Nat
    BY <2>1, <1>4, WalkAssumption DEF Streaks, Typed
  <2>3. CASE Joins(wk, page)
    BY <2>1, <2>2, <2>3 DEF Joins, Streaks
  <2>4. CASE IsEmpty(wk, page)
    <3>1. PICK share \in Nat : share = NextPart.share /\ share <= WholeShare
      BY <1>3, <2>2
    <3>2. \/ wk.streak = walk.streak
          \/ wk.streak = walk.streak + share /\ wk.ended = (wk.streak >= limit)
      BY <2>1, <2>4, <3>1 DEF IsEmpty
    <3>3. wk.streak < limit + WholeShare /\ wk.streak \in Nat
      BY <2>1, <2>2, <3>1, <3>2
    <3>4. ASSUME ~ wk.ended PROVE wk.streak < limit
      <4>1. CASE wk.streak = walk.streak
        BY <4>1, <2>2
      <4>2. CASE wk.ended = (wk.streak >= limit)
        <5>1. ~ (wk.streak >= limit) BY <4>2, <3>4
        <5> QED BY <5>1, <3>3
      <4> QED BY <4>1, <4>2, <3>2
    <3> QED BY <2>1, <3>3, <3>4 DEF Streaks
  <2> QED BY <2>3, <2>4, <1>1
<1>12. Bounded(wk)
  <2>1. ASSUME wk.start, NEW h \in walk.stored PROVE h >= Midnight(Asked.first)
    <3>1. IsEmpty(wk, page) /\ Older(walk, Asked) = {}
      BY <2>1, <1>1, <1>4 DEF Joins, IsEmpty
    <3>2. h \in Int /\ Midnight(Asked.first) \in Int
      BY <1>4, <1>6, <1>7, DayIs DEF Typed
    <3> QED BY <3>1, <3>2 DEF Older
  <2> QED BY <2>1, <1>1, <1>2, <1>4, <1>7 DEF Bounded
<1>13. Ends(wk)
  <2>1. CASE Joins(wk, page)
    BY <2>1, <1>4 DEF Joins, Ends
  <2>2. CASE IsEmpty(wk, page)
    <3>1. CASE InWindow(walk.stored, Asked) # {}
      <4>1. PICK h \in walk.stored : DayOf(h) \in WindowDates(Asked)
        BY <3>1 DEF InWindow
      <4>2. h \in Int
        BY <1>4, <1>6 DEF Typed
      <4>5. Asked.first <= DayOf(h)
        BY <4>1, <1>7 DEF WindowDates
      <4>3. h >= Midnight(Asked.first)
        BY <4>2, <4>5, <1>7, DayIs
      <4> QED BY <4>3, <2>2, <1>1, <1>2, <1>4, <1>7 DEF IsEmpty, Ends
    <3>2. CASE InWindow(walk.stored, Asked) = {}
      BY <3>2, <2>2, <1>2, <1>4 DEF IsEmpty, Ends
    <3> QED BY <3>1, <3>2
  <2> QED BY <2>1, <2>2, <1>1
<1>14. Held(wk, meridian.has)
  <2> SUFFICES ASSUME NEW h \in wk.rows
               PROVE  /\ h \in meridian.has /\ walk.since <= h /\ h < NowOn(walk.today)
                      /\ DayOf(h) >= Asked.first
    BY <1>1, <1>2, <1>7 DEF Held
  <2>1. CASE h \in walk.rows
    <3>1. /\ h \in meridian.has /\ walk.since <= h /\ h < NowOn(walk.today)
          /\ walk.completed # None /\ DayOf(h) >= walk.completed
      BY <2>1, <1>4 DEF Held
    <3>2. Asked.last = walk.completed - 1 /\ walk.completed \in Int /\ DayOf(h) \in Int
      BY <3>1, <2>1, <1>3, <1>4, <1>6, DayIs DEF Newest, Typed
    <3>3. DayOf(h) >= Asked.first
      BY <3>1, <3>2, <1>3, <1>7
    <3> QED BY <3>1, <3>3
  <2>2. CASE h \in page.inside /\ h >= walk.since
    BY <2>2, <1>4, <1>6 DEF Typed
  <2> QED BY <2>1, <2>2, <1>8
<1>15. HeldAll(wk, meridian)
  <2> SUFFICES ASSUME meridian.reads = "asked", NEW h \in meridian.has,
                      walk.since <= h, h < NowOn(walk.today), DayOf(h) >= Asked.first
               PROVE  h \in wk.rows
    BY <1>1, <1>2 DEF HeldAll
  <2>1. h \in Int /\ DayOf(h) \in Int /\ walk.today \in Int
    <3>1. h \in Hours BY DEF IInv, StateOK, MeridianRecord
    <3> QED BY <3>1, <1>3, <1>4, <1>6, DayIs
  <2>2. DayOf(h) <= walk.today
    BY <2>1, PassedIs
  <2>3. CASE DayOf(h) <= Asked.last
    <3>1. DayOf(h) \in WindowDates(Asked) BY <2>1, <2>3, <1>3 DEF WindowDates
    <3>2. Refuses(Asked) => DayOf(h) \in KeptDates(Asked, Start(Asked))
      BY <3>1, WindowsAssumption DEF KeptDates
    <3>3. h \in page.inside BY <2>3, <3>2, PageIs
    <3> QED BY <3>3, <1>4, <1>8, <2>1 DEF Typed
  <2>4. CASE ~ (DayOf(h) <= Asked.last)
    <3>1. walk.completed # None /\ walk.completed \in Int /\ Asked.last = walk.completed - 1
      BY <2>1, <2>2, <2>4, <1>3, <1>4 DEF Newest, Typed
    <3>2. DayOf(h) >= walk.completed BY <3>1, <2>1, <2>4
    <3>3. h \in walk.rows BY <3>1, <3>2, <1>4 DEF HeldAll
    <3> QED BY <3>3, <1>8
  <2> QED BY <2>3, <2>4
<1>16. Left(wk)
  BY <1>1, <1>2, <1>3, <1>4, <1>7 DEF Left, Newest, Oldest
<1> QED
  BY <1>2, <1>9, <1>10, <1>11, <1>12, <1>13, <1>14, <1>15, <1>16 DEF WalkOK

\* A refusal that shows where the history starts ends the walk there, with all
\* that Meridian has after it.
LEMMA StartKeeps ==
  ASSUME IInv, Asks, Refuses(Asked), Starts(Asked),
         NEW wk, wk = TakenStart(Sent, Asked, Answer(Asked))
  PROVE  /\ WalkOK(wk) /\ Held(wk, meridian.has) /\ HeldAll(wk, meridian)
         /\ wk.today = walk.today /\ wk.startAfter # None
         /\ wk.since = walk.since /\ wk.completed = Asked.first
         /\ wk.startAfter = Start(Asked)
         /\ wk.rows = walk.rows \cup {h \in Answer(Asked).inside : h >= walk.since}
<1>1. PICK page : page = Answer(Asked)
  OBVIOUS
<1>2. PICK start : start = Start(Asked)
  OBVIOUS
<1>3. /\ Asked \in AWindow /\ Asked.first <= Asked.last /\ Asked.first \in meridian.refuses
      /\ start \notin {AllCame, RefusalFails}
      /\ \A h \in walk.stored : DayOf(h) > start
  BY <1>2, SentIs DEF Starts, Refuses
<1>4. start \in Int /\ Asked.first <= start /\ start <= Asked.last
  <2>1. start = StartAfter(Asked, OldestAsked(walk.since, walk.today), walk.oldest # None,
             meridian.coded /\ ~ walk.statistics, ReadingDays, meridian.refuses)
    BY <1>2 DEF Start
  <2> QED BY <2>1, <1>3, StartIn
<1>5. KeptDates(Asked, start) = {d \in WindowDates(Asked) : start < d}
  BY <1>3, KeptIn
<1>6. PICK a : a = IF page.inside # {} THEN Added(Sent, page) ELSE Sent
  OBVIOUS
<1>7. wk = [a EXCEPT !.start = TRUE, !.startAfter = start, !.completed = Asked.first,
                     !.ended = TRUE]
  BY <1>1, <1>2, <1>6 DEF TakenStart
<1>8. /\ SameBut(Sent, walk, {"queue", "probe", "probed"})
      /\ Chain(Sent.queue, Asked.first - 1, Oldest(walk))
      /\ Asked.first \in Dates /\ Asked.last \in Dates /\ Asked.last = Newest(walk)
      /\ Asked.last <= walk.today /\ Dates \subseteq Int
  BY SentIs, WalkAssumption DEF Dates
<1>9. /\ Typed(walk) /\ Kept(walk) /\ Streaks(walk) /\ Bounded(walk)
      /\ Held(walk, meridian.has) /\ HeldAll(walk, meridian) /\ walk.today \in Dates
      /\ walk.error = None /\ walk.startAfter = None
  BY Asking DEF IInv, WalkOK, Ends, Fetched, Left, Typed
<1>10. /\ page.inside \subseteq Hours /\ Hours \subseteq Int
       /\ \A h \in page.inside :
            /\ h \in meridian.has /\ h < NowOn(walk.today)
            /\ Asked.first <= DayOf(h) /\ DayOf(h) <= Asked.last
  BY <1>1, PageIs, HoursAre
<1>11. /\ Asked.first \in Int /\ Asked.last \in Int /\ None \notin Int /\ walk.today \in Int
       /\ Asked.first # None /\ start # None
  BY <1>4, <1>8, <1>9, WalkAssumption
<1>12. PICK r : r = walk.rows \cup {h \in page.inside : h >= walk.since}
  OBVIOUS
<1>13. /\ SameBut(a, walk, {"queue", "probe", "probed", "rows", "oldest", "streak"})
       /\ a.queue = Sent.queue /\ a.rows = r /\ a.streak \in {0, walk.streak}
       /\ a.oldest \in Hours \cup {None}
  <2>1. /\ Sent.rows = walk.rows /\ Sent.since = walk.since /\ Sent.oldest = walk.oldest
        /\ Sent.streak = walk.streak
    BY <1>8 DEF SameBut, Fields
  <2>2. CASE page.inside # {}
    <3>1. PICK o : o = IF walk.oldest = None THEN Least(page.inside)
                       ELSE Smaller(walk.oldest, Least(page.inside))
      OBVIOUS
    <3>2. a = [Sent EXCEPT !.rows = r, !.oldest = o, !.streak = 0]
      <4>1. a = Added(Sent, page) BY <1>6, <2>2
      <4> QED BY <4>1, <3>1, <1>12, <2>1 DEF Added
    <3>3. Least(page.inside) \in Hours /\ walk.oldest \in Hours \cup {None}
      BY <2>2, <1>10, OldestRow, <1>9 DEF Typed
    <3>4. o \in Hours \cup {None}
      BY <3>1, <3>3 DEF Smaller
    <3> QED BY <3>2, <3>4, <1>8 DEF SameBut, Fields
  <2>3. CASE page.inside = {}
    <3>1. a = Sent /\ r = walk.rows BY <2>3, <1>6, <1>12
    <3> QED BY <3>1, <2>1, <1>8, <1>9 DEF SameBut, Typed
  <2> QED BY <2>2, <2>3
<1>14. /\ SameBut(wk, walk, {"queue", "probe", "probed", "rows", "oldest", "streak",
                             "start", "startAfter", "completed", "ended"})
       /\ wk.queue = Sent.queue /\ wk.rows = r /\ wk.streak \in {0, walk.streak}
       /\ wk.oldest \in Hours \cup {None}
       /\ wk.start /\ wk.ended /\ wk.startAfter = start /\ wk.completed = Asked.first
  BY <1>7, <1>13 DEF SameBut, Fields
<1>15. /\ wk.today = walk.today /\ wk.since = walk.since /\ wk.stored = walk.stored
       /\ wk.frontier = walk.frontier /\ wk.kept = walk.kept /\ wk.error = None
       /\ wk.before = walk.before
  BY <1>9, <1>14 DEF SameBut, Fields
<1>16. Typed(wk)
  <2>1. wk.queue \in Seq(Parts) /\ ShareOf(wk.queue)
    BY <1>8, <1>14, ChainShares
  <2>2. Fields \subseteq DOMAIN wk BY <1>14 DEF SameBut
  <2>3. wk.rows \subseteq Hours /\ wk.streak \in Nat
    BY <1>9, <1>10, <1>12, <1>14 DEF Typed
  <2> QED BY <2>1, <2>2, <2>3, <1>4, <1>8, <1>9, <1>14, <1>15 DEF Typed, ShareOf
<1>17. Kept(wk)
  <2>1. wk.completed # None /\ wk.completed <= wk.today /\ wk.startAfter # None
    BY <1>4, <1>8, <1>11, <1>14, <1>15
  <2>2. \A k \in 1 .. Len(wk.kept) :
          wk.kept[k].last = IF k = 1 THEN wk.today ELSE wk.kept[k - 1].first - 1
    BY <1>9, <1>15 DEF Kept
  <2> QED BY <2>1, <2>2, <1>14 DEF Kept
<1>18. Streaks(wk)
  <2>1. EmptyWindows * WholeShare \in Nat /\ WholeShare \in Nat /\ WholeShare > 0
    <3>1. EmptyWindows \in Nat /\ WholeShare \in Nat /\ WholeShare > 0 BY WalkAssumption
    <3> QED BY <3>1
  <2> QED BY <2>1, <1>9, <1>14 DEF Streaks
<1>19. Bounded(wk)
  <2>1. ASSUME NEW h \in walk.stored PROVE h >= Midnight(Asked.first)
    <3>1. h \in Int /\ DayOf(h) > start BY <1>3, <1>9, <1>10 DEF Typed
    <3>2. Asked.first <= DayOf(h) BY <3>1, <1>4, <1>11, DayIs
    <3> QED BY <3>1, <3>2, <1>11, DayIs
  <2> QED BY <2>1, <1>3, <1>9, <1>11, <1>14, <1>15 DEF Bounded
<1>20. Ends(wk)
  BY <1>14 DEF Ends
<1>21. Held(wk, meridian.has)
  <2> SUFFICES ASSUME NEW h \in r
               PROVE  /\ h \in meridian.has /\ walk.since <= h /\ h < NowOn(walk.today)
                      /\ DayOf(h) >= Asked.first
    BY <1>11, <1>14, <1>15 DEF Held
  <2>1. CASE h \in walk.rows
    <3>1. /\ h \in meridian.has /\ walk.since <= h /\ h < NowOn(walk.today)
          /\ walk.completed # None /\ DayOf(h) >= walk.completed
      BY <2>1, <1>9 DEF Held
    <3>2. Asked.last = walk.completed - 1 /\ walk.completed \in Int /\ DayOf(h) \in Int
      BY <3>1, <2>1, <1>8, <1>9, <1>10, DayIs DEF Newest, Typed
    <3>3. DayOf(h) >= Asked.first
      BY <3>1, <3>2, <1>3, <1>11
    <3> QED BY <3>1, <3>3
  <2>2. CASE h \in page.inside /\ h >= walk.since
    BY <2>2, <1>9, <1>10 DEF Typed
  <2> QED BY <2>1, <2>2, <1>12
<1>22. HeldAll(wk, meridian)
  <2> SUFFICES ASSUME meridian.reads = "asked", NEW h \in meridian.has,
                      walk.since <= h, h < NowOn(walk.today), DayOf(h) >= Asked.first,
                      DayOf(h) > start
               PROVE  h \in r
    BY <1>11, <1>14, <1>15 DEF HeldAll
  <2>1. h \in Int /\ DayOf(h) \in Int /\ walk.today \in Int
    <3>1. h \in Hours BY DEF IInv, StateOK, MeridianRecord
    <3> QED BY <3>1, <1>8, <1>9, <1>10, DayIs
  <2>2. DayOf(h) <= walk.today
    BY <2>1, PassedIs
  <2>3. CASE DayOf(h) <= Asked.last
    <3>1. DayOf(h) \in WindowDates(Asked) BY <2>1, <2>3, <1>11 DEF WindowDates
    <3>2. DayOf(h) \in KeptDates(Asked, Start(Asked))
      BY <3>1, <1>2, <1>5
    <3>3. h \in page.inside BY <2>3, <3>2, <1>1, PageIs
    <3> QED BY <3>3, <1>9, <1>12, <2>1 DEF Typed
  <2>4. CASE ~ (DayOf(h) <= Asked.last)
    <3>1. walk.completed # None /\ walk.completed \in Int /\ Asked.last = walk.completed - 1
      BY <2>1, <2>2, <2>4, <1>8, <1>9, <1>11 DEF Newest, Typed
    <3>2. DayOf(h) >= walk.completed BY <3>1, <2>1, <2>4
    <3>3. h \in walk.rows BY <3>1, <3>2, <1>9 DEF HeldAll
    <3> QED BY <3>3, <1>12
  <2> QED BY <2>3, <2>4
<1> QED
  BY <1>1, <1>2, <1>11, <1>12, <1>14, <1>15, <1>16, <1>17, <1>18, <1>19, <1>20, <1>21,
     <1>22 DEF WalkOK

-------------------------------------------------------------------------------
(***************************************************************************)
(* A walk starts, or is forgotten.                                         *)
(***************************************************************************)
\* The hour it is on a date is an integer, later on later dates.
LEMMA NowIs ==
  ASSUME NEW date \in Int, NEW from \in Int, from <= date
  PROVE  NowOn(date) \in Int /\ NowOn(from) \in Int /\ NowOn(from) <= NowOn(date)
<1>1. HoursPerDay \in Nat /\ HoursPerDay > 0 /\ HoursPerDay \div 2 \in Int
  BY WindowsAssumption
<1>2. date * HoursPerDay \in Int /\ from * HoursPerDay \in Int
  BY <1>1
<1>3. date = from + (date - from) /\ date - from \in Nat
  OBVIOUS
<1>4. from * HoursPerDay <= date * HoursPerDay
  <2>1. (date - from) * HoursPerDay >= 0 BY <1>1, <1>3
  <2>2. date * HoursPerDay = from * HoursPerDay + (date - from) * HoursPerDay
    BY <1>1, <1>3
  <2>3. (date - from) * HoursPerDay \in Int BY <1>1, <1>3
  <2> QED BY <2>1, <2>2, <2>3, <1>2
<1> QED BY <1>1, <1>2, <1>4 DEF NowOn, Midnight

\* The newest hour stored.
LEMMA FrontierIs ==
  ASSUME NEW hours \in SUBSET Hours
  PROVE  /\ hours = {} => Frontier(hours) = None
         /\ hours # {} => /\ Frontier(hours) \in hours /\ Frontier(hours) \in Int
                          /\ \A h \in hours : h <= Frontier(hours)
<1>1. hours \in SUBSET Int /\ LastToday + 1 \in Int
  BY HoursAre, WalkAssumption
<1>2. Midnight(LastToday + 1) \in Int /\ \A h \in hours : h <= Midnight(LastToday + 1)
  BY <1>1, HoursAre, DayIs
<1>3. CASE hours # {}
  <2>1. Greatest(hours) \in hours /\ \A h \in hours : h <= Greatest(hours)
    BY <1>1, <1>2, <1>3, GreatestIs
  <2> QED BY <2>1, <1>1, <1>3 DEF Frontier
<1>4. CASE hours = {}
  BY <1>4 DEF Frontier
<1> QED BY <1>3, <1>4

\* A cutoff is not before the first hour.
LEMMA SinceIs ==
  ASSUME stored \subseteq Hours, NEW mode \in Modes, NEW date \in Dates
  PROVE  /\ Since(mode, date) \in Int
         /\ date >= FirstToday => Since(mode, date) >= 0
         /\ stored # {} => Frontier(stored) \in Int
         /\ stored # {} /\ Frontier(stored) < ModeSince(mode, date) =>
              Since(mode, date) >= Frontier(stored)
         /\ ModeSince(mode, date) \in Int
<1>1. /\ NowOn(FirstToday) \in Int /\ FirstToday \in Int /\ date \in Int
      /\ SpanOf[mode] \in 0 .. NowOn(FirstToday) /\ LongestSpan \in 0 .. NowOn(FirstToday)
  BY WalkAssumption, NowIs DEF Dates, Modes
<1>2. NowOn(date) \in Int /\ (date >= FirstToday => NowOn(FirstToday) <= NowOn(date))
  BY <1>1, NowIs
<1>3. PICK a \in Int : /\ a = ModeSince(mode, date)
                       /\ date >= FirstToday => a >= 0
  BY <1>1, <1>2 DEF ModeSince
<1>4. PICK b \in Int : /\ b = NowOn(date) - LongestSpan
                       /\ date >= FirstToday => b >= 0
  BY <1>1, <1>2
<1>5. CASE stored # {} /\ Frontier(stored) < a
  <2>1. Frontier(stored) \in Int BY <1>5, FrontierIs
  <2>2. Since(mode, date) = Larger(b, Frontier(stored)) BY <1>3, <1>4, <1>5 DEF Since
  <2> QED BY <2>1, <2>2, <1>3, <1>4, <1>5, Chosen
<1>6. CASE ~ (stored # {} /\ Frontier(stored) < a)
  <2>1. Since(mode, date) = a BY <1>3, <1>6 DEF Since
  <2> QED BY <2>1, <1>3, <1>6, FrontierIs
<1> QED BY <1>5, <1>6

\* The windows planned cover the dates from the cutoff's to the date's.
LEMMA PlanIsChain ==
  ASSUME NEW since \in Int, NEW date \in Int,
         NEW q, q = [k \in DOMAIN PlanWindows(since, date) |->
                       Part(PlanWindows(since, date)[k], WholeShare)]
  PROVE  Chain(q, date, OldestAsked(since, date)) /\ q # <<>>
<1>1. PICK ws : ws = PlanWindows(since, date)
  OBVIOUS
<1>2. PICK first : first = OldestAsked(since, date)
  OBVIOUS
<1>3. PICK n \in Nat \ {0} :
        /\ first \in Int /\ first <= date
        /\ ws = [k \in 1 .. n |-> ws[k]]
        /\ \A k \in 1 .. n :
             /\ ws[k] \in AWindow /\ ws[k].first <= ws[k].last
             /\ first <= ws[k].first
             /\ ws[k].last - ws[k].first < WindowDays
             /\ ws[k].last = IF k = 1 THEN date ELSE ws[k - 1].first - 1
             /\ \A j \in 1 .. k - 1 : ws[k].last < ws[j].first
        /\ ws[n].first = first
  BY <1>1, <1>2, PlanCovers
<1>4. q = [k \in 1 .. n |-> [window |-> ws[k], share |-> WholeShare]]
  <2>1. DOMAIN ws = 1 .. n BY <1>3
  <2> QED BY <2>1, <1>1 DEF Part
<1>5. WholeShare \in Nat /\ WholeShare \in 1 .. WholeShare
  BY WalkAssumption
<1>6. \A k \in 1 .. n : q[k] \in Parts /\ q[k].window = ws[k] /\ q[k].share = WholeShare
  <2> TAKE k \in 1 .. n
  <2>1. q[k] = [window |-> ws[k], share |-> WholeShare] BY <1>4
  <2>2. ws[k] \in AWindow BY <1>3
  <2> QED BY <2>1, <2>2, <1>5 DEF Parts
<1>7. q \in Seq(Parts) /\ Len(q) = n
  <2>1. q \in [1 .. n -> Parts] BY <1>4, <1>6
  <2> QED BY <2>1
<1>8. \A k \in 1 .. n : ws[k].first \in Int /\ ws[k].last \in Int
  BY <1>3 DEF AWindow
<1>9. ASSUME NEW k \in 1 .. n PROVE ws[k].last <= date
  <2>1. CASE k = 1
    <3>1. ws[k].last = date BY <2>1, <1>3
    <3> QED BY <3>1
  <2>2. CASE k # 1
    <3>1. 1 \in 1 .. n /\ 1 \in 1 .. k - 1 BY <2>2
    <3>2. ws[k].last < ws[1].first /\ ws[1].first <= ws[1].last /\ ws[1].last = date
      BY <3>1, <1>3
    <3> QED BY <3>1, <3>2, <1>8
  <2> QED BY <2>1, <2>2
<1>10. \A k \in 1 .. n : APart(q[k], date, first)
  BY <1>3, <1>5, <1>6, <1>9 DEF APart
<1>11. \A k \in 1 .. n :
         /\ q[k].window.last = IF k = 1 THEN date ELSE q[k - 1].window.first - 1
         /\ \A j \in 1 .. k - 1 : q[k].window.last < q[j].window.first
  <2> TAKE k \in 1 .. n
  <2>1. k # 1 => k - 1 \in 1 .. n OBVIOUS
  <2>2. \A j \in 1 .. k - 1 : j \in 1 .. n OBVIOUS
  <2> QED BY <2>1, <2>2, <1>3, <1>6
<1>12. q # <<>> /\ q[n].window.first = first
  BY <1>3, <1>6, <1>7, EmptySeq
<1> QED
  BY <1>2, <1>7, <1>10, <1>11, <1>12 DEF Chain

\* A walk that starts has every date to ask for, and nothing fetched.
LEMMA NewIs ==
  ASSUME stored \subseteq Hours, NEW mode \in Modes, NEW date \in Dates,
         NEW wk, wk = NewWalk(mode, date)
  PROVE  /\ WalkOK(wk) /\ wk.today = date /\ wk.error = None /\ wk.startAfter = None
         /\ wk.completed = None /\ wk.rows = {} /\ wk.kept = <<>>
         /\ date >= FirstToday => Left(wk)
         /\ \A v : v = [wk EXCEPT !.queue = <<>>] => WalkOK(v)
<1>1. PICK since : since = Since(mode, date)
  OBVIOUS
<1>2. since \in Int /\ (date >= FirstToday => since >= 0) /\ date \in Int
  BY <1>1, SinceIs DEF Dates
<1>3. PICK q : q = [k \in DOMAIN PlanWindows(since, date) |->
                      Part(PlanWindows(since, date)[k], WholeShare)]
  OBVIOUS
<1>4. Chain(q, date, OldestAsked(since, date))
  BY <1>2, <1>3, PlanIsChain
<1>5. PICK quiet : quiet = Quiet(mode, date)
  OBVIOUS
<1>6. PICK kept : kept = {h \in stored : h >= since - 1}
  OBVIOUS
<1>7. PICK frontier : frontier = Frontier(stored)
  OBVIOUS
<1>8. wk = [mode |-> mode, today |-> date, since |-> since, quiet |-> quiet,
       queue |-> q, stored |-> kept, statistics |-> stored # {}, frontier |-> frontier,
       probe |-> FALSE, probed |-> FALSE, laddered |-> 0, daysOnly |-> FALSE,
       querySplit |-> FALSE, ended |-> FALSE, error |-> None,
       kept |-> <<>>, completed |-> None, rows |-> {}, oldest |-> None, streak |-> 0,
       gap |-> FALSE, start |-> FALSE, startAfter |-> None,
       before |-> {}, newer |-> None, missingLast |-> 0, oneSided |-> 0]
  BY <1>1, <1>3, <1>5, <1>6, <1>7 DEF NewWalk
<1>9. /\ kept \subseteq Hours /\ frontier \in Hours \cup {None}
      /\ kept # {} => /\ frontier \in kept
                      /\ \A h \in kept : since - 1 <= h /\ h <= frontier
  <2>1. CASE stored = {}
    <3>1. frontier = None /\ kept = {} BY <2>1, <1>6, <1>7 DEF Frontier
    <3> QED BY <3>1
  <2>2. CASE stored # {}
    <3>1. /\ frontier \in stored /\ frontier \in Int
          /\ \A h \in stored : h <= frontier /\ h \in Int
      BY <2>2, <1>7, FrontierIs, HoursAre
    <3>2. kept # {} => frontier \in kept
      <4> SUFFICES ASSUME NEW h \in kept PROVE frontier \in kept
        OBVIOUS
      <4>1. h <= frontier /\ h >= since - 1 /\ h \in Int BY <3>1, <1>6
      <4>2. frontier >= since - 1 BY <4>1, <3>1, <1>2
      <4> QED BY <4>2, <3>1, <1>6
    <3> QED BY <3>1, <3>2, <1>2, <1>6
  <2> QED BY <2>1, <2>2
<1>10. EmptyWindows * WholeShare \in Nat /\ 0 < EmptyWindows * WholeShare
       /\ WholeShare \in Nat
  <2>1. /\ EmptyWindows \in Nat /\ EmptyWindows > 0 /\ WholeShare \in Nat
        /\ WholeShare > 0
    BY WalkAssumption
  <2> QED BY <2>1
<1>11. ASSUME NEW v, NEW queue \in Seq(Parts), ShareOf(queue),
              v = [wk EXCEPT !.queue = queue]
       PROVE  WalkOK(v)
  <2>1. /\ Fields \subseteq DOMAIN v /\ v.today = date /\ v.since = since
        /\ v.stored = kept /\ v.rows = {} /\ v.before = {} /\ v.queue = queue
        /\ v.kept = <<>> /\ v.completed = None /\ v.oldest = None /\ v.frontier = frontier
        /\ v.error = None /\ v.startAfter = None /\ v.streak = 0
        /\ v.start = FALSE /\ v.ended = FALSE
    BY <1>8, <1>11 DEF Fields
  <2>2. <<>> \in Seq(AWindow) /\ Len(<<>>) = 0
    OBVIOUS
  <2>3. Typed(v)
    BY <2>1, <2>2, <1>2, <1>9, <1>11 DEF Typed, ShareOf
  <2>4. Kept(v) /\ Ends(v)
    BY <2>1, <2>2 DEF Kept, Ends
  <2>5. Streaks(v) /\ Bounded(v)
    BY <2>1, <1>9, <1>10 DEF Streaks, Bounded
  <2> QED BY <2>3, <2>4, <2>5 DEF WalkOK
<1>12. q \in Seq(Parts) /\ ShareOf(q) /\ <<>> \in Seq(Parts) /\ ShareOf(<<>>)
  BY <1>4, ChainShares DEF ShareOf
<1>13. wk = [wk EXCEPT !.queue = q]
  BY <1>8
<1>14. WalkOK(wk) /\ \A v : v = [wk EXCEPT !.queue = <<>>] => WalkOK(v)
  BY <1>11, <1>12, <1>13
<1>15. /\ wk.today = date /\ wk.since = since /\ wk.error = None /\ wk.startAfter = None
       /\ wk.completed = None /\ wk.rows = {} /\ wk.kept = <<>> /\ wk.queue = q
  BY <1>8
<1>16. date >= FirstToday => Left(wk)
  BY <1>2, <1>4, <1>15 DEF Left, Newest, Oldest
<1> QED BY <1>14, <1>15, <1>16

-------------------------------------------------------------------------------
(***************************************************************************)
(* The steps of a walk.                                                    *)
(***************************************************************************)
\* What a step that asks for a window has to keep.
LEMMA AskKeeps ==
  ASSUME IInv, Asks, UNCHANGED <<today, meridian, stored, phase>>,
         MemoryOK(memory'), WalkOK(walk'), walk'.today = walk.today,
         Held(walk', meridian.has), HeldAll(walk', meridian),
         walk'.error = None /\ walk'.startAfter = None => Left(walk')
  PROVE  IInv'
<1>1. phase' = "walking" /\ phase' # "ended" /\ phase # "idle"
  BY Asking
<1>2. StateOK'
  BY <1>1 DEF IInv, StateOK
<1>3. Queued' /\ Fetched' /\ NewerIsStored'
  BY <1>1 DEF Queued, Fetched, NewerIsStored
<1> QED BY <1>2, <1>3 DEF IInv

\* A walk that stops at a window with an error holds what it had.
LEMMA FailKeeps ==
  ASSUME IInv, Asks, NEW base, SameBut(base, walk, Aside), base.queue = Sent.queue,
         base.before \subseteq Hours, NEW error \in Errors,
         NEW wk, wk = [base EXCEPT !.error = error]
  PROVE  /\ WalkOK(wk) /\ Held(wk, meridian.has) /\ HeldAll(wk, meridian)
         /\ wk.today = walk.today /\ wk.error # None
<1>1. /\ SameBut(wk, walk, Aside) /\ wk.queue = Sent.queue /\ wk.before \subseteq Hours
      /\ wk.error = error
  BY DEF SameBut, Fields, Aside
<1>2. wk.queue \in Seq(Parts) /\ ShareOf(wk.queue)
  BY <1>1, SentIs, ChainShares
<1>3. WalkOK(wk) /\ Held(wk, meridian.has) /\ HeldAll(wk, meridian)
  BY <1>1, <1>2, AsideKeeps, Asking
<1>4. wk.today = walk.today
  BY <1>1 DEF SameBut, Fields, Aside
<1> QED BY <1>1, <1>3, <1>4, WalkAssumption

\* The walk once its next window has gone out.
LEMMA SentAside ==
  ASSUME IInv, Asks
  PROVE  /\ SameBut(Sent, walk, Aside) /\ Sent.before \subseteq Hours
         /\ SameBut(Sent, walk, {"queue", "probe", "probed"})
<1>1. SameBut(Sent, walk, {"queue", "probe", "probed"})
  BY SentIs
<1> QED BY <1>1 DEF SameBut, Fields, Aside, IInv, WalkOK, Typed

\* A walk split by days asks for the same dates.
LEMMA SplitKeeps ==
  ASSUME IInv, Asks, Days(Asked) > 1, NEW wk, SameBut(wk, walk, Aside),
         wk.queue = ByDays(NextPart) \o Sent.queue, wk.before \subseteq Hours,
         wk.error = None
  PROVE  /\ WalkOK(wk) /\ Held(wk, meridian.has) /\ HeldAll(wk, meridian)
         /\ wk.today = walk.today /\ Left(wk)
<1>1. Chain(wk.queue, Newest(walk), Oldest(walk))
  BY SentIs
<1>2. wk.queue \in Seq(Parts) /\ ShareOf(wk.queue)
  BY <1>1, ChainShares
<1>3. WalkOK(wk) /\ Held(wk, meridian.has) /\ HeldAll(wk, meridian)
  BY <1>2, AsideKeeps, Asking
<1>4. /\ wk.today = walk.today /\ wk.since = walk.since /\ wk.completed = walk.completed
  BY DEF SameBut, Fields, Aside
<1> QED BY <1>1, <1>3, <1>4, Asking DEF Left, Newest, Oldest

\* What is remembered of a window asked for.
LEMMA MemoryKeeps ==
  ASSUME IInv, Asks
  PROVE  /\ MemoryOK(Unowed(memory)) /\ MemoryOK(Shown(Unowed(memory)))
         /\ MemoryOK(Defer(Asked, walk.today))
<1>1. /\ MemoryOK(memory) /\ walk.today \in Dates /\ Asked.last \in Dates
      /\ Asked.first \in Dates /\ Dates \subseteq Int
      /\ NextPart \in Parts /\ APart(NextPart, Newest(walk), Oldest(walk))
  BY SentIs, WalkAssumption DEF IInv, WalkOK, Typed, Dates
<1>2. None \notin Int /\ LadderDays \in Int
  BY WalkAssumption
<1>3. ASSUME NEW mem, MemoryOK(mem) PROVE MemoryOK(Unowed(mem)) /\ MemoryOK(Shown(mem))
  <2>1. MemoryOK([mem EXCEPT !.probeOn = None])
    BY <1>3 DEF MemoryOK, MemoryFields
  <2>2. MemoryOK([mem EXCEPT !.ladderedOn = Asked.last, !.ladderedAt = walk.today])
    <3>1. walk.today # None /\ Asked.last # None BY <1>1, <1>2
    <3> QED BY <3>1, <1>1, <1>3 DEF MemoryOK, MemoryFields
  <2> QED BY <2>1, <2>2, <1>3 DEF Unowed, Shown
<1>4. DaysKept(walk.today) \in Dates \cup {None} /\ RecentLadder(walk.today) \in Dates \cup {None}
  BY <1>1 DEF DaysKept, RecentLadder, Recent, MemoryOK
<1>5. ASSUME NEW day \in Dates PROVE MemoryOK(KeepDays(day, walk.today))
  <2>1. PICK kept : kept = IF DaysKept(walk.today) = None THEN day
                           ELSE Larger(DaysKept(walk.today), day)
    OBVIOUS
  <2>2. kept \in Dates /\ walk.today # None /\ kept # None
    BY <2>1, <1>1, <1>2, <1>4 DEF Larger
  <2>3. KeepDays(day, walk.today) = [memory EXCEPT !.daysOn = kept, !.daysAt = walk.today]
    BY <2>1 DEF KeepDays
  <2> QED BY <2>2, <2>3, <1>1 DEF MemoryOK, MemoryFields
<1>6. PICK days : days = Cardinality(WindowDates(Asked))
  OBVIOUS
<1>7. days \in 0 .. WindowDays
  <2>1. PICK a \in Int, b \in Int : a = Asked.first /\ b = Asked.last /\ a <= b /\ b - a < WindowDays
    BY <1>1 DEF APart, Asked
  <2>2. Cardinality(a .. b) = IF a > b THEN 0 ELSE b - a + 1
    BY <2>1, FS_Interval
  <2>3. WindowDays \in Nat BY WindowsAssumption
  <2> QED BY <1>6, <2>1, <2>2, <2>3 DEF WindowDates
<1>8. MemoryOK(Defer(Asked, walk.today))
  <2>1. CASE RecentLadder(walk.today) = None
    <3>1. Defer(Asked, walk.today) =
            [memory EXCEPT !.probeOn = Asked.last, !.probeDays = days]
      BY <2>1, <1>6 DEF Defer
    <3> QED BY <3>1, <1>1, <1>7 DEF MemoryOK, MemoryFields
  <2>2. CASE RecentLadder(walk.today) # None
    <3>1. Larger(RecentLadder(walk.today), Asked.last) \in Dates
      BY <2>2, <1>1, <1>4 DEF Larger
    <3>2. Defer(Asked, walk.today) =
            KeepDays(Larger(RecentLadder(walk.today), Asked.last), walk.today)
      BY <2>2 DEF Defer
    <3> QED BY <3>1, <3>2, <1>5
  <2> QED BY <2>1, <2>2
<1> QED BY <1>1, <1>3, <1>8

\* The hour the newest stored one is, is exceeded only by rows the walk holds.
LEMMA CompleteHolds ==
  ASSUME IInv, phase = "walking", Complete(walk), meridian.reads = "asked",
         walk.stored # {}, ~ (walk.quiet /\ walk.oldest = None),
         NEW h \in meridian.has, walk.frontier < h, h < NowOn(walk.today)
  PROVE  h \in walk.rows /\ \A s \in walk.stored : s < h
<1>1. /\ Typed(walk) /\ Kept(walk) /\ Bounded(walk) /\ Ends(walk) /\ HeldAll(walk, meridian)
      /\ walk.error = None /\ (walk.ended \/ walk.queue = <<>>)
  BY DEF IInv, WalkOK, Fetched, Complete, Done
<1>2. /\ walk.frontier \in walk.stored
      /\ \A s \in walk.stored : walk.since - 1 <= s /\ s <= walk.frontier
  BY <1>1 DEF Bounded
<1>3. /\ walk.stored \subseteq Int /\ walk.frontier \in Int /\ h \in Int
      /\ walk.since \in Int /\ walk.today \in Int /\ DayOf(h) \in Int
      /\ walk.completed \in Int \cup {None} /\ None \notin Int
  <2>1. h \in Hours
    BY DEF IInv, StateOK, MeridianRecord
  <2>2. walk.stored \subseteq Hours /\ walk.since \in Int /\ walk.today \in Dates
        /\ walk.completed \in Int \cup {None}
    BY <1>1 DEF Typed
  <2>3. Hours \subseteq Int /\ Dates \subseteq Int /\ None \notin Int
    BY HoursAre, WalkAssumption DEF Dates
  <2>4. DayOf(h) \in Int
    BY <2>1, <2>3, DayIs
  <2> QED BY <2>1, <2>2, <2>3, <2>4, <1>2
<1>4. \A s \in walk.stored : s < h
  BY <1>2, <1>3
<1>5. walk.since <= h
  BY <1>2, <1>3
<1>6. walk.completed # None /\ DayOf(h) >= walk.completed
  <2>1. ASSUME NEW s \in walk.stored, walk.completed # None, s >= Midnight(walk.completed)
        PROVE  DayOf(h) >= walk.completed
    <3>1. walk.completed \in Int /\ s \in Int BY <2>1, <1>3
    <3>2. Midnight(walk.completed) \in Int
      BY <3>1, DayIs
    <3>3. Midnight(walk.completed) <= h
      BY <2>1, <3>1, <3>2, <1>3, <1>4
    <3> QED BY <3>1, <3>2, <3>3, <1>3, DayIs
  <2>2. CASE walk.start
    BY <2>1, <2>2, <1>1, <1>2 DEF Bounded
  <2>3. CASE ~ walk.start /\ walk.ended
    BY <2>1, <2>3, <1>1 DEF Ends
  <2>4. CASE ~ walk.ended
    <3>1. walk.queue = <<>> /\ walk.startAfter = None BY <2>4, <1>1 DEF Kept
    <3>2. walk.since >= 0 /\ Chain(walk.queue, Newest(walk), Oldest(walk))
      BY <3>1, <1>1 DEF IInv, Queued, Left
    <3>3. Newest(walk) = Oldest(walk) - 1
      BY <3>1, <3>2 DEF Chain
    <3>4. DayOf(walk.since) \in Int
      BY <1>3, DayIs
    <3>5. Oldest(walk) \in Int /\ Oldest(walk) <= walk.today /\ Oldest(walk) <= DayOf(walk.since)
      BY <1>3, <3>4, Chosen DEF Oldest, OldestAsked
    <3>6. walk.completed # None
      BY <3>3, <3>5, <1>3 DEF Newest
    <3>7. walk.completed = Oldest(walk)
      BY <3>3, <3>5, <3>6, <1>3 DEF Newest
    <3>8. DayOf(walk.since) <= DayOf(h)
      <4>1. Midnight(DayOf(walk.since)) \in Int /\ Midnight(DayOf(walk.since)) <= walk.since
        BY <3>4, <1>3, DayIs
      <4>2. Midnight(DayOf(walk.since)) <= h BY <4>1, <1>3, <1>5
      <4> QED BY <4>2, <3>4, <1>3, DayIs
    <3> QED BY <3>4, <3>5, <3>6, <3>7, <3>8, <1>3
  <2> QED BY <2>2, <2>3, <2>4
<1>7. walk.startAfter = None \/ DayOf(h) > walk.startAfter
  <2>1. CASE walk.startAfter # None
    <3>1. walk.startAfter \in Int /\ DayOf(walk.frontier) > walk.startAfter
      BY <2>1, <1>1, <1>2 DEF Typed, Kept, Bounded
    <3>2. DayOf(walk.frontier) <= DayOf(h) /\ DayOf(walk.frontier) \in Int
      <4>1. DayOf(walk.frontier) \in Int BY <1>3, DayIs
      <4>2. Midnight(DayOf(walk.frontier)) \in Int /\ Midnight(DayOf(walk.frontier)) <= walk.frontier
        BY <4>1, <1>3, DayIs
      <4>3. Midnight(DayOf(walk.frontier)) <= h BY <4>2, <1>3
      <4> QED BY <4>1, <4>3, <1>3, DayIs
    <3> QED BY <3>1, <3>2, <1>3
  <2> QED BY <2>1
<1>8. h \in walk.rows
  BY <1>1, <1>5, <1>6, <1>7 DEF HeldAll
<1> QED BY <1>4, <1>8

\* What a walk kept is imported: a row newer than the newest hour stored is.
LEMMA FinishKeeps ==
  ASSUME IInv, Finish
  PROVE  IInv'
<1>1. /\ phase = "walking" /\ phase' = "ended" /\ walk' = walk /\ today' = today
      /\ meridian' = meridian
      /\ stored' = stored \cup (IF Imports THEN Importable(walk.rows, walk.stored) ELSE {})
      /\ memory' = [memory EXCEPT
           !.quiet = IF stored' = {} \/ FoundNew THEN None
                     ELSE IF Complete(walk) THEN Frontier(stored') ELSE @]
  BY DEF Finish
<1>2. /\ StateOK /\ MemoryOK(memory) /\ WalkOK(walk) /\ Queued /\ Fetched
      /\ walk.rows \subseteq Hours
  BY DEF IInv, WalkOK, Typed
<1>3. stored' \subseteq Hours
  BY <1>1, <1>2, ImportsFetched DEF StateOK
<1>4. MemoryOK(memory')
  <2>1. PICK quiet : /\ quiet = memory'.quiet
                     /\ memory' = [memory EXCEPT !.quiet = quiet]
                     /\ quiet \in {None, Frontier(stored'), memory.quiet}
                     /\ stored' = {} => quiet = None
    BY <1>1, <1>2 DEF MemoryOK, MemoryFields
  <2>2. quiet \in Hours \cup {None}
    BY <2>1, <1>2, <1>3, FrontierIs DEF MemoryOK
  <2> QED BY <2>1, <2>2, <1>2 DEF MemoryOK, MemoryFields
<1>5. StateOK' /\ WalkOK(walk)' /\ Queued' /\ Fetched'
  BY <1>1, <1>2, <1>3 DEF StateOK, Queued, Fetched
<1>6. NewerIsStored'
  <2> SUFFICES ASSUME Complete(walk), meridian.reads = "asked", walk.stored # {},
                      ~ (walk.quiet /\ walk.oldest = None),
                      NEW h \in meridian.has, walk.frontier < h, h < NowOn(walk.today)
               PROVE  h \in stored'
    BY <1>1 DEF NewerIsStored, Complete, Done
  <2>1. h \in walk.rows /\ \A s \in walk.stored : s < h
    BY <1>1, CompleteHolds
  <2>5. walk.rows \subseteq Hours /\ walk.stored \subseteq Hours
    BY <1>2 DEF WalkOK, Typed
  <2>6. Hours \subseteq Int
    BY HoursAre
  <2>2. walk.rows \in SUBSET Int /\ walk.stored \in SUBSET Int
    BY <2>5, <2>6
  <2>3. /\ Midnight(LastToday + 1) \in Int
        /\ \A x \in walk.rows \cup walk.stored : x <= Midnight(LastToday + 1)
    <3>1. LastToday + 1 \in Int BY WalkAssumption
    <3> QED BY <3>1, <2>5, HoursAre, DayIs
  <2>4. h \in Importable(walk.rows, walk.stored)
    BY <2>1, <2>2, <2>3, ImportsNewer
  <2> QED BY <2>4, <1>1 DEF Imports
<1> QED BY <1>4, <1>5, <1>6, <1>1 DEF IInv

\* A window that came back, or was refused.
LEMMA TakeKeeps ==
  ASSUME IInv, TakeWindow
  PROVE  IInv'
<1>1. /\ Asks /\ UNCHANGED <<today, meridian, stored, phase>>
      /\ Refuses(Asked) => Start(Asked) = AllCame
  BY DEF TakeWindow, Answered
<1>2. PICK page : /\ page = Answer(Asked)
                  /\ IF RowsAfter(Asked)
                     THEN FailsWith(Sent, "misread") /\ memory' = Unowed(memory)
                     ELSE /\ memory' = Shown(Unowed(memory))
                          /\ IF Passes(Sent, Asked, page)
                             THEN walk' = Taken(Sent, Asked, NextPart.share, page)
                             ELSE FailsWith(Checked(Sent, Asked, page), "misread")
  BY DEF TakeWindow
<1>3. MemoryOK(memory')
  BY <1>1, <1>2, MemoryKeeps
<1>4. "misread" \in Errors
  BY DEF Errors
<1>5. CASE walk' = [Sent EXCEPT !.error = "misread"]
  <2>1. /\ WalkOK(walk') /\ Held(walk', meridian.has) /\ HeldAll(walk', meridian)
        /\ walk'.today = walk.today /\ walk'.error # None
    BY <1>1, <1>4, <1>5, SentAside, FailKeeps
  <2> QED BY <2>1, <1>1, <1>3, AskKeeps
<1>6. CASE walk' = [Checked(Sent, Asked, page) EXCEPT !.error = "misread"]
  <2>1. /\ WalkOK(walk') /\ Held(walk', meridian.has) /\ HeldAll(walk', meridian)
        /\ walk'.today = walk.today /\ walk'.error # None
    BY <1>1, <1>2, <1>4, <1>6, CheckedIs, FailKeeps
  <2> QED BY <2>1, <1>1, <1>3, AskKeeps
<1>7. CASE walk' = Taken(Sent, Asked, NextPart.share, page)
  <2>1. /\ WalkOK(walk') /\ Left(walk') /\ Held(walk', meridian.has)
        /\ HeldAll(walk', meridian) /\ walk'.today = walk.today
    BY <1>1, <1>2, <1>7, TakenKeeps
  <2> QED BY <2>1, <1>1, <1>3, AskKeeps
<1> QED BY <1>2, <1>5, <1>6, <1>7 DEF FailsWith

\* A window refused keeps it.
LEMMA RefuseKeeps ==
  ASSUME IInv, RefuseWindow
  PROVE  IInv'
<1>1. /\ Asks /\ UNCHANGED <<today, meridian, stored, phase>> /\ Refuses(Asked)
      /\ IF Starts(Asked)
         THEN walk' = TakenStart(Sent, Asked, Answer(Asked)) /\ memory' = Shown(Unowed(memory))
         ELSE FailsWith(Sent, "refused") /\ memory' = Unowed(memory)
  BY DEF RefuseWindow, Answered
<1>2. MemoryOK(memory')
  BY <1>1, MemoryKeeps
<1>3. CASE Starts(Asked)
  <2>1. /\ WalkOK(walk') /\ Held(walk', meridian.has) /\ HeldAll(walk', meridian)
        /\ walk'.today = walk.today /\ walk'.startAfter # None
    BY <1>1, <1>3, StartKeeps
  <2> QED BY <2>1, <1>1, <1>2, AskKeeps
<1>4. CASE ~ Starts(Asked)
  <2>1. walk' = [Sent EXCEPT !.error = "refused"] /\ "refused" \in Errors
    BY <1>1, <1>4 DEF FailsWith, Errors
  <2>2. /\ WalkOK(walk') /\ Held(walk', meridian.has) /\ HeldAll(walk', meridian)
        /\ walk'.today = walk.today /\ walk'.error # None
    BY <1>1, <2>1, SentAside, FailKeeps
  <2> QED BY <2>2, <1>1, <1>2, AskKeeps
<1> QED BY <1>3, <1>4

\* A window of several dates that is not answered in time, or is over the query
\* limits, is split by days.
LEMMA TimeoutKeeps ==
  ASSUME IInv, TimesOut
  PROVE  IInv'
<1>1. /\ Asks /\ Days(Asked) > 1 /\ UNCHANGED <<today, meridian, stored, phase>>
      /\ IF setup
         THEN /\ walk' = [Split(Sent, NextPart, TRUE) EXCEPT
                            !.laddered = Smaller(@ + 1, 2),
                            !.daysOnly = @ \/ Sent.laddered > 0]
              /\ memory' = memory
         ELSE /\ walk' = [Sent EXCEPT !.error = "timeout"]
              /\ memory' = Defer(Asked, walk.today)
  BY DEF TimesOut
<1>2. MemoryOK(memory')
  BY <1>1, MemoryKeeps DEF IInv
<1>3. CASE setup
  <2>1. PICK laddered, daysOnly :
          walk' = [Split(Sent, NextPart, TRUE) EXCEPT !.laddered = laddered,
                                                      !.daysOnly = daysOnly]
    BY <1>1, <1>3
  <2>2. /\ SameBut(walk', walk, Aside) /\ walk'.before \subseteq Hours
        /\ walk'.queue = ByDays(NextPart) \o Sent.queue /\ walk'.error = None
    <3>1. /\ SameBut(Sent, walk, Aside) /\ Sent.before \subseteq Hours
          /\ Sent.error = None
      BY <1>1, SentAside, Asking DEF SameBut, Fields
    <3> QED BY <2>1, <3>1 DEF Split, SameBut, Fields, Aside
  <2>3. /\ WalkOK(walk') /\ Held(walk', meridian.has) /\ HeldAll(walk', meridian)
        /\ walk'.today = walk.today /\ Left(walk')
    BY <1>1, <2>2, SplitKeeps
  <2> QED BY <2>3, <1>1, <1>2, AskKeeps
<1>4. CASE ~ setup
  <2>1. walk' = [Sent EXCEPT !.error = "timeout"] /\ "timeout" \in Errors
    BY <1>1, <1>4 DEF Errors
  <2>2. /\ WalkOK(walk') /\ Held(walk', meridian.has) /\ HeldAll(walk', meridian)
        /\ walk'.today = walk.today /\ walk'.error # None
    BY <1>1, <2>1, SentAside, FailKeeps
  <2> QED BY <2>2, <1>1, <1>2, AskKeeps
<1> QED BY <1>3, <1>4

\* A window over what Meridian allows, split, keeps it.
LEMMA LimitsKeep ==
  ASSUME IInv, OverLimits
  PROVE  IInv'
<1>1. /\ Asks /\ Days(Asked) > meridian.allows
      /\ UNCHANGED <<today, meridian, stored, phase, memory>>
      /\ walk' = [Split(Sent, NextPart, FALSE) EXCEPT !.querySplit = TRUE, !.daysOnly = TRUE]
  BY DEF OverLimits
<1>2. Days(Asked) > 1
  <2>1. meridian.allows \in 1 .. WindowDays /\ WindowDays \in Nat
    BY WindowsAssumption DEF IInv, StateOK, MeridianRecord
  <2>2. Days(Asked) \in Int
    BY <1>1, SentIs DEF Days, AWindow
  <2> QED BY <2>1, <2>2, <1>1
<1>3. /\ SameBut(Sent, walk, Aside) /\ Sent.before \subseteq Hours /\ Sent.error = None
  BY <1>1, SentAside, Asking DEF SameBut, Fields
<1>4. /\ SameBut(walk', walk, Aside) /\ walk'.before \subseteq Hours
      /\ walk'.queue = ByDays(NextPart) \o Sent.queue /\ walk'.error = None
  BY <1>1, <1>3 DEF Split, SameBut, Fields, Aside
<1>5. /\ WalkOK(walk') /\ Held(walk', meridian.has) /\ HeldAll(walk', meridian)
      /\ walk'.today = walk.today /\ Left(walk')
  BY <1>1, <1>2, <1>4, SplitKeeps
<1> QED BY <1>1, <1>5, AskKeeps DEF IInv

\* The time budget ends, or Meridian fails.
LEMMA StopKeeps ==
  ASSUME IInv, BudgetEnds \/ RequestFails
  PROVE  IInv'
<1>1. /\ Asks /\ UNCHANGED <<today, meridian, stored, phase>>
      /\ \E error \in {"budget", "failure"} : walk' = [Sent EXCEPT !.error = error]
      /\ memory' \in {memory, Unowed(memory)}
  BY DEF BudgetEnds, RequestFails, FailsWith, Sent
<1>2. PICK error \in Errors : walk' = [Sent EXCEPT !.error = error]
  BY <1>1 DEF Errors
<1>3. MemoryOK(memory')
  BY <1>1, MemoryKeeps DEF IInv
<1>4. /\ WalkOK(walk') /\ Held(walk', meridian.has) /\ HeldAll(walk', meridian)
      /\ walk'.today = walk.today /\ walk'.error # None
  BY <1>1, <1>2, SentAside, FailKeeps
<1> QED BY <1>1, <1>3, <1>4, AskKeeps

-------------------------------------------------------------------------------
(***************************************************************************)
(* The steps between walks.                                                *)
(***************************************************************************)
\* A forgotten walk holds nothing.
LEMMA ForgottenIs ==
  ASSUME stored \subseteq Hours
  PROVE  /\ WalkOK(Forgotten) /\ Empty(Forgotten) /\ Forgotten.rows = {}
         /\ Forgotten.completed = None
<1>1. PICK wk : wk = NewWalk("tip", 0)
  OBVIOUS
<1>2. "tip" \in Modes /\ 0 \in Dates
  BY WalkAssumption DEF Dates
<1>3. /\ \A v : v = [wk EXCEPT !.queue = <<>>] => WalkOK(v)
      /\ wk.kept = <<>> /\ wk.completed = None
      /\ wk.rows = {} /\ Fields \subseteq DOMAIN wk
  BY <1>1, <1>2, NewIs DEF WalkOK, Typed
<1>4. Forgotten = [wk EXCEPT !.queue = <<>>]
  BY <1>1 DEF Forgotten
<1> QED BY <1>3, <1>4 DEF Empty, Fields

\* What is remembered to begin with is in order.
LEMMA NewMemoryIs == MemoryOK(NewMemory)
BY WindowsAssumption DEF MemoryOK, MemoryFields, NewMemory

\* It holds to begin with.
LEMMA InitIInv == Init => IInv
<1> SUFFICES ASSUME Init PROVE IInv
  OBVIOUS
<1>1. PICK trial \in Trials :
        /\ meridian \in trial.meridians
        /\ stored \in trial.stored /\ stored \subseteq meridian.has
  BY DEF Init
<1>2. /\ meridian \in MeridianRecord /\ stored \subseteq Hours
  BY <1>1, WalkAssumption
<1>3. today \in Dates /\ today >= FirstToday /\ phase = "idle" /\ walk = Forgotten
      /\ memory = NewMemory
  BY WalkAssumption DEF Init, Dates
<1>4. WalkOK(walk) /\ Empty(walk) /\ walk.rows = {} /\ walk.completed = None
  BY <1>2, <1>3, ForgottenIs
<1>5. Queued /\ Fetched /\ NewerIsStored
  BY <1>3, <1>4 DEF Queued, Fetched, Held, HeldAll, NewerIsStored
<1> QED BY <1>2, <1>3, <1>4, <1>5, NewMemoryIs DEF IInv, StateOK

\* A walk that begins keeps it.
LEMMA BeginKeeps ==
  ASSUME IInv, Begin
  PROVE  IInv'
<1>1. PICK mode \in Modes : walk' = NewWalk(mode, today)
  <2>1. "initial" \in Modes BY WalkAssumption
  <2> QED BY <2>1 DEF Begin
<1>2. /\ phase' = "walking" /\ UNCHANGED <<today, meridian, stored, memory>>
      /\ today \in Dates /\ today >= FirstToday /\ stored \subseteq Hours
  BY DEF Begin, IInv, StateOK
<1>3. /\ WalkOK(walk') /\ walk'.today = today /\ walk'.completed = None
      /\ walk'.rows = {} /\ Left(walk')
  <2>1. PICK wk : wk = NewWalk(mode, today)
    OBVIOUS
  <2>2. /\ WalkOK(wk) /\ wk.today = today /\ wk.completed = None
        /\ wk.rows = {} /\ Left(wk)
    BY <2>1, <1>2, NewIs
  <2> QED BY <2>1, <2>2, <1>1
<1>4. StateOK'
  BY <1>2, <1>3 DEF IInv, StateOK
<1>5. Queued' /\ Fetched' /\ NewerIsStored'
  BY <1>2, <1>3 DEF Queued, Fetched, Held, HeldAll, NewerIsStored
<1> QED BY <1>2, <1>3, <1>4, <1>5 DEF IInv

\* A restart keeps it.
LEMMA RestartKeeps ==
  ASSUME IInv, Restart
  PROVE  IInv'
<1>1. /\ memory' = NewMemory /\ walk' = Forgotten /\ phase' = "idle"
      /\ UNCHANGED <<today, meridian, stored>> /\ stored \subseteq Hours
  BY DEF Restart, IInv, StateOK
<1>2. WalkOK(walk') /\ Empty(walk') /\ walk'.rows = {} /\ walk'.completed = None
  BY <1>1, ForgottenIs
<1>3. StateOK'
  BY <1>1 DEF IInv, StateOK
<1>4. Queued' /\ Fetched' /\ NewerIsStored'
  BY <1>1, <1>2 DEF Queued, Fetched, Held, HeldAll, NewerIsStored
<1> QED BY <1>1, <1>2, <1>3, <1>4, NewMemoryIs DEF IInv

\* Readings published late leave a walk what it had.
LEMMA PublishKeeps ==
  ASSUME IInv, Publish
  PROVE  IInv'
<1>1. PICK d \in Dates : meridian' = [meridian EXCEPT !.has = @ \cup HoursOf(d)]
  BY DEF Publish
<1>2. /\ phase' = "idle" /\ phase # "walking" /\ UNCHANGED <<today, stored, memory, walk>>
  BY DEF Publish
<1>3. HoursOf(d) \subseteq Hours
  <2>1. LastToday \in Nat /\ d \in Int /\ 0 <= d /\ d <= LastToday
    BY WalkAssumption DEF Dates
  <2>2. HoursPerDay \in Nat BY WindowsAssumption
  <2>3. d * HoursPerDay >= 0 /\ d * HoursPerDay \in Int
    BY <2>1, <2>2
  <2>4. (d + 1) * HoursPerDay <= (LastToday + 1) * HoursPerDay
    <3>1. PICK more \in Nat : LastToday + 1 = d + 1 + more BY <2>1
    <3>2. (LastToday + 1) * HoursPerDay = (d + 1) * HoursPerDay + more * HoursPerDay
      BY <3>1, <2>1, <2>2
    <3>3. more * HoursPerDay >= 0 /\ more * HoursPerDay \in Int BY <3>1, <2>2
    <3>4. (d + 1) * HoursPerDay \in Int BY <2>1, <2>2
    <3> QED BY <3>2, <3>3, <3>4
  <2>5. (d + 1) * HoursPerDay \in Int /\ (LastToday + 1) * HoursPerDay \in Int
        /\ 0 * HoursPerDay = 0
    BY <2>1, <2>2
  <2> QED BY <2>3, <2>4, <2>5 DEF HoursOf, Hours, Midnight
<1>4. meridian' \in MeridianRecord /\ meridian.has \subseteq meridian'.has
  BY <1>1, <1>3 DEF IInv, StateOK, MeridianRecord
<1>5. StateOK'
  BY <1>2, <1>4 DEF IInv, StateOK
<1>6. Held(walk, meridian'.has)
  BY <1>4 DEF IInv, Fetched, Held
<1>7. Fetched' /\ NewerIsStored'
  BY <1>2, <1>6 DEF Fetched, NewerIsStored
<1>8. Queued'
  BY <1>2 DEF IInv, Queued
<1> QED BY <1>2, <1>5, <1>7, <1>8 DEF IInv

\* A date passes, or setup's walks are taken over, and what a walk holds is as
\* it was.
LEMMA PassKeeps ==
  ASSUME IInv, DatePasses \/ SetUp \/ UNCHANGED vars
  PROVE  IInv'
<1>1. /\ UNCHANGED <<meridian, stored, memory, phase, walk>>
      /\ today' = today \/ (today < LastToday /\ today' = today + 1)
  BY DEF DatePasses, SetUp, vars
<1>2. today' \in Dates /\ today' >= FirstToday
  BY <1>1, WalkAssumption DEF IInv, StateOK, Dates
<1>3. StateOK'
  BY <1>1, <1>2 DEF IInv, StateOK
<1>4. Queued' /\ Fetched' /\ NewerIsStored'
  BY <1>1 DEF IInv, Queued, Fetched, NewerIsStored, Complete, Done
<1> QED BY <1>1, <1>3, <1>4 DEF IInv

\* Every step keeps the invariant.
LEMMA NextIInv == IInv /\ [Next]_vars => IInv'
<1> SUFFICES ASSUME IInv, [Next]_vars PROVE IInv'
  OBVIOUS
<1>1. CASE Begin BY <1>1, BeginKeeps
<1>2. CASE BudgetEnds \/ RequestFails BY <1>2, StopKeeps
<1>3. CASE TimesOut BY <1>3, TimeoutKeeps
<1>4. CASE OverLimits BY <1>4, LimitsKeep
<1>5. CASE TakeWindow BY <1>5, TakeKeeps
<1>6. CASE RefuseWindow BY <1>6, RefuseKeeps
<1>7. CASE Finish BY <1>7, FinishKeeps
<1>8. CASE Restart BY <1>8, RestartKeeps
<1>9. CASE Publish BY <1>9, PublishKeeps
<1>10. CASE DatePasses \/ SetUp \/ UNCHANGED vars BY <1>10, PassKeeps
<1> QED
  BY <1>1, <1>2, <1>3, <1>4, <1>5, <1>6, <1>7, <1>8, <1>9, <1>10 DEF Next

\* The inductive invariant holds in every reachable state.
THEOREM Invariance == Spec => []IInv
<1>1. Init => IInv BY InitIInv
<1>2. IInv /\ [Next]_vars => IInv' BY NextIInv
<1> QED BY <1>1, <1>2, PTL DEF Spec

-------------------------------------------------------------------------------
(***************************************************************************)
(* What follows from the invariant.                                        *)
(***************************************************************************)
\* The state of a walk and of what is remembered is of the types stated.
THEOREM TypeCorrect == Spec => []TypeOK
<1>1. IInv => TypeOK
  <2> SUFFICES ASSUME IInv PROVE TypeOK
    OBVIOUS
  <2>1. StateOK /\ MemoryOK(memory) /\ Typed(walk) /\ Streaks(walk)
    BY DEF IInv, WalkOK
  <2>2. walk.streak \in 0 .. (EmptyWindows + 1) * WholeShare - 1
    <3>1. /\ EmptyWindows \in Nat /\ WholeShare \in Nat
          /\ (EmptyWindows + 1) * WholeShare = EmptyWindows * WholeShare + WholeShare
          /\ EmptyWindows * WholeShare \in Nat
      BY WalkAssumption
    <3>2. PICK limit \in Nat : limit = EmptyWindows * WholeShare
      BY <3>1
    <3>3. walk.streak \in Nat /\ walk.streak < limit + WholeShare
      BY <2>1, <3>2 DEF Typed, Streaks
    <3>4. (EmptyWindows + 1) * WholeShare = limit + WholeShare
      BY <3>1, <3>2
    <3> QED BY <3>1, <3>3, <3>4
  <2>3. \A k \in DOMAIN walk.queue : walk.queue[k].share \in 1 .. WholeShare
    <3>1. DOMAIN walk.queue = 1 .. Len(walk.queue)
      BY <2>1, LenProperties DEF Typed
    <3> QED BY <3>1, <2>1 DEF Typed
  <2>4. {memory.ladderedOn, memory.ladderedAt, memory.daysOn, memory.daysAt}
          \subseteq Dates \cup {None}
    BY <2>1 DEF MemoryOK
  <2> QED BY <2>1, <2>2, <2>3, <2>4 DEF TypeOK, StateOK, MemoryOK, Typed
<1> QED BY <1>1, Invariance, PTL

\* A walk that ended with none failed has left no newer hour out.
THEOREM NewerStored == Spec => []NewerIsStored
<1>1. IInv => NewerIsStored
  BY DEF IInv
<1> QED BY <1>1, Invariance, PTL

\* The windows a walk kept and those it has still to ask for, one by one.
LEMMA InOrderIs ==
  ASSUME NEW wk, wk.kept \in Seq(AWindow), wk.queue \in Seq(Parts)
  PROVE  /\ InOrder(wk) \in Seq(AWindow)
         /\ Len(InOrder(wk)) = Len(wk.kept) + Len(wk.queue)
         /\ \A k \in 1 .. Len(InOrder(wk)) :
              InOrder(wk)[k] = IF k <= Len(wk.kept) THEN wk.kept[k]
                               ELSE wk.queue[k - Len(wk.kept)].window
<1>1. PICK q : q = [k \in DOMAIN wk.queue |-> wk.queue[k].window]
  OBVIOUS
<1>2. PICK m \in Nat : m = Len(wk.queue) /\ DOMAIN wk.queue = 1 .. m
  BY LenProperties
<1>3. q = [k \in 1 .. m |-> wk.queue[k].window] /\ \A k \in 1 .. m : wk.queue[k].window \in AWindow
  BY <1>1, <1>2, PartsOf
<1>4. q \in Seq(AWindow) /\ Len(q) = m
  <2>1. q \in [1 .. m -> AWindow] BY <1>3
  <2> QED BY <2>1
<1>5. InOrder(wk) = wk.kept \o q
  BY <1>1 DEF InOrder
<1>6. PICK n \in Nat : n = Len(wk.kept)
  BY LenProperties
<1>7. /\ InOrder(wk) \in Seq(AWindow) /\ Len(InOrder(wk)) = n + m
      /\ \A k \in 1 .. n + m : InOrder(wk)[k] = IF k <= n THEN wk.kept[k] ELSE q[k - n]
  <2>1. PICK kept \in Seq(AWindow) : kept = wk.kept
    OBVIOUS
  <2>2. PICK s : s = kept \o q
    OBVIOUS
  <2>3. /\ s \in Seq(AWindow) /\ Len(s) = n + m
        /\ \A k \in 1 .. n + m : s[k] = IF k <= n THEN kept[k] ELSE q[k - n]
    BY <2>1, <2>2, <1>4, <1>6, ConcatProperties
  <2> QED BY <2>1, <2>2, <2>3, <1>5
<1>8. ASSUME NEW k \in 1 .. n + m, ~ (k <= n)
      PROVE  InOrder(wk)[k] = wk.queue[k - n].window
  <2>1. k - n \in 1 .. m BY <1>8
  <2> QED BY <2>1, <1>3, <1>7, <1>8
<1> QED BY <1>2, <1>6, <1>7, <1>8

\* Those windows cover each date from today back to the cutoff's once.
LEMMA OrderCovers ==
  ASSUME IInv, Left(walk), walk.startAfter = None,
         NEW s \in Seq(AWindow), s = InOrder(walk)
  PROVE  /\ \A k \in 1 .. Len(s) :
              s[k].last = IF k = 1 THEN walk.today ELSE s[k - 1].first - 1
         /\ s # <<>> => s[Len(s)].first = Oldest(walk)
<1>1. /\ walk.kept \in Seq(AWindow) /\ walk.queue \in Seq(Parts) /\ Kept(walk)
      /\ Chain(walk.queue, Newest(walk), Oldest(walk))
      /\ walk.completed \in Int \cup {None} /\ None \notin Int
  BY WalkAssumption DEF IInv, WalkOK, Typed, Left
<1>2. PICK n \in Nat : n = Len(walk.kept) /\ (walk.kept = <<>> <=> n = 0)
  BY <1>1, LenProperties, EmptySeq
<1>3. PICK m \in Nat : m = Len(walk.queue) /\ (walk.queue = <<>> <=> m = 0)
  BY <1>1, PartsOf
<1>4. /\ Len(s) = n + m
      /\ \A k \in 1 .. n + m : s[k] = IF k <= n THEN walk.kept[k] ELSE walk.queue[k - n].window
  BY <1>1, <1>2, <1>3, InOrderIs
<1>5. /\ \A k \in 1 .. n : walk.kept[k].last = IF k = 1 THEN walk.today
                                               ELSE walk.kept[k - 1].first - 1
      /\ walk.completed = IF n = 0 THEN None ELSE walk.kept[n].first
  BY <1>1, <1>2 DEF Kept
<1>6. /\ \A k \in 1 .. m : walk.queue[k].window.last =
           IF k = 1 THEN Newest(walk) ELSE walk.queue[k - 1].window.first - 1
      /\ IF m = 0 THEN Newest(walk) = Oldest(walk) - 1
         ELSE walk.queue[m].window.first = Oldest(walk)
  BY <1>1, <1>3 DEF Chain
<1>7. /\ n = 0 => Newest(walk) = walk.today
      /\ n # 0 => Newest(walk) = walk.kept[n].first - 1 /\ walk.kept[n].first \in Int
  <2>1. CASE n = 0
    BY <2>1, <1>5 DEF Newest
  <2>2. CASE n # 0
    <3>1. walk.kept[n] \in AWindow BY <2>2, <1>1, <1>2, ElementOfSeq
    <3>2. walk.kept[n].first \in Int BY <3>1 DEF AWindow
    <3> QED BY <3>2, <2>2, <1>1, <1>5 DEF Newest
  <2> QED BY <2>1, <2>2
<1>8. ASSUME NEW k \in 1 .. n + m
      PROVE  s[k].last = IF k = 1 THEN walk.today ELSE s[k - 1].first - 1
  <2>1. CASE k <= n
    <3>1. k \in 1 .. n /\ (k # 1 => k - 1 \in 1 .. n + m /\ k - 1 <= n) BY <2>1
    <3> QED BY <3>1, <2>1, <1>4, <1>5
  <2>2. CASE k > n
    <3>1. PICK j \in 1 .. m : j = k - n
      BY <2>2
    <3>2. s[k] = walk.queue[j].window BY <3>1, <2>2, <1>4
    <3>3. CASE j = 1
      <4>1. s[k].last = Newest(walk) BY <3>2, <3>3, <1>6
      <4>2. CASE n = 0
        BY <4>1, <4>2, <3>1, <3>3, <1>7
      <4>3. CASE n # 0
        <5>1. k - 1 = n /\ n \in 1 .. n + m /\ k # 1 BY <4>3, <3>1, <3>3
        <5>2. s[k - 1] = walk.kept[n] BY <5>1, <1>4
        <5> QED BY <5>1, <5>2, <4>1, <4>3, <1>7
      <4> QED BY <4>2, <4>3
    <3>4. CASE j # 1
      <4>1. k - 1 \in 1 .. n + m /\ ~ (k - 1 <= n) /\ k - 1 - n = j - 1 /\ k # 1
        BY <3>1, <3>4, <2>2
      <4>2. s[k - 1] = walk.queue[j - 1].window BY <4>1, <1>4
      <4> QED BY <4>1, <4>2, <3>2, <3>4, <1>6
    <3> QED BY <3>3, <3>4
  <2> QED BY <2>1, <2>2
<1>9. ASSUME s # <<>>
      PROVE  s[n + m].first = Oldest(walk)
  <2>1. n + m # 0
    BY <1>9, <1>4, EmptySeq
  <2>2. CASE m = 0
    <3>1. s[n + m] = walk.kept[n] BY <2>1, <2>2, <1>4
    <3>2. Newest(walk) = walk.kept[n].first - 1 /\ walk.kept[n].first \in Int
      BY <2>1, <2>2, <1>7
    <3>3. Oldest(walk) \in Int
      <4>1. walk.since \in Int /\ walk.today \in Int
        BY WalkAssumption DEF IInv, WalkOK, Typed, Dates
      <4> QED BY <4>1, DayIs, Chosen DEF Oldest, OldestAsked
    <3> QED BY <3>1, <3>2, <3>3, <2>2, <1>6
  <2>3. CASE m # 0
    <3>1. n + m \in 1 .. n + m /\ ~ (n + m <= n) /\ (n + m) - n = m BY <2>3
    <3>2. s[n + m] = walk.queue[m].window BY <3>1, <1>4
    <3> QED BY <3>2, <2>3, <1>6
  <2> QED BY <2>2, <2>3
<1> QED BY <1>4, <1>8, <1>9

\* Each date is asked for once, newest first, however windows are split.
THEOREM DatesOnce == Spec => []EachDateOnce
<1>1. IInv => EachDateOnce
  <2> SUFFICES ASSUME IInv PROVE EachDateOnce
    OBVIOUS
  <2>1. walk.kept \in Seq(AWindow) /\ walk.queue \in Seq(Parts) /\ Kept(walk)
    BY DEF IInv, WalkOK, Typed
  <2>2. CASE ~ (walk.error = None /\ walk.startAfter = None)
    <3>1. DOMAIN walk.kept = 1 .. Len(walk.kept)
      BY <2>1, LenProperties
    <3>2. \A k \in DOMAIN walk.kept :
            walk.kept[k].last = IF k = 1 THEN walk.today ELSE walk.kept[k - 1].first - 1
      BY <2>1, <3>1 DEF Kept
    <3> QED BY <2>2, <3>2 DEF EachDateOnce
  <2>3. CASE walk.error = None /\ walk.startAfter = None
    <3>1. PICK s \in Seq(AWindow) : s = InOrder(walk) /\ DOMAIN s = 1 .. Len(s)
      BY <2>1, InOrderIs, LenProperties
    <3>2. CASE Left(walk)
      <4>1. /\ \A k \in 1 .. Len(s) :
                 s[k].last = IF k = 1 THEN walk.today ELSE s[k - 1].first - 1
            /\ s # <<>> => s[Len(s)].first = Oldest(walk)
        BY <2>3, <3>1, <3>2, OrderCovers
      <4> QED BY <2>3, <3>1, <4>1 DEF EachDateOnce, Last, Oldest
    <3>3. CASE walk.queue = <<>> /\ walk.kept = <<>>
      <4>1. Len(s) = 0
        <5>1. Len(s) = Len(walk.kept) + Len(walk.queue) BY <2>1, <3>1, InOrderIs
        <5> QED BY <5>1, <3>3
      <4>2. s = <<>> BY <3>1, <4>1, EmptySeq
      <4> QED BY <2>3, <3>1, <4>1, <4>2 DEF EachDateOnce
    <3> QED BY <2>3, <3>2, <3>3 DEF IInv, Queued, Empty
  <2> QED BY <2>2, <2>3
<1> QED BY <1>1, Invariance, PTL

-------------------------------------------------------------------------------
(***************************************************************************)
(* Where a history starts.  A date of a whole window counts u towards the  *)
(* empty windows in a row, one of the oldest window, if that is shorter,   *)
(* which the dates before b are, counts v: however the windows are split,  *)
(* a date's share is the same, so those that were empty can be counted.    *)
(***************************************************************************)
\* A window of the queue has its dates' shares.
EvenPart(part, b, u, v) ==
  \/ b <= part.window.first /\ part.share = u * Days(part.window)
  \/ part.window.last < b /\ part.share = v * Days(part.window)

AllEven(q, b, u, v) == \A k \in 1 .. Len(q) : EvenPart(q[k], b, u, v)

\* The windows of a walk: whole ones, and at most one shorter, the oldest.
Shares(wk, b, u, v) ==
  /\ b \in Int /\ u \in Nat /\ v \in Nat /\ u * WindowDays = WholeShare
  /\ Oldest(wk) <= b /\ b - Oldest(wk) < WindowDays
  /\ Oldest(wk) < b => v * (b - Oldest(wk)) = WholeShare

\* A streak counts no dates but those from to on that are older than from.
Counts(streak, from, to, b, u, v) ==
  /\ to <= from
  /\ \E s, r \in Nat :
       /\ streak = s + r
       /\ s <= u * (Larger(from, b) - Larger(to, b))
       /\ r <= v * (Smaller(from, b) - Smaller(to, b))

Evenly(wk, b, u, v) ==
  /\ Shares(wk, b, u, v) /\ AllEven(wk.queue, b, u, v)
  /\ wk.oldest # None => Counts(wk.streak, DayOf(wk.oldest), wk.completed, b, u, v)

\* Multiplication by a natural is monotonic, and distributes over a sum.
LEMMA Times ==
  ASSUME NEW u \in Nat, NEW x \in Int, NEW y \in Int
  PROVE  /\ u * x \in Int /\ u * y \in Int
         /\ u * (x + y) = u * x + u * y /\ u * (y - x) = u * y - u * x
         /\ x <= y => u * x <= u * y
         /\ u * x < u * y => x < y
<1>1. u * x \in Int /\ u * y \in Int
  OBVIOUS
<1>2. u * (x + y) = u * x + u * y /\ u * (y - x) = u * y - u * x
  OBVIOUS
<1>3. ASSUME x <= y
      PROVE  u * x <= u * y
  <2>1. y - x \in Nat
    BY <1>3
  <2>2. u * (y - x) >= 0
    BY <2>1
  <2> QED
    BY <1>1, <1>2, <2>2
<1>4. ASSUME y <= x
      PROVE  u * y <= u * x
  <2>1. x - y \in Nat
    BY <1>4
  <2>2. u * (x - y) >= 0 /\ u * (x - y) = u * x - u * y
    BY <2>1
  <2> QED
    BY <1>1, <2>2
<1> QED
  BY <1>1, <1>2, <1>3, <1>4

\* Division undoes multiplication.
LEMMA DivTimes ==
  ASSUME NEW x \in Nat, NEW n \in Nat, n > 0
  PROVE  (x * n) \div n = x
<1>1. PICK a \in Nat : a = x * n
  OBVIOUS
<1>2. PICK q \in Int : q = a \div n /\ q * n <= a /\ a < q * n + n
  BY <1>1, Quotient
<1>3. n * x = a /\ n * q = q * n /\ n * (q + 1) = q * n + n
  BY <1>1, <1>2
<1>4. n * q <= n * x /\ n * x < n * (q + 1)
  BY <1>2, <1>3
<1>5. ~ (x < q)
  <2>1. x < q => x + 1 <= q
    BY <1>2
  <2>2. x + 1 <= q => n * (x + 1) <= n * q
    BY <1>2, Times
  <2>3. n * (x + 1) = n * x + n
    OBVIOUS
  <2> QED
    BY <1>1, <1>2, <1>3, <1>4, <2>1, <2>2, <2>3
<1>6. x < q + 1
  BY <1>2, <1>4, Times
<1> QED
  BY <1>1, <1>2, <1>5, <1>6

\* A window of the queue, asked for by its dates, keeps their shares.
LEMMA SplitEven ==
  ASSUME NEW part \in Parts, Days(part.window) > 1,
         NEW b \in Int, NEW u \in Nat, NEW v \in Nat, EvenPart(part, b, u, v)
  PROVE  AllEven(ByDays(part), b, u, v)
<1>1. part.window.first \in Int /\ part.window.last \in Int
  BY DEF Parts, AWindow
<1>2. PICK last \in Int : last = part.window.last
  BY <1>1
<1>3. PICK n \in Nat : n = Days(part.window) /\ n > 1 /\ part.window.first = last - n + 1
  BY <1>1, <1>2 DEF Days
<1>4. PICK x \in {u, v} : /\ part.share = x * n
                          /\ \/ b <= last - n + 1 /\ x = u
                             \/ last < b /\ x = v
  BY <1>2, <1>3 DEF EvenPart
<1>5. part.share \div n = x /\ x * 1 = x
  BY <1>3, <1>4, DivTimes
<1>6. PICK d : d = ByDays(part)
  OBVIOUS
<1>7. d = [k \in 1 .. n |-> [window |-> [first |-> last - k + 1, last |-> last - k + 1],
                             share |-> x]]
  BY <1>2, <1>3, <1>5, <1>6 DEF ByDays, Part, Window
<1>8. Len(d) = n
  <2>1. \A k \in 1 .. n : [window |-> [first |-> last - k + 1, last |-> last - k + 1],
                           share |-> x] \in Parts
    BY <1>4 DEF Parts, AWindow
  <2>2. d \in [1 .. n -> Parts]
    BY <1>7, <2>1
  <2> QED
    BY <2>2
<1>9. ASSUME NEW k \in 1 .. n
      PROVE  EvenPart(d[k], b, u, v)
  <2>1. /\ d[k].window.first = last - k + 1 /\ d[k].window.last = last - k + 1
        /\ d[k].share = x
    BY <1>7
  <2>2. Days(d[k].window) = 1
    BY <2>1 DEF Days
  <2> QED
    BY <1>4, <1>5, <2>1, <2>2 DEF EvenPart
<1> QED
  BY <1>6, <1>8, <1>9 DEF AllEven

\* So do the windows after it.
LEMMA JoinEven ==
  ASSUME NEW q \in Seq(Parts), NEW t \in Seq(Parts), NEW b, NEW u, NEW v,
         AllEven(q, b, u, v), AllEven(t, b, u, v)
  PROVE  AllEven(q \o t, b, u, v)
<1>1. PICK n \in Nat, m \in Nat : n = Len(q) /\ m = Len(t)
  BY PartsOf
<1>2. PICK s : s = q \o t
  OBVIOUS
<1>3. Len(s) = n + m /\ \A k \in 1 .. n + m : s[k] = IF k <= n THEN q[k] ELSE t[k - n]
  BY <1>1, <1>2, ConcatProperties
<1>4. ASSUME NEW k \in 1 .. n + m
      PROVE  EvenPart(s[k], b, u, v)
  <2>1. CASE k <= n
    <3>1. k \in 1 .. n /\ s[k] = q[k]
      BY <1>3, <2>1
    <3> QED
      BY <1>1, <3>1 DEF AllEven
  <2>2. CASE ~ (k <= n)
    <3>1. k - n \in 1 .. m /\ s[k] = t[k - n]
      BY <1>3, <2>2
    <3> QED
      BY <1>1, <3>1 DEF AllEven
  <2> QED
    BY <2>1, <2>2
<1> QED
  BY <1>2, <1>3, <1>4 DEF AllEven

\* The first window of a queue, and the others.
LEMMA TailEven ==
  ASSUME NEW q \in Seq(Parts), q # <<>>, NEW b, NEW u, NEW v, AllEven(q, b, u, v)
  PROVE  /\ Head(q) \in Parts /\ Tail(q) \in Seq(Parts)
         /\ EvenPart(Head(q), b, u, v) /\ AllEven(Tail(q), b, u, v)
<1>1. /\ Len(q) \in Nat /\ Len(q) >= 1 /\ Head(q) = q[1] /\ Head(q) \in Parts
      /\ Tail(q) \in Seq(Parts) /\ Len(Tail(q)) = Len(q) - 1
      /\ \A k \in 1 .. Len(Tail(q)) : Tail(q)[k] = q[k + 1]
  BY PartsOf, HeadTailProperties
<1>2. 1 \in 1 .. Len(q) /\ \A k \in 1 .. Len(Tail(q)) : k + 1 \in 1 .. Len(q)
  BY <1>1
<1> QED
  BY <1>1, <1>2 DEF AllEven

\* A window split by its dates, and the windows after it, keep their shares.
LEMMA SplitsEven ==
  ASSUME NEW q \in Seq(Parts), q # <<>>, Days(Head(q).window) > 1,
         Days(Head(q).window) <= WindowDays, Head(q).share = WholeShare,
         NEW b \in Int, NEW u \in Nat, NEW v \in Nat, AllEven(q, b, u, v)
  PROVE  AllEven(ByDays(Head(q)) \o Tail(q), b, u, v)
<1>1. /\ Head(q) \in Parts /\ Tail(q) \in Seq(Parts)
      /\ EvenPart(Head(q), b, u, v) /\ AllEven(Tail(q), b, u, v)
  BY TailEven
<1>2. AllEven(ByDays(Head(q)), b, u, v)
  BY <1>1, SplitEven
<1>3. ByDays(Head(q)) \in Seq(Parts)
  BY <1>1, ChainDays DEF Chain
<1> QED
  BY <1>1, <1>2, <1>3, JoinEven

\* A streak that has just begun.
LEMMA CountNone ==
  ASSUME NEW from \in Int, NEW to \in Int, to <= from,
         NEW b \in Int, NEW u \in Nat, NEW v \in Nat
  PROVE  Counts(0, from, to, b, u, v)
<1>1. /\ Larger(from, b) \in Int /\ Larger(to, b) \in Int /\ Larger(to, b) <= Larger(from, b)
      /\ Smaller(from, b) \in Int /\ Smaller(to, b) \in Int
      /\ Smaller(to, b) <= Smaller(from, b)
  BY DEF Larger, Smaller
<1>2. PICK x \in Nat : x = Larger(from, b) - Larger(to, b)
  BY <1>1
<1>3. PICK y \in Nat : y = Smaller(from, b) - Smaller(to, b)
  BY <1>1
<1>4. 0 <= u * x /\ 0 <= v * y
  OBVIOUS
<1>5. 0 \in Nat /\ 0 = 0 + 0
  OBVIOUS
<1> QED BY <1>2, <1>3, <1>4, <1>5 DEF Counts

\* A streak with one window more, empty or not counted.
LEMMA CountMore ==
  ASSUME NEW from \in Int, NEW to \in Int, NEW b \in Int, NEW u \in Nat, NEW v \in Nat,
         NEW streak \in Nat, Counts(streak, from, to, b, u, v),
         NEW part \in Parts, EvenPart(part, b, u, v),
         part.window.first <= part.window.last, part.window.last = to - 1
  PROVE  /\ Counts(streak, from, part.window.first, b, u, v)
         /\ Counts(streak + part.share, from, part.window.first, b, u, v)
<1>1. PICK first \in Int : first = part.window.first /\ first < to
  BY DEF Parts, AWindow
<1>2. PICK share \in Nat : share = part.share
  BY DEF Parts
<1>3. PICK s \in Nat, r \in Nat :
        /\ to <= from /\ streak = s + r
        /\ s <= u * (Larger(from, b) - Larger(to, b))
        /\ r <= v * (Smaller(from, b) - Smaller(to, b))
  BY DEF Counts
<1>4. PICK x \in Int : x = Larger(from, b) - Larger(to, b)
  <2>1. Larger(from, b) \in Int /\ Larger(to, b) \in Int
    BY Chosen
  <2> QED BY <2>1
<1>5. PICK y \in Int : y = Smaller(from, b) - Smaller(to, b)
  <2>1. Smaller(from, b) \in Int /\ Smaller(to, b) \in Int
    BY Chosen
  <2> QED BY <2>1
<1>6. Days(part.window) = to - first /\ to - first \in Nat
  BY <1>1 DEF Days
<1>7. u * x \in Int /\ v * y \in Int /\ s <= u * x /\ r <= v * y
  BY <1>3, <1>4, <1>5, Times
<1>8. CASE b <= first /\ share = u * (to - first)
  <2>1. /\ Larger(from, b) - Larger(first, b) = x + (to - first)
        /\ Smaller(from, b) - Smaller(first, b) = y
    <3>1. b <= first /\ first < to /\ to <= from
      BY <1>1, <1>3, <1>8
    <3>2. /\ Larger(from, b) = from /\ Larger(to, b) = to /\ Larger(first, b) = first
          /\ Smaller(from, b) = b /\ Smaller(to, b) = b /\ Smaller(first, b) = b
      BY <3>1 DEF Larger, Smaller
    <3> QED BY <3>2, <1>4, <1>5
  <2>2. u * (x + (to - first)) = u * x + u * (to - first)
    BY <1>1, Times
  <2>3. s + share <= u * (x + (to - first)) /\ s <= u * (x + (to - first))
    BY <1>7, <1>8, <2>2
  <2>4. s + share \in Nat /\ streak + share = (s + share) + r
    BY <1>3
  <2> QED BY <1>1, <1>2, <1>3, <1>7, <2>1, <2>3, <2>4 DEF Counts
<1>9. CASE to - 1 < b /\ share = v * (to - first)
  <2>1. /\ Larger(from, b) - Larger(first, b) = x
        /\ Smaller(from, b) - Smaller(first, b) = y + (to - first)
    <3>1. to <= b /\ first < to
      BY <1>1, <1>9
    <3>2. /\ Larger(to, b) = b /\ Larger(first, b) = b
          /\ Smaller(to, b) = to /\ Smaller(first, b) = first
      BY <3>1 DEF Larger, Smaller
    <3>3. Larger(from, b) \in Int /\ Smaller(from, b) \in Int
      BY Chosen
    <3> QED BY <3>2, <3>3, <1>4, <1>5
  <2>2. v * (y + (to - first)) = v * y + v * (to - first)
    BY <1>1, Times
  <2>3. r + share <= v * (y + (to - first)) /\ r <= v * (y + (to - first))
    BY <1>7, <1>9, <2>2
  <2>4. r + share \in Nat /\ streak + share = s + (r + share)
    BY <1>3
  <2> QED BY <1>1, <1>2, <1>3, <1>7, <2>1, <2>3, <2>4 DEF Counts
<1> QED BY <1>1, <1>2, <1>6, <1>8, <1>9 DEF EvenPart

\* Two windows' shares are of more dates than a window has: only one of them
\* can be of the shorter window.
LEMMA CountShows ==
  ASSUME EmptyWindows >= 2, NEW wk, Oldest(wk) \in Int,
         NEW b, NEW u, NEW v, Shares(wk, b, u, v),
         NEW from \in Int, NEW to \in Int, NEW streak \in Nat,
         Counts(streak, from, to, b, u, v), Oldest(wk) <= to,
         streak >= EmptyWindows * WholeShare
  PROVE  from - to > WindowDays
<1>1. /\ b \in Int /\ u \in Nat /\ v \in Nat /\ EmptyWindows \in Nat
      /\ WholeShare \in Nat /\ WholeShare > 0 /\ WindowDays \in Nat /\ WindowDays > 0
      /\ u * WindowDays = WholeShare
  BY WalkAssumption, WindowsAssumption DEF Shares
<1>2. PICK o \in Int : o = Oldest(wk) /\ o <= b /\ o <= to
                       /\ (o < b => v * (b - o) = WholeShare)
  BY DEF Shares
<1>3. streak >= 2 * WholeShare
  <2>1. WholeShare * 2 <= WholeShare * EmptyWindows
    BY <1>1, Times
  <2>2. WholeShare * EmptyWindows = EmptyWindows * WholeShare
    BY <1>1
  <2>3. EmptyWindows * WholeShare \in Int
    BY <1>1
  <2> QED BY <2>1, <2>2, <2>3, <1>1
<1>4. PICK s \in Nat, r \in Nat :
        /\ to <= from /\ streak = s + r
        /\ s <= u * (Larger(from, b) - Larger(to, b))
        /\ r <= v * (Smaller(from, b) - Smaller(to, b))
  BY DEF Counts
<1>5. PICK x \in Int : x = Larger(from, b) - Larger(to, b)
  <2>1. Larger(from, b) \in Int /\ Larger(to, b) \in Int
    BY <1>1, Chosen
  <2> QED BY <2>1
<1>6. PICK y \in Int : y = Smaller(from, b) - Smaller(to, b)
  <2>1. Smaller(from, b) \in Int /\ Smaller(to, b) \in Int
    BY <1>1, Chosen
  <2> QED BY <2>1
<1>7. u * x \in Int /\ v * y \in Int /\ s <= u * x /\ r <= v * y
  BY <1>1, <1>4, <1>5, <1>6, Times
<1>8. CASE b <= to
  <2>1. y = 0 /\ x = from - to
    BY <1>1, <1>4, <1>5, <1>6, <1>8 DEF Larger, Smaller
  <2>2. v * y = 0
    BY <1>1, <2>1
  <2>3. u * WindowDays < u * x
    BY <1>1, <1>3, <1>4, <1>7, <2>2
  <2>4. WindowDays < x
    BY <1>1, <2>3, Times
  <2> QED BY <2>1, <2>4
<1>9. CASE to < b
  <2>1. y <= b - o /\ x = Larger(from, b) - b
    BY <1>1, <1>2, <1>4, <1>5, <1>6, <1>9 DEF Larger, Smaller
  <2>2. v * y <= v * (b - o) /\ v * (b - o) = WholeShare
    BY <1>1, <1>2, <1>9, <2>1, Times
  <2>3. s >= WholeShare
    BY <1>1, <1>3, <1>4, <1>7, <2>2
  <2>4. ~ (x < WindowDays)
    <3>1. x < WindowDays => u * x <= u * (WindowDays - 1)
      BY <1>1, Times
    <3>2. u * (WindowDays - 1) = u * WindowDays - u * 1 /\ u * 1 = u
      BY <1>1, Times
    <3>3. u > 0
      <4>1. u = 0 => u * WindowDays = 0
        BY <1>1
      <4> QED BY <4>1, <1>1
    <3> QED BY <3>1, <3>2, <3>3, <2>3, <1>1, <1>7
  <2>5. from - b >= WindowDays
    BY <1>1, <2>1, <2>4 DEF Larger
  <2> QED BY <1>1, <1>9, <2>5
<1> QED BY <1>1, <1>8, <1>9

\* The next window to ask for, the rest, and its dates, are even.
LEMMA PlannedEven ==
  ASSUME IInv, Asks, NEW b \in Int, NEW u \in Nat, NEW v \in Nat,
         AllEven(walk.queue, b, u, v)
  PROVE  /\ EvenPart(NextPart, b, u, v) /\ AllEven(Sent.queue, b, u, v)
         /\ Days(Asked) > 1 => AllEven(ByDays(NextPart) \o Sent.queue, b, u, v)
<1>1. /\ Newest(walk) \in Int /\ Oldest(walk) \in Int
      /\ Chain(walk.queue, Newest(walk), Oldest(walk)) /\ walk.queue # <<>>
  BY Asking DEF Left
<1>2. ASSUME NEW q, Chain(q, Newest(walk), Oldest(walk)), q # <<>>,
             Days(Head(q).window) > 1, AllEven(q, b, u, v)
      PROVE  AllEven(ByDays(Head(q)) \o Tail(q), b, u, v)
  <2>1. q \in Seq(Parts) /\ Head(q) \in Parts /\ APart(Head(q), Newest(walk), Oldest(walk))
    BY <1>1, <1>2, ChainTail
  <2>2. PICK first \in Int, last \in Int :
          first = Head(q).window.first /\ last = Head(q).window.last
    BY <2>1 DEF Parts, AWindow
  <2>3. Days(Head(q).window) <= WindowDays /\ Head(q).share = WholeShare
    BY <1>2, <2>1, <2>2, WindowsAssumption DEF APart, Days
  <2> QED BY <1>2, <2>1, <2>3, SplitsEven
<1>3. PICK p : p = Planned.queue
  OBVIOUS
<1>4. AllEven(p, b, u, v)
  <2>1. PICK probe, probed :
          \/ Planned = walk
          \/ /\ Planned = [Split([walk EXCEPT !.queue = Tail(@)], Head(walk.queue), probe)
                             EXCEPT !.probed = probed]
             /\ Days(Head(walk.queue).window) > 1
    BY DEF Planned
  <2>2. CASE Planned = walk
    BY <2>2, <1>3
  <2>3. CASE /\ Planned = [Split([walk EXCEPT !.queue = Tail(@)], Head(walk.queue), probe)
                             EXCEPT !.probed = probed]
             /\ Days(Head(walk.queue).window) > 1
    <3>1. Fields \subseteq DOMAIN walk
      BY DEF IInv, WalkOK, Typed
    <3>2. p = ByDays(Head(walk.queue)) \o Tail(walk.queue)
      BY <3>1, <2>3, <1>3 DEF Split, Fields
    <3> QED BY <3>2, <2>3, <1>1, <1>2
  <2> QED BY <2>1, <2>2, <2>3
<1>5. Chain(p, Newest(walk), Oldest(walk)) /\ p # <<>>
  BY <1>3, PlannedIs
<1>6. NextPart = Head(p) /\ Asked = Head(p).window /\ Sent.queue = Tail(p)
  <2>1. SameBut(Planned, walk, {"queue", "probe", "probed"})
    BY PlannedIs
  <2> QED BY <2>1, <1>3 DEF NextPart, Asked, Sent, SameBut, Fields
<1>7. p \in Seq(Parts)
  BY <1>5 DEF Chain
<1>8. EvenPart(Head(p), b, u, v) /\ AllEven(Tail(p), b, u, v)
  BY <1>4, <1>5, <1>7, TailEven
<1>9. Days(Head(p).window) > 1 => AllEven(ByDays(Head(p)) \o Tail(p), b, u, v)
  BY <1>2, <1>4, <1>5
<1> QED BY <1>6, <1>8, <1>9

\* The windows of a walk that starts are whole ones, but for the oldest.
LEMMA NewEven ==
  ASSUME stored \subseteq Hours, NEW mode \in Modes, NEW date \in Dates,
         NEW wk, wk = NewWalk(mode, date)
  PROVE  \E b, u, v : Evenly(wk, b, u, v)
<1>1. PICK since \in Int : since = Since(mode, date)
  BY SinceIs
<1>2. date \in Int
  BY DEF Dates
<1>3. PICK q : q = [k \in DOMAIN PlanWindows(since, date) |->
                      Part(PlanWindows(since, date)[k], WholeShare)]
  OBVIOUS
<1>4. wk.since = since /\ wk.today = date /\ wk.queue = q /\ wk.oldest = None
  BY <1>1, <1>3 DEF NewWalk
<1>5. PICK first : first = OldestAsked(since, date)
  OBVIOUS
<1>6. PICK ws : ws = PlanWindows(since, date)
  OBVIOUS
<1>7. PICK n \in Nat \ {0} :
        /\ first \in Int /\ first <= date
        /\ ws = [k \in 1 .. n |-> ws[k]]
        /\ \A k \in 1 .. n :
             /\ ws[k] \in AWindow /\ ws[k].first <= ws[k].last
             /\ first <= ws[k].first
             /\ ws[k].last - ws[k].first < WindowDays
             /\ ws[k].last = IF k = 1 THEN date ELSE ws[k - 1].first - 1
             /\ \A j \in 1 .. k - 1 : ws[k].last < ws[j].first
             /\ k # n => ws[k].last - ws[k].first = WindowDays - 1
        /\ ws[n].first = first
  BY <1>1, <1>2, <1>5, <1>6, PlanCovers
<1>8. DOMAIN ws = 1 .. n
  BY <1>7
<1>9. Len(q) = n /\ \A k \in 1 .. n : q[k].window = ws[k] /\ q[k].share = WholeShare
  <2>1. q = [k \in 1 .. n |-> [window |-> ws[k], share |-> WholeShare]]
    BY <1>3, <1>6, <1>8 DEF Part
  <2> QED BY <2>1, <1>7
<1>10. \A k \in 1 .. n : ws[k].first \in Int /\ ws[k].last \in Int
  BY <1>7 DEF AWindow
<1>11. WindowDays \in Nat /\ WindowDays > 0 /\ WholeShare \in Nat
  BY WindowsAssumption, WalkAssumption
<1>12. ASSUME NEW m \in 1 .. WindowDays
       PROVE  WholeShare \div m \in Nat /\ (WholeShare \div m) * m = WholeShare
  <2>1. WholeShare % m = 0
    BY WalkAssumption
  <2>2. m \in Nat /\ m > 0
    BY <1>11
  <2>3. WholeShare = m * (WholeShare \div m) + (WholeShare % m)
    BY <2>2, <1>11
  <2>4. PICK x \in Int : x = WholeShare \div m
    BY <2>2, <1>11
  <2>5. x >= 0
    BY <2>2, <2>4, <1>11, Quotient
  <2>6. m * x = x * m /\ m * x \in Int
    BY <2>2, <2>4
  <2> QED BY <2>1, <2>3, <2>4, <2>5, <2>6, <1>11
<1>13. PICK u \in Nat : u * WindowDays = WholeShare
  <2>1. WindowDays \in 1 .. WindowDays BY <1>11
  <2> QED BY <2>1, <1>12
<1>14. PICK last \in Int : last = ws[n].last /\ first <= last /\ last - first < WindowDays
  <2>1. n \in 1 .. n
    OBVIOUS
  <2>2. ws[n].last \in Int /\ ws[n].first = first /\ ws[n].first <= ws[n].last
        /\ ws[n].last - ws[n].first < WindowDays
    BY <2>1, <1>7, <1>10
  <2> QED BY <2>2
<1>15. ASSUME NEW k \in 1 .. n, k # n
       PROVE  last < ws[k].first /\ Days(ws[k]) = WindowDays
  <2>1. k \in 1 .. n - 1 /\ n \in 1 .. n BY <1>15
  <2>2. ws[n].last < ws[k].first
    BY <2>1, <1>7
  <2>3. ws[k].last - ws[k].first = WindowDays - 1 /\ ws[k].first \in Int /\ ws[k].last \in Int
    BY <1>7, <1>10, <1>15
  <2> QED BY <2>2, <2>3, <1>11, <1>14 DEF Days
<1>16. Oldest(wk) = first
  BY <1>4, <1>5 DEF Oldest
<1>17. CASE last - first = WindowDays - 1
  <2>1. \A k \in 1 .. n : first <= ws[k].first /\ Days(ws[k]) = WindowDays
    BY <1>7, <1>10, <1>11, <1>14, <1>15, <1>17 DEF Days
  <2>2. AllEven(q, first, u, 0)
    BY <2>1, <1>9, <1>13 DEF AllEven, EvenPart
  <2>3. Shares(wk, first, u, 0)
    BY <1>7, <1>11, <1>13, <1>16 DEF Shares
  <2> QED BY <2>2, <2>3, <1>4 DEF Evenly
<1>18. CASE last - first # WindowDays - 1
  <2>1. PICK b \in Int : b = last + 1 /\ b - first \in 1 .. WindowDays - 1
    <3>1. first \in Int /\ last + 1 \in Int
      BY <1>7
    <3>2. last + 1 - first \in 1 .. WindowDays - 1
      BY <3>1, <1>11, <1>14, <1>18
    <3> QED BY <3>1, <3>2
  <2>2. PICK v \in Nat : v * (b - first) = WholeShare
    <3>1. b - first \in 1 .. WindowDays BY <2>1, <1>11
    <3> QED BY <3>1, <1>12
  <2>3. ASSUME NEW k \in 1 .. n PROVE EvenPart(q[k], b, u, v)
    <3>1. CASE k = n
      <4>1. Days(ws[k]) = b - first BY <3>1, <2>1, <1>7, <1>14 DEF Days
      <4>2. ws[k].last < b BY <3>1, <2>1, <1>14
      <4>3. q[k].window = ws[k] /\ q[k].share = WholeShare BY <1>9
      <4> QED BY <4>1, <4>2, <4>3, <2>2 DEF EvenPart
    <3>2. CASE k # n
      <4>1. b <= ws[k].first BY <3>2, <2>1, <1>10, <1>15
      <4>2. q[k].window = ws[k] /\ q[k].share = WholeShare BY <1>9
      <4>3. Days(ws[k]) = WindowDays BY <3>2, <1>15
      <4> QED BY <4>1, <4>2, <4>3, <1>13 DEF EvenPart
    <3> QED BY <3>1, <3>2
  <2>4. Shares(wk, b, u, v)
    BY <2>1, <2>2, <1>7, <1>11, <1>13, <1>16 DEF Shares
  <2> QED BY <2>3, <2>4, <1>4, <1>9 DEF Evenly, AllEven
<1> QED BY <1>17, <1>18

\* A walk that keeps a window counts its dates.
LEMMA TakenEven ==
  ASSUME IInv, Asks, NEW page, page = Answer(Asked),
         NEW wk, wk = Taken(Sent, Asked, NextPart.share, page),
         NEW b, NEW u, NEW v, Evenly(walk, b, u, v)
  PROVE  Evenly(wk, b, u, v)
<1>1. /\ SameBut(wk, walk, TakenFields) /\ wk.completed = Asked.first
      /\ wk.queue = Sent.queue
      /\ Joins(wk, page) \/ IsEmpty(wk, page)
  BY TakenIs
<1>2. wk.today = walk.today /\ wk.since = walk.since
  BY <1>1 DEF SameBut, Fields, Aside, TakenFields
<1>3. /\ b \in Int /\ u \in Nat /\ v \in Nat /\ Shares(wk, b, u, v)
  BY <1>2 DEF Evenly, Shares, Oldest
<1>4. /\ EvenPart(NextPart, b, u, v) /\ AllEven(wk.queue, b, u, v)
  BY <1>1, <1>3, PlannedEven DEF Evenly
<1>5. /\ NextPart \in Parts /\ Asked.first \in Int /\ Asked.last \in Int
      /\ Asked.first <= Asked.last /\ Asked.last = Newest(walk)
      /\ walk.completed \in Int \cup {None} /\ None \notin Int
      /\ walk.oldest \in Hours \cup {None} /\ walk.streak \in Nat
      /\ walk.oldest # None => walk.completed # None
  BY SentIs, WalkAssumption DEF AWindow, IInv, WalkOK, Typed, Kept
<1>6. ASSUME walk.oldest # None
      PROVE  /\ DayOf(walk.oldest) \in Int /\ walk.oldest \in Int /\ walk.completed \in Int
             /\ Asked.last = walk.completed - 1
             /\ Counts(walk.streak, DayOf(walk.oldest), walk.completed, b, u, v)
             /\ walk.completed <= DayOf(walk.oldest)
  <2>1. walk.oldest \in Int
    <3>1. walk.oldest \in Hours BY <1>5, <1>6
    <3>2. Hours \subseteq Int BY HoursAre
    <3> QED BY <3>1, <3>2
  <2>2. DayOf(walk.oldest) \in Int BY <2>1, DayIs
  <2>3. Counts(walk.streak, DayOf(walk.oldest), walk.completed, b, u, v)
    BY <1>6 DEF Evenly
  <2>4. walk.completed # None /\ walk.completed \in Int
    BY <1>5, <1>6
  <2>5. Asked.last = walk.completed - 1
    BY <2>4, <1>5 DEF Newest
  <2> QED BY <2>1, <2>2, <2>3, <2>4, <2>5 DEF Counts
<1>7. CASE Joins(wk, page)
  <2>1. page.inside \subseteq Int /\ \A h \in page.inside : Asked.first <= DayOf(h)
    <3>1. page.inside \subseteq Hours /\ \A h \in page.inside : Asked.first <= DayOf(h)
      BY PageIs
    <3>2. Hours \subseteq Int BY HoursAre
    <3> QED BY <3>1, <3>2
  <2>2. Least(page.inside) \in page.inside
    BY <1>7, PageIs, OldestRow DEF Joins
  <2>3. wk.oldest \in {walk.oldest, Least(page.inside)} /\ wk.oldest \in Int
        /\ wk.oldest # None
    BY <1>5, <1>7, HoursAre DEF Joins, Smaller
  <2>4. Asked.first <= DayOf(wk.oldest) /\ DayOf(wk.oldest) \in Int
    <3>1. DayOf(wk.oldest) \in Int BY <2>3, DayIs
    <3>2. CASE wk.oldest = walk.oldest
      BY <3>1, <3>2, <2>3, <1>5, <1>6
    <3>3. CASE wk.oldest = Least(page.inside)
      BY <3>1, <3>3, <2>1, <2>2
    <3> QED BY <3>1, <3>2, <3>3, <2>3
  <2>5. Counts(0, DayOf(wk.oldest), wk.completed, b, u, v)
    BY <2>4, <1>1, <1>3, <1>5, CountNone
  <2> QED BY <2>5, <1>3, <1>4, <1>7 DEF Evenly, Joins
<1>8. CASE IsEmpty(wk, page)
  <2>1. wk.oldest = walk.oldest /\ wk.streak \in {walk.streak, walk.streak + NextPart.share}
    BY <1>8 DEF IsEmpty
  <2>2. ASSUME wk.oldest # None
        PROVE  Counts(wk.streak, DayOf(wk.oldest), wk.completed, b, u, v)
    <3>1. NextPart.window.first = wk.completed /\ NextPart.window.last = walk.completed - 1
          /\ NextPart.window.first <= NextPart.window.last
      BY <2>1, <2>2, <1>1, <1>5, <1>6 DEF Asked
    <3>2. /\ Counts(walk.streak, DayOf(walk.oldest), NextPart.window.first, b, u, v)
          /\ Counts(walk.streak + NextPart.share, DayOf(walk.oldest), NextPart.window.first,
                    b, u, v)
      BY <3>1, <2>1, <2>2, <1>3, <1>4, <1>5, <1>6, CountMore
    <3> QED BY <3>1, <3>2, <2>1
  <2> QED BY <2>2, <1>3, <1>4 DEF Evenly
<1> QED BY <1>1, <1>7, <1>8

\* What a start that no refusal showed was shown by.
ShownBy(wk) ==
  wk.start /\ wk.startAfter = None =>
    wk.oldest # None /\ DayOf(wk.oldest) - wk.completed > WindowDays

\* Two windows' shares of empty ones show it.
LEMMA TakenShown ==
  ASSUME EmptyWindows >= 2, IInv, Asks, NEW page, page = Answer(Asked),
         NEW wk, wk = Taken(Sent, Asked, NextPart.share, page),
         NEW b, NEW u, NEW v, Evenly(walk, b, u, v)
  PROVE  ShownBy(wk)
<1> SUFFICES ASSUME wk.start
             PROVE  wk.oldest # None /\ DayOf(wk.oldest) - wk.completed > WindowDays
  BY DEF ShownBy
<1>1. /\ SameBut(wk, walk, TakenFields) /\ wk.completed = Asked.first
      /\ Joins(wk, page) \/ IsEmpty(wk, page)
  BY TakenIs
<1>2. ~ walk.start /\ walk.oldest \in Hours \cup {None} /\ walk.streak \in Nat
  BY Asking DEF IInv, WalkOK, Ends, Typed
<1>3. /\ walk.oldest # None /\ wk.oldest = walk.oldest
      /\ wk.streak >= EmptyWindows * WholeShare /\ wk.streak = walk.streak + NextPart.share
  BY <1>1, <1>2 DEF Joins, IsEmpty
<1>4. /\ Evenly(wk, b, u, v) /\ wk.today = walk.today /\ wk.since = walk.since
  BY <1>1, TakenEven DEF SameBut, Fields, Aside, TakenFields
<1>5. /\ wk.oldest \in Int /\ DayOf(wk.oldest) \in Int
  <2>1. wk.oldest \in Hours BY <1>2, <1>3
  <2>2. Hours \subseteq Int BY HoursAre
  <2>3. wk.oldest \in Int BY <2>1, <2>2
  <2> QED BY <2>3, DayIs
<1>6. /\ Asked.first \in Int /\ Oldest(walk) <= Asked.first /\ NextPart.share \in Nat
      /\ Oldest(walk) \in Int
  BY SentIs, Asking DEF AWindow, APart, Asked, Parts
<1>7. wk.streak \in Nat /\ Oldest(wk) = Oldest(walk)
  BY <1>2, <1>3, <1>4, <1>6 DEF Oldest
<1>8. /\ Counts(wk.streak, DayOf(wk.oldest), wk.completed, b, u, v) /\ Shares(wk, b, u, v)
  BY <1>3, <1>4 DEF Evenly
<1> QED BY <1>1, <1>3, <1>5, <1>6, <1>7, <1>8, CountShows

\* The inductive invariant about starts.
SInv ==
  /\ EmptyWindows >= 2 => ShownBy(walk)
  /\ Asks => \E b, u, v : Evenly(walk, b, u, v)

\* A step that asks for a window keeps it.
LEMMA AskShown ==
  ASSUME IInv, SInv,
         BudgetEnds \/ RequestFails \/ TimesOut \/ OverLimits \/ TakeWindow \/ RefuseWindow
  PROVE  SInv'
<1>1. Asks /\ phase' = phase
  BY DEF BudgetEnds, RequestFails, TimesOut, OverLimits, TakeWindow, RefuseWindow, Answered
<1>2. PICK b, u, v : Evenly(walk, b, u, v)
  BY <1>1 DEF SInv
<1>3. /\ b \in Int /\ u \in Nat /\ v \in Nat
      /\ EvenPart(NextPart, b, u, v) /\ AllEven(Sent.queue, b, u, v)
      /\ Days(Asked) > 1 => AllEven(ByDays(NextPart) \o Sent.queue, b, u, v)
  <2>1. b \in Int /\ u \in Nat /\ v \in Nat /\ AllEven(walk.queue, b, u, v)
    BY <1>2 DEF Evenly, Shares
  <2> QED BY <2>1, <1>1, PlannedEven
<1>4. ~ walk.start
  BY <1>1, Asking DEF IInv, WalkOK, Ends
<1>5. ASSUME NEW wk, SameBut(wk, walk, Aside), walk' = wk,
             wk.error # None \/ AllEven(wk.queue, b, u, v)
      PROVE  SInv'
  <2>1. ~ wk.start /\ wk.today = walk.today /\ wk.since = walk.since
        /\ wk.oldest = walk.oldest /\ wk.streak = walk.streak /\ wk.completed = walk.completed
    BY <1>4, <1>5 DEF SameBut, Fields, Aside
  <2>2. ShownBy(walk)'
    BY <2>1, <1>5 DEF ShownBy
  <2>3. CASE wk.error # None
    BY <2>2, <2>3, <1>5 DEF SInv, Asks, Done
  <2>4. CASE AllEven(wk.queue, b, u, v)
    <3>1. Evenly(wk, b, u, v)
      BY <2>1, <2>4, <1>2 DEF Evenly, Shares, Oldest
    <3> QED BY <3>1, <2>2, <1>5 DEF SInv
  <2> QED BY <2>3, <2>4, <1>5
<1>6. /\ SameBut(Sent, walk, Aside) /\ Sent.error = None
  BY <1>1, SentAside, Asking DEF SameBut, Fields
<1>7. ASSUME NEW error \in Errors, walk' = [Sent EXCEPT !.error = error]
      PROVE  SInv'
  <2>1. PICK wk : wk = walk' OBVIOUS
  <2>2. SameBut(wk, walk, Aside) /\ wk.error # None
    BY <2>1, <1>6, <1>7, WalkAssumption DEF SameBut, Fields, Aside
  <2> QED BY <2>1, <2>2, <1>5
<1>8. CASE BudgetEnds \/ RequestFails
  <2>1. \E error \in {"budget", "failure"} : walk' = [Sent EXCEPT !.error = error]
    BY <1>8 DEF BudgetEnds, RequestFails, FailsWith, Sent
  <2> QED BY <2>1, <1>7 DEF Errors
<1>9. CASE TimesOut
  <2>1. CASE ~ setup
    <3>1. walk' = [Sent EXCEPT !.error = "timeout"] /\ "timeout" \in Errors
      BY <2>1, <1>9 DEF TimesOut, Errors
    <3> QED BY <3>1, <1>7
  <2>2. CASE setup
    <3>1. PICK laddered, daysOnly :
            walk' = [Split(Sent, NextPart, TRUE) EXCEPT !.laddered = laddered,
                                                        !.daysOnly = daysOnly]
      BY <2>2, <1>9 DEF TimesOut
    <3>2. PICK wk : wk = walk' OBVIOUS
    <3>3. SameBut(wk, walk, Aside) /\ wk.queue = ByDays(NextPart) \o Sent.queue
      BY <3>1, <3>2, <1>6 DEF Split, SameBut, Fields, Aside
    <3>4. Days(Asked) > 1 BY <1>9 DEF TimesOut
    <3> QED BY <3>2, <3>3, <3>4, <1>3, <1>5
  <2> QED BY <2>1, <2>2
<1>10. CASE OverLimits
  <2>1. Days(Asked) > 1
    <3>1. meridian.allows \in 1 .. WindowDays /\ WindowDays \in Nat
      BY WindowsAssumption DEF IInv, StateOK, MeridianRecord
    <3>2. Days(Asked) \in Int
      BY <1>1, SentIs DEF Days, AWindow
    <3> QED BY <3>1, <3>2, <1>10 DEF OverLimits
  <2>2. PICK wk : wk = walk' OBVIOUS
  <2>3. SameBut(wk, walk, Aside) /\ wk.queue = ByDays(NextPart) \o Sent.queue
    BY <2>2, <1>6, <1>10 DEF OverLimits, Split, SameBut, Fields, Aside
  <2> QED BY <2>1, <2>2, <2>3, <1>3, <1>5
<1>11. CASE TakeWindow
  <2>1. PICK page : /\ page = Answer(Asked)
                    /\ \/ walk' = [Sent EXCEPT !.error = "misread"]
                       \/ walk' = [Checked(Sent, Asked, page) EXCEPT !.error = "misread"]
                       \/ walk' = Taken(Sent, Asked, NextPart.share, page)
    BY <1>11 DEF TakeWindow, FailsWith
  <2>2. "misread" \in Errors
    BY DEF Errors
  <2>3. CASE walk' = [Sent EXCEPT !.error = "misread"]
    BY <2>2, <2>3, <1>7
  <2>4. CASE walk' = [Checked(Sent, Asked, page) EXCEPT !.error = "misread"]
    <3>1. PICK wk : wk = walk' OBVIOUS
    <3>2. SameBut(Checked(Sent, Asked, page), walk, Aside)
      BY <2>1, <1>1, CheckedIs
    <3>3. SameBut(wk, walk, Aside) /\ wk.error # None
      BY <3>1, <3>2, <2>2, <2>4, WalkAssumption DEF SameBut, Fields, Aside
    <3> QED BY <3>1, <3>3, <1>5
  <2>5. CASE walk' = Taken(Sent, Asked, NextPart.share, page)
    <3>1. PICK wk : wk = walk' /\ wk = Taken(Sent, Asked, NextPart.share, page)
      BY <2>5
    <3>2. (EmptyWindows >= 2 => ShownBy(wk)) /\ Evenly(wk, b, u, v)
      BY <3>1, <2>1, <1>1, <1>2, TakenShown, TakenEven
    <3> QED BY <3>1, <3>2 DEF SInv
  <2> QED BY <2>1, <2>3, <2>4, <2>5
<1>12. CASE RefuseWindow
  <2>1. CASE ~ Starts(Asked)
    <3>1. walk' = [Sent EXCEPT !.error = "refused"] /\ "refused" \in Errors
      BY <2>1, <1>12 DEF RefuseWindow, FailsWith, Errors
    <3> QED BY <3>1, <1>7
  <2>2. CASE Starts(Asked)
    <3>1. PICK wk : wk = walk' /\ wk = TakenStart(Sent, Asked, Answer(Asked))
                    /\ Refuses(Asked)
      BY <2>2, <1>12 DEF RefuseWindow
    <3>2. WalkOK(wk) /\ wk.startAfter # None
      BY <3>1, <2>2, <1>1, StartKeeps
    <3>3. wk.ended /\ ShownBy(wk)
      BY <3>2 DEF WalkOK, Kept, ShownBy
    <3> QED BY <3>1, <3>3 DEF SInv, Asks, Done
  <2> QED BY <2>1, <2>2
<1> QED BY <1>8, <1>9, <1>10, <1>11, <1>12

\* Every step keeps it.
LEMMA NextShown ==
  ASSUME IInv, SInv, [Next]_vars
  PROVE  SInv'
<1>1. CASE Begin
  <2>1. PICK mode \in Modes : walk' = NewWalk(mode, today)
    <3>1. "initial" \in Modes BY WalkAssumption
    <3> QED BY <3>1, <1>1 DEF Begin
  <2>2. PICK wk : wk = walk' OBVIOUS
  <2>3. stored \subseteq Hours /\ today \in Dates
    BY DEF IInv, StateOK
  <2>4. PICK b, u, v : Evenly(wk, b, u, v)
    BY <2>1, <2>2, <2>3, NewEven
  <2>5. ~ wk.start
    BY <2>1, <2>2 DEF NewWalk
  <2> QED BY <2>2, <2>4, <2>5 DEF SInv, ShownBy
<1>2. CASE BudgetEnds \/ RequestFails \/ TimesOut \/ OverLimits \/ TakeWindow \/ RefuseWindow
  BY <1>2, AskShown
<1>3. CASE Finish
  <2>1. walk' = walk /\ phase' = "ended"
    BY <1>3 DEF Finish
  <2> QED BY <2>1 DEF SInv, ShownBy, Asks
<1>4. CASE Restart
  <2>1. walk' = Forgotten /\ phase' = "idle"
    BY <1>4 DEF Restart
  <2>2. ~ Forgotten.start
    BY DEF Forgotten, NewWalk
  <2> QED BY <2>1, <2>2 DEF SInv, ShownBy, Asks
<1>5. CASE Publish
  <2>1. walk' = walk /\ phase' = "idle"
    BY <1>5 DEF Publish
  <2> QED BY <2>1 DEF SInv, ShownBy, Asks
<1>6. CASE SetUp \/ DatePasses \/ UNCHANGED vars
  <2>1. walk' = walk /\ phase' = phase
    BY <1>6 DEF SetUp, DatePasses, vars
  <2>2. Asks' = Asks
    BY <2>1 DEF Asks, Done
  <2> QED BY <2>1, <2>2 DEF SInv, ShownBy
<1> QED BY <1>1, <1>2, <1>3, <1>4, <1>5, <1>6 DEF Next

\* A history starts where a refusal shows it, or after more than a window's
\* dates in a row with no reading, when two windows' shares or more are asked
\* of empty ones; never with an hour stored before it.
THEOREM StartShown ==
  ASSUME EmptyWindows >= 2
  PROVE  Spec => []StartIsShown
<1>1. Init => SInv
  <2> SUFFICES ASSUME Init PROVE SInv
    OBVIOUS
  <2>1. walk = Forgotten /\ phase = "idle" BY DEF Init
  <2>2. ~ Forgotten.start
    BY DEF Forgotten, NewWalk
  <2> QED BY <2>1, <2>2 DEF SInv, ShownBy, Asks
<1>2. IInv /\ SInv /\ [Next]_vars => SInv'
  BY NextShown
<1>3. IInv /\ SInv => StartIsShown
  BY DEF IInv, WalkOK, Bounded, SInv, ShownBy, StartIsShown
<1> QED BY <1>1, <1>2, <1>3, Invariance, PTL DEF Spec

-------------------------------------------------------------------------------
(***************************************************************************)
(* The size ladder.  A long walk that a window's size ended leaves a probe *)
(* of its newest day; one that did after that probe, or instead of it,     *)
(* leaves its newest windows to be asked for by their days, and no window  *)
(* of several dates is then long enough to end a third walk on that date.  *)
(***************************************************************************)
DaysIn(mem, date) == Recent(mem.daysOn, mem.daysAt, date)
LadderIn(mem, date) == Recent(mem.ladderedOn, mem.ladderedAt, date)

\* The newest window of a walk on that date is asked for by its days.
HeldDays(mem, date) ==
  DaysIn(mem, date) # None /\ DaysIn(mem, date) > date - WindowDays

\* A walk that starts on that date probes its newest day.
OwesProbe(mem, date) == mem.probeOn = date /\ mem.probeDays <= WindowDays

OnLadder(mem, date) ==
  OwesProbe(mem, date) \/ LadderIn(mem, date) # None \/ HeldDays(mem, date)

\* A walk has its newest window to ask for; or asks for days alone, or for days
\* where its windows are the newest; or its probe came back.
Climbing(wk, mem, date) ==
  /\ ~ wk.probe
  /\ \/ wk.completed = None /\ ~ wk.probed /\ Head(wk.queue).share = WholeShare
     \/ wk.daysOnly
     \/ HeldDays(mem, date)
     \/ \A k \in 1 .. Len(wk.queue) : Days(wk.queue[k].window) = 1
     \/ wk.probed /\ LadderIn(mem, date) = date

\* The inductive invariant about the ladder.
CInv ==
  /\ missed \in 0 .. 2 /\ (setup => missed = 0)
  /\ phase = "walking" => walk.today <= today /\ (missed > 0 => walk.today = today)
  /\ missed = 1 => OnLadder(memory, today)
  /\ missed = 2 => HeldDays(memory, today)
  /\ Asks /\ ~ setup /\ walk.today = today /\ meridian.answers < WindowDays =>
       Climbing(walk, memory, today)

\* A window with a whole share has a window's dates, or is the oldest.
LEMMA WholePart ==
  ASSUME NEW wk, NEW b, NEW u, NEW v, Shares(wk, b, u, v), Oldest(wk) \in Int,
         NEW part \in Parts, EvenPart(part, b, u, v), part.share = WholeShare,
         Oldest(wk) <= part.window.first, part.window.first <= part.window.last
  PROVE  Days(part.window) = WindowDays \/ part.window.first = Oldest(wk)
<1>1. b \in Int /\ u \in Nat /\ v \in Nat
  BY DEF Shares
<1>2. /\ WholeShare \in Nat /\ WholeShare > 0 /\ WindowDays \in Nat
      /\ u * WindowDays = WholeShare
  BY WalkAssumption, WindowsAssumption DEF Shares
<1>3. PICK first \in Int, last \in Int : first = part.window.first /\ last = part.window.last
  BY DEF Parts, AWindow
<1>4. ASSUME NEW x \in Nat, NEW n \in Int, NEW m \in Int, x * n = WholeShare,
             x * m = WholeShare
      PROVE  n = m
  <2>1. x > 0
    <3>1. x = 0 => x * n = 0 OBVIOUS
    <3> QED BY <3>1, <1>2, <1>4
  <2>2. ASSUME NEW i \in Int, NEW j \in Int, i < j PROVE x * i < x * j
    <3>1. x * i <= x * (j - 1) BY <2>2, Times
    <3>2. x * (j - 1) = x * j - x * 1 /\ x * 1 = x BY Times
    <3>3. x * i \in Int /\ x * j \in Int OBVIOUS
    <3> QED BY <3>1, <3>2, <3>3, <2>1
  <2>3. ~ (n < m) /\ ~ (m < n)
    BY <2>2, <1>2, <1>4
  <2> QED BY <2>3
<1>5. PICK n \in Int : n = Days(part.window) /\ n = last - first + 1
  BY <1>3 DEF Days
<1>6. CASE b <= first /\ part.share = u * n
  BY <1>1, <1>2, <1>4, <1>5, <1>6
<1>7. CASE last < b /\ part.share = v * n
  <2>1. Oldest(wk) < b
    BY <1>1, <1>3, <1>7
  <2>2. PICK c \in Int : c = b - Oldest(wk)
    BY <1>1
  <2>3. v * c = WholeShare /\ v * n = WholeShare
    BY <2>1, <2>2, <1>7 DEF Shares
  <2>4. n = c
    BY <2>3, <1>1, <1>4
  <2>5. last - first + 1 = b - Oldest(wk) /\ last < b /\ Oldest(wk) <= first
    BY <2>2, <2>4, <1>3, <1>5, <1>7
  <2> QED BY <2>5, <1>1, <1>3
<1> QED BY <1>3, <1>5, <1>6, <1>7 DEF EvenPart

\* The next window of the queue, and the next to ask for.
LEMMA WholeHead ==
  ASSUME IInv, Asks, SInv, NEW part, part \in {Head(walk.queue), NextPart},
         part.share = WholeShare
  PROVE  Days(part.window) = WindowDays \/ part.window.first = Oldest(walk)
<1>1. PICK b, u, v : Evenly(walk, b, u, v)
  BY DEF SInv
<1>2. /\ Newest(walk) \in Int /\ Oldest(walk) \in Int /\ walk.queue # <<>>
      /\ Chain(walk.queue, Newest(walk), Oldest(walk)) /\ walk.queue \in Seq(Parts)
  BY Asking DEF Left, Chain
<1>3. /\ b \in Int /\ u \in Nat /\ v \in Nat /\ AllEven(walk.queue, b, u, v)
      /\ Shares(walk, b, u, v)
  BY <1>1 DEF Evenly, Shares
<1>4. EvenPart(Head(walk.queue), b, u, v) /\ EvenPart(NextPart, b, u, v)
  BY <1>2, <1>3, TailEven, PlannedEven
<1>5. /\ Head(walk.queue) \in Parts /\ APart(Head(walk.queue), Newest(walk), Oldest(walk))
      /\ NextPart \in Parts /\ APart(NextPart, Newest(walk), Oldest(walk))
  BY <1>2, ChainTail, SentIs
<1>6. /\ part \in Parts /\ EvenPart(part, b, u, v)
      /\ Oldest(walk) <= part.window.first /\ part.window.first <= part.window.last
  BY <1>4, <1>5 DEF APart
<1> QED BY <1>2, <1>3, <1>6, WholePart

\* The next window as it is, or the newest of its dates.
LEMMA PlannedCases ==
  ASSUME IInv, Asks, NEW part, part = Head(walk.queue), NEW w, w = part.window
  PROVE  /\ ~ Sent.probe /\ Sent.daysOnly = walk.daysOnly
         /\ (Sent.probed <=> Planned.probed) /\ Asked.last = Newest(walk)
         /\ \/ /\ NextPart = part /\ Sent.queue = Tail(walk.queue)
               /\ IsProbe <=> walk.probe
               /\ Planned.probed <=> walk.probed
               /\ Days(w) > 1 =>
                    /\ ~ Due(w) /\ ~ walk.daysOnly
                    /\ ~ (DaysKept(walk.today) # None /\ w.first <= DaysKept(walk.today))
            \/ /\ Days(w) > 1 /\ Days(Asked) = 1
               /\ Sent.queue = Tail(ByDays(part) \o Tail(walk.queue))
               /\ IsProbe <=> walk.probe \/ Due(w)
               /\ Planned.probed <=> walk.probed \/ Due(w)
               /\ \/ Due(w) \/ walk.daysOnly
                  \/ DaysKept(walk.today) # None /\ w.first <= DaysKept(walk.today)
<1>1. /\ Fields \subseteq DOMAIN walk /\ walk.queue # <<>>
      /\ walk.queue \in Seq(Parts) /\ Asked.last = Newest(walk)
      /\ SameBut(Planned, walk, {"queue", "probe", "probed"})
  BY Asking, PlannedIs, SentIs DEF IInv, WalkOK, Typed
<1>2. PICK kept : kept = (DaysKept(walk.today) # None /\ w.first <= DaysKept(walk.today))
  OBVIOUS
<1>3. PICK due : due = Due(w)
  OBVIOUS
<1>4. PICK q : q = ByDays(part) \o Tail(walk.queue)
  OBVIOUS
<1>5. /\ Sent.queue = Tail(Planned.queue) /\ ~ Sent.probe /\ Sent.daysOnly = walk.daysOnly
      /\ Sent.probed = Planned.probed
  BY <1>1 DEF Sent, SameBut, Fields
<1>6. CASE Days(w) > 1 /\ (due \/ kept \/ walk.daysOnly)
  <2>1. Planned = [Split([walk EXCEPT !.queue = Tail(@)], part, walk.probe \/ due)
                     EXCEPT !.probed = @ \/ due]
    BY <1>2, <1>3, <1>6 DEF Planned
  <2>2. /\ Planned.queue = q /\ (Planned.probe <=> walk.probe \/ due)
        /\ (Planned.probed <=> walk.probed \/ due)
    BY <2>1, <1>1, <1>4 DEF Split, Fields
  <2>3. part \in Parts /\ Tail(walk.queue) \in Seq(Parts)
    BY <1>1, HeadTailProperties
  <2>4. PICK n \in Int : n = Days(w) /\ n > 1
    <3>1. Days(w) \in Int BY <2>3 DEF Days, Parts, AWindow
    <3> QED BY <3>1, <1>6
  <2>5. PICK last \in Int : last = w.last
    BY <2>3 DEF Parts, AWindow
  <2>6. PICK share : share = part.share \div n
    OBVIOUS
  <2>7. PICK d : d = ByDays(part)
    OBVIOUS
  <2>8. d = [k \in 1 .. n |-> [window |-> [first |-> last - k + 1, last |-> last - k + 1],
                               share |-> share]]
    BY <2>4, <2>5, <2>6, <2>7 DEF ByDays, Part, Window
  <2>9. d[1].window = [first |-> last, last |-> last]
    BY <2>4, <2>8
  <2>10. Head(q) = d[1]
    <3>1. Chain(walk.queue, Newest(walk), Oldest(walk)) /\ Newest(walk) \in Int
          /\ Oldest(walk) \in Int
      BY Asking DEF Left
    <3>2. APart(part, Newest(walk), Oldest(walk)) BY <3>1, <1>1, ChainTail
    <3>3. Days(part.window) > 1 /\ Days(part.window) <= WindowDays /\ part.share = WholeShare
      BY <3>2, <2>3, <1>6, WindowsAssumption DEF APart, Days, Parts, AWindow
    <3>4. d \in Seq(Parts) /\ d # <<>>
      BY <3>3, <2>3, <2>7, ChainDays DEF Chain
    <3>5. PICK m \in Nat : m = Len(d) /\ m >= 1
      <4>1. Len(d) \in Nat /\ Len(d) # 0 BY <3>4, PartsOf
      <4> QED BY <4>1
    <3>6. PICK t \in Seq(Parts) : t = Tail(walk.queue)
      BY <2>3
    <3>7. PICK l \in Nat : l = Len(t)
      BY <3>6, PartsOf
    <3>8. q \in Seq(Parts) /\ Len(q) = m + l /\ q[1] = d[1]
      BY <3>4, <3>5, <3>6, <3>7, <2>7, <1>4, ConcatProperties
    <3>9. q # <<>>
      BY <3>5, <3>7, <3>8, PartsOf
    <3> QED BY <3>8, <3>9, HeadTailProperties
  <2>11. Asked = [first |-> last, last |-> last]
    BY <2>2, <2>9, <2>10 DEF Asked, NextPart
  <2>12. Days(Asked) = 1
    BY <2>11 DEF Days
  <2> QED BY <2>2, <2>12, <1>1, <1>2, <1>3, <1>4, <1>5, <1>6 DEF IsProbe
<1>7. CASE ~ (Days(w) > 1 /\ (due \/ kept \/ walk.daysOnly))
  <2>1. Planned = walk
    BY <1>2, <1>3, <1>7 DEF Planned
  <2> QED BY <2>1, <1>1, <1>2, <1>3, <1>5, <1>7 DEF IsProbe, NextPart
<1> QED BY <1>6, <1>7

\* What an update leaves the next one of a window whose size ended its walk.
LEMMA DeferIs ==
  ASSUME IInv, Asks, walk.today = today, NEW mem, mem = Defer(Asked, walk.today)
  PROVE  /\ HeldDays(memory, today) => HeldDays(mem, today)
         /\ LadderIn(memory, today) = None /\ Asked.last = today => OwesProbe(mem, today)
         /\ LadderIn(memory, today) # None =>
              /\ LadderIn(mem, today) # None
              /\ LadderIn(memory, today) = today \/ Asked.last = today =>
                   HeldDays(mem, today)
<1>1. /\ MemoryOK(memory) /\ today \in Int /\ Asked.last \in Int /\ Asked.first \in Int
      /\ Dates \subseteq Int /\ Asked.last <= today /\ None \notin Int
      /\ LadderDays \in Nat /\ LadderDays > 0 /\ WindowDays \in Nat /\ WindowDays > 0
      /\ today \in Dates /\ Asked.last \in Dates
  BY SentIs, WalkAssumption, WindowsAssumption DEF IInv, StateOK, Dates
<1>2. PICK ladder \in Dates \cup {None} : ladder = LadderIn(memory, today)
  BY <1>1 DEF LadderIn, Recent, MemoryOK
<1>3. PICK days \in Dates \cup {None} : days = DaysIn(memory, today)
  BY <1>1 DEF DaysIn, Recent, MemoryOK
<1>4. RecentLadder(today) = ladder /\ DaysKept(today) = days
  BY <1>2, <1>3 DEF RecentLadder, DaysKept, LadderIn, DaysIn
<1>5. CASE ladder = None
  <2>1. mem = [memory EXCEPT !.probeOn = Asked.last,
                             !.probeDays = Cardinality(WindowDates(Asked))]
    BY <1>4, <1>5 DEF Defer
  <2>2. /\ mem.probeOn = Asked.last /\ mem.probeDays = Cardinality(WindowDates(Asked))
        /\ mem.daysOn = memory.daysOn /\ mem.daysAt = memory.daysAt
    BY <2>1, <1>1 DEF MemoryOK, MemoryFields
  <2>3. Cardinality(WindowDates(Asked)) <= WindowDays
    <3>1. PICK a \in Int, b \in Int : /\ a = Asked.first /\ b = Asked.last
                                      /\ a <= b /\ b - a < WindowDays
      BY <1>1, SentIs DEF APart, Asked
    <3>2. Cardinality(a .. b) = IF a > b THEN 0 ELSE b - a + 1
      BY <3>1, FS_Interval
    <3> QED BY <3>1, <3>2, <1>1 DEF WindowDates
  <2> QED BY <2>2, <2>3, <1>2, <1>5 DEF HeldDays, DaysIn, OwesProbe
<1>6. CASE ladder # None
  <2>1. PICK day \in Dates : day = Larger(ladder, Asked.last)
    BY <1>1, <1>2, <1>6 DEF Larger
  <2>2. PICK held : held = IF days = None THEN day ELSE Larger(days, day)
    OBVIOUS
  <2>3. mem = [memory EXCEPT !.daysOn = held, !.daysAt = today]
    BY <2>1, <2>2, <1>4, <1>6 DEF Defer, KeepDays
  <2>4. /\ mem.daysOn = held /\ mem.daysAt = today
        /\ mem.ladderedOn = memory.ladderedOn /\ mem.ladderedAt = memory.ladderedAt
    BY <2>3, <1>1 DEF MemoryOK, MemoryFields
  <2>5. held \in Int /\ day \in Int /\ ladder \in Int /\ (days # None => days \in Int)
        /\ day <= held /\ (days # None => days <= held)
        /\ ladder <= day /\ Asked.last <= day
    BY <2>1, <2>2, <1>1, <1>2, <1>3, <1>6 DEF Larger
  <2>6. held # None /\ ~ (today - today >= LadderDays)
    BY <2>5, <1>1
  <2>7. DaysIn(mem, today) = held
    BY <2>4, <2>6 DEF DaysIn, Recent
  <2>8. HeldDays(memory, today) => HeldDays(mem, today)
    BY <2>5, <2>6, <2>7, <1>1, <1>3 DEF HeldDays
  <2>9. LadderIn(mem, today) = ladder
    BY <2>4, <1>2 DEF LadderIn
  <2>10. ladder = today \/ Asked.last = today => HeldDays(mem, today)
    BY <2>5, <2>6, <2>7, <1>1 DEF HeldDays
  <2> QED BY <2>8, <2>9, <2>10, <1>2, <1>6
<1> QED BY <1>5, <1>6

\* What is remembered of a window that came back.
LEMMA ShownIs ==
  ASSUME IInv, Asks, NEW mem, mem = Shown(Unowed(memory))
  PROVE  /\ HeldDays(mem, today) <=> HeldDays(memory, today)
         /\ ~ IsProbe => mem = memory
         /\ IsProbe /\ ~ setup /\ walk.today = today =>
              LadderIn(mem, today) = Asked.last /\ Asked.last # None
<1>1. /\ MemoryOK(memory) /\ Asked.last # None
      /\ today \in Int /\ LadderDays \in Nat /\ LadderDays > 0
  BY SentIs, WalkAssumption DEF IInv, StateOK, Dates
<1>2. PICK m : m = Unowed(memory)
  OBVIOUS
<1>3. /\ MemoryFields \subseteq DOMAIN m
      /\ m.daysOn = memory.daysOn /\ m.daysAt = memory.daysAt
      /\ ~ IsProbe => m = memory
  BY <1>1, <1>2 DEF Unowed, MemoryOK, MemoryFields
<1>4. mem = IF IsProbe /\ ~ setup
            THEN [m EXCEPT !.ladderedOn = Asked.last, !.ladderedAt = walk.today] ELSE m
  BY <1>2 DEF Shown
<1>5. mem.daysOn = memory.daysOn /\ mem.daysAt = memory.daysAt
  BY <1>3, <1>4 DEF MemoryFields
<1>6. HeldDays(mem, today) <=> HeldDays(memory, today)
  BY <1>5 DEF HeldDays, DaysIn
<1>7. ASSUME IsProbe, ~ setup, walk.today = today
      PROVE  LadderIn(mem, today) = Asked.last
  <2>1. mem.ladderedOn = Asked.last /\ mem.ladderedAt = today
    BY <1>3, <1>4, <1>7 DEF MemoryFields
  <2>2. ~ (today - today >= LadderDays)
    BY <1>1
  <2> QED BY <2>1, <2>2, <1>1 DEF LadderIn, Recent
<1> QED BY <1>1, <1>3, <1>4, <1>6, <1>7

\* A window that came back leaves the ladder where it is, or shows its size to
\* be the lever.
LEMMA ShownClimbs ==
  ASSUME IInv, CInv, Asks, NEW mem, mem = Shown(Unowed(memory))
  PROVE  /\ missed = 1 => OnLadder(mem, today)
         /\ missed = 2 => HeldDays(mem, today)
<1>1. missed = 2 => HeldDays(mem, today)
  BY ShownIs DEF CInv
<1>2. ASSUME missed = 1 PROVE OnLadder(mem, today)
  <2>1. OnLadder(memory, today) /\ walk.today = today /\ ~ setup
    BY <1>2, Asking DEF CInv
  <2>2. CASE IsProbe
    BY <2>1, <2>2, ShownIs DEF OnLadder
  <2>3. CASE ~ IsProbe
    BY <2>1, <2>3, ShownIs
  <2> QED BY <2>2, <2>3
<1> QED BY <1>1, <1>2

\* The oldest window is the last.
LEMMA LastOne ==
  ASSUME IInv, Asks, Asked.first = Oldest(walk)
  PROVE  Sent.queue = <<>>
<1> SUFFICES ASSUME Sent.queue # <<>> PROVE FALSE
  OBVIOUS
<1>1. PICK to \in Int : to = Oldest(walk) /\ Chain(Sent.queue, to - 1, to)
  BY Asking, SentIs
<1>2. PICK part : part = Head(Sent.queue)
  OBVIOUS
<1>3. APart(part, to - 1, to) /\ part \in Parts
  BY <1>1, <1>2, ChainTail
<1>4. part.window.first \in Int /\ part.window.last \in Int
  BY <1>3 DEF Parts, AWindow
<1> QED BY <1>3, <1>4 DEF APart

\* Windows of a date each are left where the oldest window is split.
LEMMA SingleLeft ==
  ASSUME NEW part \in Parts, Days(part.window) > 1, Days(part.window) <= WindowDays,
         part.share = WholeShare,
         NEW q, q = Tail(ByDays(part) \o <<>>)
  PROVE  \A k \in 1 .. Len(q) : Days(q[k].window) = 1
<1>1. PICK last \in Int : last = part.window.last
  BY DEF Parts, AWindow
<1>2. PICK n \in Int : n = Days(part.window) /\ n > 1
  BY <1>1 DEF Days, Parts, AWindow
<1>3. PICK share : share = part.share \div n
  OBVIOUS
<1>4. PICK d : d = ByDays(part)
  OBVIOUS
<1>5. d = [k \in 1 .. n |-> [window |-> [first |-> last - k + 1, last |-> last - k + 1],
                             share |-> share]]
  BY <1>1, <1>2, <1>3, <1>4 DEF ByDays, Part, Window
<1>6. d \in Seq(Parts) /\ d # <<>>
  BY <1>4, ChainDays DEF Chain
<1>7. Len(d) = n
  <2>1. Len(d) \in Nat /\ DOMAIN d = 1 .. Len(d) BY <1>6, LenProperties
  <2>2. DOMAIN d = 1 .. n BY <1>5
  <2> QED BY <2>1, <2>2, <1>2
<1>8. d \o <<>> = d
  BY <1>6, ConcatEmptySeq
<1>9. Len(q) = n - 1 /\ \A k \in 1 .. n - 1 : q[k] = d[k + 1]
  BY <1>4, <1>6, <1>7, <1>8, HeadTailProperties
<1>10. ASSUME NEW k \in 1 .. n - 1 PROVE Days(q[k].window) = 1
  <2>1. PICK i \in 1 .. n : i = k + 1
    BY <1>2
  <2>2. q[k] = d[i]
    BY <2>1, <1>9
  <2>3. PICK x \in Int : x = last - i + 1
    BY <2>1, <1>2
  <2>4. d[i].window = [first |-> x, last |-> x]
    BY <2>3, <1>5
  <2>5. PICK w : w = q[k].window OBVIOUS
  <2>6. w = [first |-> x, last |-> x]
    BY <2>2, <2>4, <2>5
  <2>7. Days(w) = 1
    BY <2>3, <2>6 DEF Days
  <2> QED BY <2>5, <2>7
<1> QED BY <1>9, <1>10

\* Keeping a window leaves how the walk asks for the others.
LEMMA TakenAsks ==
  ASSUME IInv, Asks, NEW page, page = Answer(Asked),
         NEW wk, wk = Taken(Sent, Asked, NextPart.share, page)
  PROVE  /\ wk.probe = Sent.probe /\ wk.probed = Sent.probed
         /\ wk.daysOnly = Sent.daysOnly
<1>1. Fields \subseteq DOMAIN Sent
  BY SentIs DEF SameBut
<1>2. PICK b : b = [Checked(Sent, Asked, page) EXCEPT !.kept = Append(@, Asked)]
  OBVIOUS
<1>3. /\ Fields \subseteq DOMAIN b /\ b.probe = Sent.probe /\ b.probed = Sent.probed
      /\ b.daysOnly = Sent.daysOnly
  BY <1>1, <1>2 DEF Checked, Fields
<1>4. PICK took : /\ took = IF page.inside # {} THEN Added(b, page)
                             ELSE TakenEmpty(b, Asked, NextPart.share)
                  /\ wk = [took EXCEPT !.completed = Asked.first]
  BY <1>2 DEF Taken
<1>5. /\ Fields \subseteq DOMAIN took /\ took.probe = b.probe /\ took.probed = b.probed
      /\ took.daysOnly = b.daysOnly
  <2>1. CASE page.inside # {}
    <3>1. took = Added(b, page) BY <2>1, <1>4
    <3> QED BY <3>1, <1>3 DEF Added, Fields
  <2>2. CASE page.inside = {}
    <3>1. took = TakenEmpty(b, Asked, NextPart.share) BY <2>2, <1>4
    <3>2. \/ took = [b EXCEPT !.gap = TRUE, !.ended = TRUE]
          \/ took = [b EXCEPT !.ended = b.quiet]
          \/ took = b
          \/ took = Emptier(b, NextPart.share)
      BY <3>1 DEF TakenEmpty
    <3>3. CASE took = Emptier(b, NextPart.share)
      <4>1. PICK starts : took = [b EXCEPT !.streak = @ + NextPart.share,
                                           !.start = starts, !.ended = starts]
        BY <3>3 DEF Emptier
      <4> QED BY <4>1, <1>3 DEF Fields
    <3>4. CASE took = [b EXCEPT !.gap = TRUE, !.ended = TRUE]
      BY <3>4, <1>3 DEF Fields
    <3>5. CASE took = [b EXCEPT !.ended = b.quiet]
      BY <3>5, <1>3 DEF Fields
    <3> QED BY <3>2, <3>3, <3>4, <3>5, <1>3
  <2> QED BY <2>1, <2>2
<1> QED BY <1>3, <1>4, <1>5 DEF Fields

\* A walk that keeps its newest window has had it as a probe, or asks for days
\* from then on, or has no window left.
LEMMA TakenClimbs ==
  ASSUME IInv, SInv, CInv, Answered, ~ setup, walk.today = today,
         meridian.answers < WindowDays,
         NEW page, page = Answer(Asked),
         NEW wk, wk = Taken(Sent, Asked, NextPart.share, page), ~ Done(wk),
         NEW mem, mem = Shown(Unowed(memory))
  PROVE  Climbing(wk, mem, today)
<1>1. /\ Asks /\ phase = "walking" /\ Climbing(walk, memory, today)
      /\ Days(Asked) <= Smaller(meridian.answers, meridian.allows)
  BY DEF Answered, Asks, CInv
<1>2. /\ wk.probe = Sent.probe /\ wk.probed = Sent.probed /\ wk.daysOnly = Sent.daysOnly
      /\ wk.queue = Sent.queue
  BY <1>1, TakenAsks, TakenIs
<1>3. PICK part : part = Head(walk.queue)
  OBVIOUS
<1>4. PICK w : w = part.window
  OBVIOUS
<1>5. /\ ~ Sent.probe /\ Sent.daysOnly = walk.daysOnly
      /\ (Sent.probed <=> Planned.probed) /\ Asked.last = Newest(walk)
      /\ \/ /\ NextPart = part /\ Sent.queue = Tail(walk.queue)
            /\ IsProbe <=> walk.probe
            /\ Planned.probed <=> walk.probed
         \/ /\ Days(w) > 1 /\ Days(Asked) = 1
            /\ Sent.queue = Tail(ByDays(part) \o Tail(walk.queue))
            /\ IsProbe <=> walk.probe \/ Due(w)
            /\ Planned.probed <=> walk.probed \/ Due(w)
            /\ \/ Due(w) \/ walk.daysOnly
               \/ DaysKept(walk.today) # None /\ w.first <= DaysKept(walk.today)
  BY <1>1, <1>3, <1>4, PlannedCases
<1>6. ~ wk.probe /\ ~ walk.probe
  BY <1>1, <1>2, <1>5 DEF Climbing
<1>7. /\ walk.queue # <<>> /\ Chain(walk.queue, Newest(walk), Oldest(walk))
      /\ walk.queue \in Seq(Parts) /\ Newest(walk) \in Int /\ Oldest(walk) \in Int
  BY <1>1, Asking DEF Left, Chain
<1>8. part \in Parts /\ APart(part, Newest(walk), Oldest(walk)) /\ w.last = Newest(walk)
      /\ w.first \in Int /\ w.last \in Int
  BY <1>3, <1>4, <1>7, ChainTail DEF Parts, AWindow
<1>9. Sent.queue # <<>>
  BY <1>2 DEF Done
<1>10. /\ Days(Asked) \in Int /\ Days(Asked) < WindowDays /\ WindowDays \in Nat
  <2>1. Days(Asked) \in Int /\ WindowDays \in Nat
        /\ meridian.answers \in Int /\ meridian.allows \in Int
    BY <1>1, SentIs, WindowsAssumption
       DEF Days, AWindow, IInv, StateOK, MeridianRecord
  <2>2. PICK x \in Int : x = meridian.answers BY <2>1
  <2>3. PICK y \in Int : y = meridian.allows BY <2>1
  <2>4. PICK n \in Int : n = Days(Asked) BY <2>1
  <2>5. n <= x
    BY <2>2, <2>3, <2>4, <1>1 DEF Smaller
  <2> QED BY <2>1, <2>2, <2>4, <2>5
<1>11. CASE walk.daysOnly
  BY <1>11, <1>2, <1>5, <1>6 DEF Climbing
<1>12. CASE HeldDays(memory, today)
  BY <1>12, <1>1, <1>6, ShownIs DEF Climbing
<1>13. CASE walk.probed /\ LadderIn(memory, today) = today
  <2>1. ~ Due(w) BY <1>13 DEF Due
  <2>2. ~ IsProbe BY <2>1, <1>5, <1>6
  <2>3. mem = memory BY <2>2, <1>1, ShownIs
  <2>4. wk.probed BY <1>2, <1>5, <1>13
  <2> QED BY <2>3, <2>4, <1>6, <1>13 DEF Climbing
<1>14. CASE \A k \in 1 .. Len(walk.queue) : Days(walk.queue[k].window) = 1
  <2>1. PICK n \in Nat : n = Len(walk.queue) /\ n >= 1
    <3>1. Len(walk.queue) \in Nat /\ Len(walk.queue) # 0 BY <1>7, PartsOf
    <3> QED BY <3>1
  <2>2. part = walk.queue[1] BY <1>3, <1>7, ChainTail
  <2>3. Days(w) = 1 BY <2>1, <2>2, <1>4, <1>14
  <2>4. Sent.queue = Tail(walk.queue) BY <2>3, <1>5
  <2>5. Len(Tail(walk.queue)) = n - 1
        /\ \A k \in 1 .. n - 1 : Tail(walk.queue)[k] = walk.queue[k + 1]
    BY <2>1, <1>7, HeadTailProperties
  <2>6. \A k \in 1 .. n - 1 : k + 1 \in 1 .. n
    BY <2>1
  <2>7. \A k \in 1 .. Len(wk.queue) : Days(wk.queue[k].window) = 1
    BY <2>1, <2>4, <2>5, <2>6, <1>2, <1>14
  <2> QED BY <2>7, <1>6 DEF Climbing
<1>15. CASE walk.completed = None /\ ~ walk.probed /\ part.share = WholeShare
  <2>1. Asked.last = today
    BY <1>5, <1>15 DEF Newest
  <2>2. CASE NextPart = part
    <3>1. Asked.first = Oldest(walk)
      <4>1. Days(Asked) = WindowDays \/ Asked.first = Oldest(walk)
        BY <2>2, <1>1, <1>15, WholeHead DEF Asked
      <4> QED BY <4>1, <1>10
    <3> QED BY <3>1, <1>1, <1>9, LastOne
  <2>3. ASSUME Days(w) > 1, Sent.queue = Tail(ByDays(part) \o Tail(walk.queue)),
               IsProbe <=> Due(w), Planned.probed <=> Due(w),
               Due(w) \/ (DaysKept(walk.today) # None /\ w.first <= DaysKept(walk.today))
        PROVE  Climbing(wk, mem, today)
    <3>1. CASE Due(w)
      <4>1. LadderIn(mem, today) = today
        BY <3>1, <2>1, <2>3, <1>1, ShownIs
      <4>2. wk.probed
        BY <3>1, <2>3, <1>2, <1>5
      <4> QED BY <4>1, <4>2, <1>6 DEF Climbing
    <3>2. CASE DaysKept(walk.today) # None /\ w.first <= DaysKept(walk.today)
      <4>1. DaysIn(memory, today) # None /\ w.first <= DaysIn(memory, today)
        BY <3>2 DEF DaysKept, DaysIn
      <4>2. w.last = today /\ today \in Int
        BY <2>1, <1>5, <1>8
      <4>3. DaysIn(memory, today) \in Int
        <5>1. DaysIn(memory, today) \in Dates \cup {None}
          BY DEF DaysIn, Recent, IInv, MemoryOK
        <5> QED BY <5>1, <4>1 DEF Dates
      <4>4. CASE Days(w) = WindowDays
        <5>1. HeldDays(memory, today)
          BY <4>1, <4>2, <4>3, <4>4, <1>8, <1>10 DEF HeldDays, Days
        <5> QED BY <5>1, <1>12
      <4>5. CASE w.first = Oldest(walk)
        <5>1. Tail(walk.queue) = <<>>
          <6>1. Chain(Tail(walk.queue), Oldest(walk) - 1, Oldest(walk))
            BY <4>5, <1>3, <1>4, <1>7, ChainTail
          <6>2. ASSUME Tail(walk.queue) # <<>> PROVE FALSE
            <7>1. PICK to \in Int : to = Oldest(walk) BY <1>7
            <7>2. PICK t : t = Tail(walk.queue) OBVIOUS
            <7>3. to - 1 \in Int /\ Chain(t, to - 1, to) /\ t # <<>>
              BY <6>1, <6>2, <7>1, <7>2
            <7>4. PICK p : p = Head(t) OBVIOUS
            <7>5. APart(p, to - 1, to) /\ p \in Parts
              BY <7>3, <7>4, ChainTail
            <7>6. p.window.first \in Int /\ p.window.last \in Int
              BY <7>5 DEF Parts, AWindow
            <7> QED BY <7>5, <7>6 DEF APart
          <6> QED BY <6>2
        <5>2. wk.queue = Tail(ByDays(part) \o <<>>)
          BY <5>1, <2>3, <1>2
        <5>3. Days(part.window) > 1 /\ Days(part.window) <= WindowDays
          BY <2>3, <1>4, <1>8, <1>10 DEF APart, Days
        <5>4. \A k \in 1 .. Len(wk.queue) : Days(wk.queue[k].window) = 1
          BY <5>2, <5>3, <1>8, <1>15, SingleLeft
        <5> QED BY <5>4, <1>6 DEF Climbing
      <4>6. Days(w) = WindowDays \/ w.first = Oldest(walk)
        BY <1>1, <1>3, <1>4, <1>15, WholeHead
      <4> QED BY <4>4, <4>5, <4>6
    <3> QED BY <2>3, <3>1, <3>2
  <2> QED BY <2>2, <2>3, <1>5, <1>6, <1>11, <1>15
<1> QED BY <1>1, <1>3, <1>11, <1>12, <1>13, <1>14, <1>15 DEF Climbing

\* A long walk's window with a whole share has a window's dates, unless the walk
\* has no older date to ask for than those from today.
LEMMA LongWhole ==
  ASSUME IInv, Asks, SInv, Long(walk), walk.today = today,
         NextPart.share = WholeShare, Asked.last = today
  PROVE  Days(Asked) >= WindowDays
<1>1. Days(Asked) = WindowDays \/ Asked.first = Oldest(walk)
  BY WholeHead DEF Asked
<1>2. PICK first \in Int, last \in Int :
        first = Asked.first /\ last = Asked.last /\ Days(Asked) = last - first + 1
  BY SentIs DEF AWindow, Days
<1>3. WindowDays \in Nat
  BY WindowsAssumption
<1>4. Asked.first = Oldest(walk) => first <= last - WindowDays + 1
  BY <1>2 DEF Long, Oldest
<1> QED BY <1>1, <1>2, <1>3, <1>4

\* What is left of each bound.
Spares == spare \in [Faults -> Nat]

LEMMA SparesKept == Spares /\ [Next]_vars => Spares'
<1> SUFFICES ASSUME Spares, [Next]_vars PROVE Spares'
  OBVIOUS
<1>1. ASSUME NEW fault \in Faults, Use(fault) PROVE Spares'
  <2>1. spare[fault] - 1 \in Nat
    BY <1>1 DEF Use, Spares
  <2> QED BY <2>1, <1>1 DEF Use, Spares
<1>2. {"budgets", "failures", "timeouts", "restarts", "published"} \subseteq Faults
  BY DEF Faults
<1>3. spare' = spare \/ \E fault \in Faults : Use(fault)
  BY <1>2 DEF Next, Begin, BudgetEnds, RequestFails, TimesOut, OverLimits, TakeWindow,
              RefuseWindow, Finish, Restart, SetUp, DatePasses, Publish, vars
<1> QED BY <1>1, <1>3 DEF Spares

\* Two walks that time out on a date in a row are the last: the newest window of
\* the next one is asked for by its days.
LEMMA TimesOutClimbs ==
  ASSUME IInv, SInv, Spares, CInv, TimesOut
  PROVE  CInv'
<1>1. /\ Asks /\ phase = "walking" /\ Days(Asked) > 1
      /\ UNCHANGED <<today, meridian, stored, setup, phase>>
  BY DEF TimesOut, Asks
<1>2. /\ Fields \subseteq DOMAIN Sent /\ Sent.today = walk.today /\ Sent.since = walk.since
  BY <1>1, SentIs DEF SameBut, Fields
<1>3. walk'.today = walk.today
  BY <1>2 DEF TimesOut, Split, Fields
<1>4. walk.today <= today /\ missed \in 0 .. 2 /\ (setup => missed = 0)
      /\ (missed > 0 => walk.today = today)
      /\ (missed = 1 => OnLadder(memory, today)) /\ (missed = 2 => HeldDays(memory, today))
  BY <1>1 DEF CInv
<1>5. CASE setup
  <2>1. setup' /\ missed' = 0
    BY <1>1, <1>4, <1>5 DEF TimesOut
  <2> QED BY <2>1, <1>1, <1>3, <1>4 DEF CInv
<1>6. CASE ~ setup
  <2>1. /\ walk' = [Sent EXCEPT !.error = "timeout"] /\ memory' = Defer(Asked, walk.today)
        /\ missed' = IF spare' # spare \/ walk.today # today THEN 0
                     ELSE IF Long(walk) THEN missed + 1 ELSE missed
        /\ Days(Asked) > meridian.answers \/ spare' # spare
    <3>1. Days(Asked) > meridian.answers \/ Use("timeouts")
      BY DEF TimesOut
    <3>2. Use("timeouts") => spare' # spare
      <4>1. spare \in [Faults -> Nat] /\ "timeouts" \in Faults
        BY DEF Spares, Faults
      <4> QED BY <4>1 DEF Use
    <3> QED BY <3>1, <3>2, <1>6 DEF TimesOut
  <2>2. ~ Asks'
    BY <2>1, <1>2, WalkAssumption DEF Asks, Done, Fields, Errors
  <2>3. CASE spare' # spare \/ walk.today # today
    <3>1. missed' = 0 BY <2>1, <2>3
    <3> QED BY <3>1, <2>2, <1>1, <1>3, <1>4 DEF CInv
  <2>4. CASE spare' = spare /\ walk.today = today
    <3>1. missed' = IF Long(walk) THEN missed + 1 ELSE missed
      BY <2>1, <2>4
    <3>2. PICK mem : mem = memory' /\ mem = Defer(Asked, walk.today)
      BY <2>1
    <3>3. /\ HeldDays(memory, today) => HeldDays(mem, today)
          /\ LadderIn(memory, today) = None /\ Asked.last = today => OwesProbe(mem, today)
          /\ LadderIn(memory, today) # None =>
               /\ LadderIn(mem, today) # None
               /\ LadderIn(memory, today) = today \/ Asked.last = today =>
                    HeldDays(mem, today)
      BY <3>2, <2>4, <1>1, DeferIs
    <3>4. meridian.answers < WindowDays /\ Days(Asked) \in Int /\ WindowDays \in Nat
          /\ Days(Asked) < WindowDays + 1
      <4>1. /\ meridian.answers \in Int /\ WindowDays \in Nat
        BY WindowsAssumption DEF IInv, StateOK, MeridianRecord
      <4>2. PICK first \in Int, last \in Int :
              /\ first = Asked.first /\ last = Asked.last /\ last - first < WindowDays
              /\ Days(Asked) = last - first + 1
        BY <1>1, SentIs DEF AWindow, APart, Asked, Days
      <4>3. Days(Asked) > meridian.answers
        BY <2>1, <2>4
      <4> QED BY <4>1, <4>2, <4>3
    <3>5. Climbing(walk, memory, today)
      BY <3>4, <2>4, <1>1, <1>6 DEF CInv
    <3>6. PICK part : part = Head(walk.queue)
      OBVIOUS
    <3>7. /\ NextPart = part /\ Asked = part.window /\ Asked.last = Newest(walk)
          /\ ~ Due(Asked) /\ ~ walk.daysOnly
          /\ ~ (DaysKept(walk.today) # None /\ Asked.first <= DaysKept(walk.today))
      <4>1. PICK w : w = part.window
        OBVIOUS
      <4>2. /\ Asked.last = Newest(walk)
            /\ \/ /\ NextPart = part
                  /\ Days(w) > 1 =>
                       /\ ~ Due(w) /\ ~ walk.daysOnly
                       /\ ~ (DaysKept(walk.today) # None /\ w.first <= DaysKept(walk.today))
               \/ Days(Asked) = 1
        BY <4>1, <3>6, <1>1, PlannedCases
      <4>3. NextPart = part /\ Asked = w
        BY <4>1, <4>2, <1>1, <3>4 DEF Asked
      <4> QED BY <4>1, <4>2, <4>3, <1>1
    <3>8. PICK first \in Int, last \in Int :
            /\ first = Asked.first /\ last = Asked.last /\ first <= last
            /\ Days(Asked) = last - first + 1 /\ last <= today /\ Oldest(walk) <= first
      BY <1>1, <2>4, SentIs DEF AWindow, APart, Asked, Days
    <3>9. today \in Int /\ DaysIn(memory, today) \in Dates \cup {None} /\ Dates \subseteq Int
          /\ memory.probeDays \in Int
          /\ today # None
      BY WalkAssumption DEF IInv, StateOK, MemoryOK, DaysIn, Recent, Dates
    \* The walk is past the dates to be asked for by their days, a whole window
    \* of them being its newest.
    <3>10. ASSUME HeldDays(memory, today)
           PROVE  ~ Long(walk)
      <4> SUFFICES ASSUME Long(walk) PROVE FALSE
        OBVIOUS
      <4>1. PICK days \in Int : days = DaysIn(memory, today) /\ days > today - WindowDays
                                /\ DaysIn(memory, today) # None
        BY <3>9, <3>10 DEF HeldDays
      <4>2. ~ (first <= days)
        BY <4>1, <3>7, <3>8, <2>4 DEF DaysKept, DaysIn
      <4>3. NextPart.share = WholeShare
        BY <1>1, <3>8, <3>4, SentIs DEF APart, Asked
      <4>4. Days(Asked) = WindowDays \/ Asked.first = Oldest(walk)
        BY <4>3, <1>1, WholeHead DEF Asked
      <4>5. Oldest(walk) <= today - WindowDays + 1
        BY <2>4 DEF Long, Oldest
      <4>6. Oldest(walk) \in Int
        BY <1>1, Asking
      <4> QED BY <4>1, <4>2, <4>4, <4>5, <4>6, <3>4, <3>8, <3>9
    <3>11. CASE walk.completed = None /\ ~ walk.probed
      <4>1. Asked.last = today
        BY <3>7, <3>11, <2>4 DEF Newest
      <4>2. OnLadder(mem, today)
        BY <4>1, <3>3 DEF OnLadder
      <4>3. ASSUME Long(walk), missed = 1
            PROVE  HeldDays(mem, today)
        <5>1. OnLadder(memory, today) BY <4>3, <1>4
        <5>2. CASE HeldDays(memory, today) BY <5>2, <3>3
        <5>3. CASE LadderIn(memory, today) # None BY <5>3, <4>1, <3>3
        <5>4. CASE OwesProbe(memory, today)
          <6>1. NextPart.share = WholeShare
            BY <1>1, <3>8, <3>4, SentIs DEF APart, Asked
          <6>2. Days(Asked) >= WindowDays
            BY <6>1, <4>1, <4>3, <2>4, <1>1, LongWhole
          <6>3. first <= memory.probeOn /\ Days(Asked) >= memory.probeDays
            BY <5>4, <6>2, <3>4, <3>8, <3>9 DEF OwesProbe
          <6>4. memory.probeOn # None
            BY <5>4, <3>9 DEF OwesProbe
          <6> QED BY <6>3, <6>4, <3>7, <3>8, <3>11 DEF Due
        <5> QED BY <5>1, <5>2, <5>3, <5>4 DEF OnLadder
      <4> QED BY <4>2, <4>3, <3>1, <3>2, <3>3, <3>10, <2>2, <2>4, <1>1, <1>3, <1>4, <1>6
              DEF CInv
    <3>12. CASE HeldDays(memory, today)
      <4>1. missed' = missed /\ HeldDays(mem, today)
        BY <3>1, <3>3, <3>10, <3>12
      <4> QED BY <4>1, <3>2, <2>2, <2>4, <1>1, <1>3, <1>4, <1>6 DEF CInv, OnLadder
    <3>13. CASE \A k \in 1 .. Len(walk.queue) : Days(walk.queue[k].window) = 1
      <4>1. /\ walk.queue \in Seq(Parts) /\ walk.queue # <<>>
        BY <1>1, Asking DEF Left, Chain
      <4>2. Len(walk.queue) \in Nat /\ Len(walk.queue) >= 1 /\ part = walk.queue[1]
        BY <4>1, <3>6, PartsOf, HeadTailProperties
      <4>3. Days(Asked) = 1
        BY <4>2, <3>7, <3>13
      <4> QED BY <4>3, <1>1
    <3>14. CASE walk.probed /\ LadderIn(memory, today) = today
      <4>1. HeldDays(mem, today)
        BY <3>14, <3>3, <3>9
      <4> QED BY <4>1, <3>1, <3>2, <3>10, <2>2, <2>4, <1>1, <1>3, <1>4, <1>6
              DEF CInv, OnLadder
    <3> QED BY <3>5, <3>7, <3>11, <3>12, <3>13, <3>14 DEF Climbing
  <2> QED BY <2>3, <2>4
<1> QED BY <1>5, <1>6

\* A step of a walk that forgets no walk a window's size ended keeps the ladder.
LEMMA StillClimbs ==
  ASSUME CInv, phase = "walking", phase' = phase, today' = today, setup' = setup,
         walk'.today = walk.today, missed' = missed \/ missed' = 0,
         missed' = 1 => OnLadder(memory', today),
         missed' = 2 => HeldDays(memory', today),
         Asks' /\ ~ setup /\ walk.today = today /\ meridian'.answers < WindowDays =>
           Climbing(walk', memory', today)
  PROVE  CInv'
<1>1. /\ missed \in 0 .. 2 /\ (setup => missed = 0) /\ walk.today <= today
      /\ missed > 0 => walk.today = today
  BY DEF CInv
<1>2. /\ missed' \in 0 .. 2 /\ (setup' => missed' = 0) /\ walk'.today <= today'
      /\ missed' > 0 => walk'.today = today'
  BY <1>1
<1>3. /\ missed' = 1 => OnLadder(memory', today')
      /\ missed' = 2 => HeldDays(memory', today')
      /\ (Asks' /\ ~ setup' /\ walk'.today = today' /\ meridian'.answers < WindowDays) =>
           Climbing(walk', memory', today')
  OBVIOUS
<1> QED BY <1>2, <1>3 DEF CInv

\* A walk that stops at its next window, for another reason than its size.
LEMMA FailClimbs ==
  ASSUME IInv, CInv, Asks, UNCHANGED <<today, setup, phase>>, missed' = 0,
         NEW base, SameBut(base, walk, Aside), NEW error \in Errors,
         walk' = [base EXCEPT !.error = error]
  PROVE  CInv'
<1>1. PICK wk : wk = walk' OBVIOUS
<1>2. wk.today = walk.today /\ wk.error = error /\ error # None
  BY <1>1, WalkAssumption DEF SameBut, Fields, Aside
<1>3. ~ Asks'
  BY <1>1, <1>2 DEF Asks, Done
<1>4. phase = "walking" /\ missed' # 1 /\ missed' # 2
  BY DEF Asks
<1> QED BY <1>1, <1>2, <1>3, <1>4, StillClimbs

\* A step that asks for a window keeps the ladder.
LEMMA AskClimbs ==
  ASSUME IInv, SInv, Spares, CInv,
         BudgetEnds \/ RequestFails \/ TimesOut \/ OverLimits \/ TakeWindow \/ RefuseWindow
  PROVE  CInv'
<1>1. Asks /\ phase = "walking" /\ UNCHANGED <<today, meridian, setup, phase>>
  BY DEF BudgetEnds, RequestFails, TimesOut, OverLimits, TakeWindow, RefuseWindow,
         Answered, Asks
<1>2. SameBut(Sent, walk, Aside)
  BY <1>1, SentAside
<1>3. {"budget", "failure", "misread", "refused"} \subseteq Errors
  BY DEF Errors
<1>4. CASE BudgetEnds \/ RequestFails
  <2>1. missed' = 0 /\ \E error \in {"budget", "failure"} : walk' = [Sent EXCEPT !.error = error]
    BY <1>4 DEF BudgetEnds, RequestFails, FailsWith, Sent
  <2> QED BY <2>1, <1>1, <1>2, <1>3, FailClimbs
<1>5. CASE TimesOut
  BY <1>5, TimesOutClimbs
<1>6. CASE OverLimits
  <2>1. PICK wk : wk = walk' OBVIOUS
  <2>2. wk.today = walk.today /\ ~ wk.probe /\ wk.daysOnly
    BY <2>1, <1>2, <1>6 DEF OverLimits, Split, SameBut, Fields, Aside
  <2>3. Climbing(wk, memory, today)
    BY <2>2 DEF Climbing
  <2>4. missed' = missed /\ memory' = memory
    BY <1>6 DEF OverLimits
  <2>5. /\ missed = 1 => OnLadder(memory, today)
        /\ missed = 2 => HeldDays(memory, today)
    BY DEF CInv
  <2> QED BY <2>1, <2>2, <2>3, <2>4, <2>5, <1>1, StillClimbs
<1>7. PICK mem : mem = Shown(Unowed(memory))
  OBVIOUS
<1>8. /\ missed = 1 => OnLadder(mem, today)
      /\ missed = 2 => HeldDays(mem, today)
  BY <1>1, <1>7, ShownClimbs
<1>9. CASE TakeWindow
  <2>1. PICK page : page = Answer(Asked)
    OBVIOUS
  <2>2. \/ walk' = [Sent EXCEPT !.error = "misread"] /\ missed' = 0
        \/ walk' = [Checked(Sent, Asked, page) EXCEPT !.error = "misread"] /\ missed' = 0
        \/ /\ walk' = Taken(Sent, Asked, NextPart.share, page) /\ missed' = missed
           /\ memory' = mem
    BY <2>1, <1>7, <1>9 DEF TakeWindow, FailsWith
  <2>3. CASE walk' = [Sent EXCEPT !.error = "misread"] /\ missed' = 0
    BY <2>3, <1>1, <1>2, <1>3, FailClimbs
  <2>4. CASE walk' = [Checked(Sent, Asked, page) EXCEPT !.error = "misread"] /\ missed' = 0
    <3>1. PICK base : base = Checked(Sent, Asked, page)
      OBVIOUS
    <3>2. SameBut(base, walk, Aside)
      BY <3>1, <2>1, <1>1, CheckedIs
    <3> QED BY <3>1, <3>2, <2>4, <1>1, <1>3, FailClimbs
  <2>5. CASE /\ walk' = Taken(Sent, Asked, NextPart.share, page) /\ missed' = missed
             /\ memory' = mem
    <3>1. PICK wk : wk = walk' /\ wk = Taken(Sent, Asked, NextPart.share, page)
      BY <2>5
    <3>2. wk.today = walk.today
      <4>1. SameBut(wk, walk, TakenFields)
        BY <3>1, <2>1, <1>1, TakenIs
      <4> QED BY <4>1 DEF SameBut, Fields, Aside, TakenFields
    <3>3. Answered
      BY <1>9 DEF TakeWindow
    <3>4. ASSUME Asks', ~ setup, walk.today = today, meridian.answers < WindowDays
          PROVE  Climbing(wk, mem, today)
      <4>1. ~ Done(wk)
        BY <3>1, <3>4 DEF Asks, Done
      <4> QED BY <4>1, <3>1, <3>3, <3>4, <2>1, <1>7, TakenClimbs
    <3> QED BY <3>1, <3>2, <3>4, <2>5, <1>1, <1>8, StillClimbs
  <2> QED BY <2>2, <2>3, <2>4, <2>5
<1>10. CASE RefuseWindow
  <2>1. CASE ~ Starts(Asked)
    <3>1. walk' = [Sent EXCEPT !.error = "refused"] /\ missed' = 0
      BY <2>1, <1>10 DEF RefuseWindow, FailsWith
    <3> QED BY <3>1, <1>1, <1>2, <1>3, FailClimbs
  <2>2. CASE Starts(Asked)
    <3>1. PICK wk : wk = walk' /\ wk = TakenStart(Sent, Asked, Answer(Asked))
      BY <2>2, <1>10 DEF RefuseWindow
    <3>2. missed' = missed /\ memory' = mem
      BY <2>2, <1>7, <1>10 DEF RefuseWindow
    <3>3. wk.ended /\ wk.today = walk.today
      <4>1. PICK page : page = Answer(Asked) OBVIOUS
      <4>2. PICK added : /\ added = (IF page.inside # {} THEN Added(Sent, page) ELSE Sent)
                         /\ wk = [added EXCEPT !.start = TRUE, !.startAfter = Start(Asked),
                                               !.completed = Asked.first, !.ended = TRUE]
        BY <3>1, <4>1 DEF TakenStart
      <4>3. Fields \subseteq DOMAIN added /\ added.today = walk.today
        BY <4>2, <1>2 DEF Added, SameBut, Fields, Aside
      <4> QED BY <4>2, <4>3 DEF Fields
    <3>4. ~ Asks'
      BY <3>1, <3>3 DEF Asks, Done
    <3> QED BY <3>1, <3>2, <3>3, <3>4, <1>1, <1>8, StillClimbs
  <2> QED BY <2>1, <2>2
<1> QED BY <1>4, <1>5, <1>6, <1>9, <1>10

\* A walk that starts has its newest window to ask for.
LEMMA BeginClimbs ==
  ASSUME IInv, CInv, Begin
  PROVE  CInv'
<1>1. PICK mode \in Modes : walk' = NewWalk(mode, today)
  <2>1. "initial" \in Modes BY WalkAssumption
  <2> QED BY <2>1 DEF Begin
<1>2. /\ phase' = "walking" /\ UNCHANGED <<today, memory, setup, missed>> /\ today \in Int
      /\ today \in Dates /\ stored \subseteq Hours
  BY DEF Begin, IInv, StateOK, Dates
<1>3. PICK since \in Int : since = Since(mode, today)
  BY <1>2, SinceIs
<1>4. PICK wk : wk = walk' OBVIOUS
<1>5. PICK ws : ws = PlanWindows(since, today) OBVIOUS
<1>6. PICK q : q = [k \in DOMAIN ws |-> Part(ws[k], WholeShare)] OBVIOUS
<1>7. /\ wk.today = today /\ wk.queue = q /\ wk.completed = None /\ ~ wk.probed /\ ~ wk.probe
  BY <1>1, <1>3, <1>4, <1>5, <1>6 DEF NewWalk
<1>8. Head(q).share = WholeShare
  <2>1. OldestAsked(since, today) \in Int
    BY <1>2, DayIs DEF OldestAsked, Smaller
  <2>2. Chain(q, today, OldestAsked(since, today)) /\ q # <<>>
    BY <1>2, <1>5, <1>6, PlanIsChain
  <2>3. q \in Seq(Parts) /\ Head(q) = q[1]
    BY <1>2, <2>1, <2>2, ChainTail
  <2>4. 1 \in DOMAIN q
    BY <2>2, <2>3, PartsOf
  <2>5. 1 \in DOMAIN ws BY <2>4, <1>6
  <2> QED BY <2>3, <2>5, <1>6 DEF Part
<1>9. Climbing(wk, memory, today)
  BY <1>7, <1>8 DEF Climbing
<1>10. /\ missed \in 0 .. 2 /\ (setup => missed = 0)
       /\ missed = 1 => OnLadder(memory, today)
       /\ missed = 2 => HeldDays(memory, today)
  BY DEF CInv
<1> QED BY <1>2, <1>4, <1>7, <1>9, <1>10 DEF CInv

\* No walk is under way after the other steps, or a date has passed.
LEMMA RestClimbs ==
  ASSUME IInv, CInv,
         Finish \/ Restart \/ SetUp \/ DatePasses \/ Publish \/ UNCHANGED vars
  PROVE  CInv'
<1>1. /\ missed \in 0 .. 2 /\ (setup => missed = 0) /\ MemoryOK(memory)
      /\ phase = "walking" => walk.today <= today /\ (missed > 0 => walk.today = today)
      /\ missed = 1 => OnLadder(memory, today)
      /\ missed = 2 => HeldDays(memory, today)
      /\ today \in Int /\ walk.today \in Int
  BY DEF CInv, IInv, StateOK, WalkOK, Typed, Dates
<1>2. CASE Finish
  <2>1. PICK quiet : memory' = [memory EXCEPT !.quiet = quiet]
    BY <1>2 DEF Finish
  <2>2. PICK mem : mem = memory' OBVIOUS
  <2>3. /\ mem.probeOn = memory.probeOn /\ mem.probeDays = memory.probeDays
        /\ mem.ladderedOn = memory.ladderedOn /\ mem.ladderedAt = memory.ladderedAt
        /\ mem.daysOn = memory.daysOn /\ mem.daysAt = memory.daysAt
    BY <2>1, <2>2, <1>1 DEF MemoryOK, MemoryFields
  <2>4. (OnLadder(memory, today) => OnLadder(mem, today))
        /\ (HeldDays(memory, today) => HeldDays(mem, today))
    BY <2>3 DEF OnLadder, HeldDays, OwesProbe, LadderIn, DaysIn
  <2>5. phase' = "ended" /\ UNCHANGED <<today, setup>> /\ (missed' = missed \/ missed' = 0)
    BY <1>2 DEF Finish
  <2> QED BY <2>2, <2>4, <2>5, <1>1 DEF CInv, Asks
<1>3. CASE Restart
  <2>1. phase' = "idle" /\ missed' = 0
    BY <1>3 DEF Restart
  <2> QED BY <2>1 DEF CInv, Asks
<1>4. CASE SetUp
  <2>1. phase' = "ended" /\ missed' = 0
    BY <1>1, <1>4 DEF SetUp
  <2> QED BY <2>1 DEF CInv, Asks
<1>5. CASE DatePasses
  <2>1. missed' = 0 /\ today' = today + 1 /\ UNCHANGED <<phase, walk>>
    BY <1>5 DEF DatePasses
  <2>2. phase' = "walking" => walk'.today < today'
    BY <2>1, <1>1
  <2>3. ~ (Asks' /\ walk'.today = today')
    BY <2>1, <2>2, <1>1 DEF Asks
  <2>4. phase' = "walking" => walk'.today <= today'
    BY <2>1, <1>1
  <2> QED BY <2>1, <2>3, <2>4 DEF CInv
<1>6. CASE Publish
  <2>1. phase' = "idle" /\ UNCHANGED <<today, memory, setup, missed>>
    BY <1>6 DEF Publish
  <2> QED BY <2>1, <1>1 DEF CInv, Asks
<1>7. CASE UNCHANGED vars
  <2>1. UNCHANGED <<today, meridian, memory, setup, phase, walk, missed>>
    BY <1>7 DEF vars
  <2>2. Asks' = Asks
    BY <2>1 DEF Asks
  <2> QED BY <2>1, <2>2 DEF CInv
<1> QED BY <1>2, <1>3, <1>4, <1>5, <1>6, <1>7

\* On one date, the size of a window ends two long walks at most before one gets
\* past it, unless something else fails between.
THEOREM LadderClimbed == Spec => []LadderClimbs
<1>1. Init => SInv /\ Spares /\ CInv
  <2> SUFFICES ASSUME Init PROVE SInv /\ Spares /\ CInv
    OBVIOUS
  <2>1. walk = Forgotten /\ phase = "idle" /\ missed = 0 BY DEF Init
  <2>2. ~ Forgotten.start
    BY DEF Forgotten, NewWalk
  <2>3. SInv
    BY <2>1, <2>2 DEF SInv, ShownBy, Asks
  <2>4. Spares
    BY WalkAssumption DEF Init, Spares
  <2> QED BY <2>1, <2>3, <2>4 DEF CInv, Asks
<1>2. IInv /\ SInv /\ Spares /\ CInv /\ [Next]_vars => SInv' /\ Spares' /\ CInv'
  <2> SUFFICES ASSUME IInv, SInv, Spares, CInv, [Next]_vars
               PROVE  SInv' /\ Spares' /\ CInv'
    OBVIOUS
  <2>1. SInv' BY NextShown
  <2>2. Spares' BY SparesKept
  <2>3. CInv'
    <3>1. CASE BudgetEnds \/ RequestFails \/ TimesOut \/ OverLimits \/ TakeWindow
               \/ RefuseWindow
      BY <3>1, AskClimbs
    <3>2. CASE Begin
      BY <3>2, BeginClimbs
    <3>3. CASE Finish \/ Restart \/ SetUp \/ DatePasses \/ Publish \/ UNCHANGED vars
      BY <3>3, RestClimbs
    <3> QED BY <3>1, <3>2, <3>3 DEF Next
  <2> QED BY <2>1, <2>2, <2>3
<1>3. CInv => LadderClimbs
  BY DEF CInv, LadderClimbs
<1> QED BY <1>1, <1>2, <1>3, Invariance, PTL DEF Spec

-------------------------------------------------------------------------------
(***************************************************************************)
(* A walk implements FetchedBlock.                                         *)
(***************************************************************************)
Fetches(wk) == IF wk.completed = None THEN {} ELSE wk.completed .. wk.today

\* A window that joins a walk extends its block back, with its rows alone.
LEMMA ExtendsBlock ==
  ASSUME IInv, Asks, meridian' = meridian, NEW wk, wk = walk',
         wk.today = walk.today, wk.since = walk.since, wk.completed = Asked.first,
         wk.rows = walk.rows \cup {h \in Answer(Asked).inside : h >= walk.since},
         Held(wk, meridian.has),
         Honest => \A h \in meridian.has :
                     /\ walk.since <= h /\ h < NowOn(walk.today)
                     /\ DayOf(h) >= Asked.first
                     => h \in wk.rows
  PROVE  Block!Extend
<1>1. /\ Asked.first \in Dates /\ Asked.first \in Int /\ Asked.last \in Int
      /\ Asked.first <= Asked.last /\ Asked.last <= walk.today /\ Asked.last = Newest(walk)
      /\ walk.today \in Int /\ None \notin Int
  BY SentIs, WalkAssumption DEF AWindow, IInv, WalkOK, Typed, Dates
<1>2. /\ meridian.has \subseteq Int /\ walk.rows \subseteq Int
      /\ walk.completed \in Int \cup {None} /\ Held(walk, meridian.has)
  <2>1. meridian.has \subseteq Hours /\ walk.rows \subseteq Hours
    BY DEF IInv, StateOK, MeridianRecord, WalkOK, Typed
  <2>2. Hours \subseteq Int BY HoursAre
  <2> QED BY <2>1, <2>2 DEF IInv, WalkOK, Typed, Fetched
<1>3. PICK offered : offered = {h \in meridian.has : walk.since <= h /\ h < NowOn(walk.today)}
  OBVIOUS
<1>4. \A h \in Int : DayOf(h) \in Int /\ (h < NowOn(walk.today) => DayOf(h) <= walk.today)
  BY <1>1, DayIs, PassedIs
<1>5. Fetches(wk) = Asked.first .. walk.today
  BY <1>1 DEF Fetches
<1>6. Fetches(walk) \subseteq Fetches(wk) /\ Fetches(walk) # Fetches(wk)
  <2>1. Asked.first \in Fetches(wk) BY <1>1, <1>5
  <2>2. CASE walk.completed = None
    BY <2>1, <2>2 DEF Fetches
  <2>3. CASE walk.completed # None
    <3>1. walk.completed \in Int /\ Asked.last = walk.completed - 1
      BY <2>3, <1>1, <1>2 DEF Newest
    <3>2. Fetches(walk) = walk.completed .. walk.today BY <2>3 DEF Fetches
    <3>3. Asked.first \notin Fetches(walk) BY <3>1, <3>2, <1>1
    <3>4. Fetches(walk) \subseteq Fetches(wk) BY <3>1, <3>2, <1>1, <1>5
    <3> QED BY <2>1, <3>3, <3>4
  <2> QED BY <2>2, <2>3
<1>7. wk.rows \subseteq {h \in offered : DayOf(h) \in Fetches(wk)}
  <2> SUFFICES ASSUME NEW h \in wk.rows
               PROVE  h \in offered /\ DayOf(h) \in Fetches(wk)
    OBVIOUS
  <2>1. /\ h \in meridian.has /\ walk.since <= h /\ h < NowOn(walk.today)
        /\ DayOf(h) >= Asked.first
    BY DEF Held
  <2>2. DayOf(h) \in Int /\ DayOf(h) <= walk.today
    BY <2>1, <1>2, <1>4
  <2> QED BY <2>1, <2>2, <1>1, <1>3, <1>5
<1>8. {h \in wk.rows : DayOf(h) \in Fetches(walk)} = walk.rows
  <2>1. ASSUME NEW h \in walk.rows PROVE h \in wk.rows /\ DayOf(h) \in Fetches(walk)
    <3>1. /\ h \in meridian.has /\ h < NowOn(walk.today)
          /\ walk.completed # None /\ DayOf(h) >= walk.completed
      BY <1>2 DEF Held
    <3>2. DayOf(h) \in Int /\ DayOf(h) <= walk.today BY <3>1, <1>2, <1>4
    <3>3. walk.completed \in Int BY <3>1, <1>2
    <3> QED BY <3>1, <3>2, <3>3, <1>1 DEF Fetches
  <2>2. ASSUME NEW h \in wk.rows, DayOf(h) \in Fetches(walk), h \notin walk.rows
        PROVE  FALSE
    <3>1. h \in Answer(Asked).inside BY <2>2
    <3>2. DayOf(h) <= Asked.last BY <3>1, PageIs
    <3>3. walk.completed # None /\ DayOf(h) \in walk.completed .. walk.today
      BY <2>2 DEF Fetches
    <3>4. walk.completed \in Int /\ Asked.last = walk.completed - 1
      BY <3>3, <1>1, <1>2 DEF Newest
    <3> QED BY <3>2, <3>3, <3>4, <1>1
  <2> QED BY <2>1, <2>2
<1>9. Honest => wk.rows = {h \in offered : DayOf(h) \in Fetches(wk)}
  <2> SUFFICES ASSUME Honest, NEW h \in offered, DayOf(h) \in Fetches(wk)
               PROVE  h \in wk.rows
    BY <1>7
  <2>1. DayOf(h) >= Asked.first BY <1>1, <1>5
  <2> QED BY <2>1, <1>3
<1>10. offered' = offered /\ (Honest <=> Honest')
  BY DEF Honest
<1>11. /\ \E first \in Dates : first <= walk.today /\ Fetches(wk) = first .. walk.today
  BY <1>1, <1>5
<1>12. /\ Fetches(walk)' = Fetches(wk)
       /\ {h \in meridian.has : walk.since <= h /\ h < NowOn(walk.today)}' = offered
  BY <1>3 DEF Fetches
<1> QED
  BY <1>3, <1>6, <1>7, <1>8, <1>9, <1>10, <1>11, <1>12
     DEF Block!Extend, Block!Of, Block!DayOf, DayOf, Fetches

\* A refusal that shows a start is of no date with a reading when Meridian
\* refuses only dates before the supply.
LEMMA NoneBeforeStart ==
  ASSUME IInv, Asks, Refuses(Asked), Starts(Asked), Honest,
         NEW h \in meridian.has, Asked.first <= DayOf(h), DayOf(h) <= Start(Asked)
  PROVE  FALSE
<1>1. PICK start : start = Start(Asked)
  OBVIOUS
<1>2. /\ Asked \in AWindow /\ Asked.first <= Asked.last /\ Asked.first \in meridian.refuses
      /\ Asked.last \in Dates /\ Asked.last - Asked.first < WindowDays
      /\ Asked.last = Newest(walk) /\ start \notin {AllCame, RefusalFails}
  BY <1>1, SentIs DEF Starts, Refuses, APart, Asked
<1>3. /\ Asked.first \in Int /\ Asked.last \in Int /\ walk.today \in Int
      /\ WindowDays \in Int /\ None \notin Int /\ walk.completed \in Int \cup {None}
  BY <1>2, WindowsAssumption, WalkAssumption DEF AWindow, IInv, WalkOK, Typed, Dates
<1>4. /\ start \in Int /\ start <= Asked.last
      /\ \/ start \in meridian.refuses
         \/ walk.oldest # None /\ start = Asked.last /\ Asked.last \notin ReadingDays
  <2>1. PICK newer : newer = (walk.oldest # None)
    OBVIOUS
  <2>2. PICK precedes : precedes = (meridian.coded /\ ~ walk.statistics)
    OBVIOUS
  <2>3. start = StartAfter(Asked, OldestAsked(walk.since, walk.today), newer, precedes,
                           ReadingDays, meridian.refuses)
    BY <1>1, <2>1, <2>2 DEF Start
  <2>4. /\ start \in Int /\ start <= Asked.last
        /\ start \in meridian.refuses
           \/ (newer /\ start = Asked.last /\ Asked.last \notin ReadingDays)
    BY <2>3, <1>2, StartIn
  <2> QED BY <2>1, <2>4
<1>5. h \in Int /\ DayOf(h) \in Int
  <2>1. h \in Hours /\ Hours \subseteq Int
    BY HoursAre DEF IInv, StateOK, MeridianRecord
  <2> QED BY <2>1, DayIs
<1>6. /\ meridian.reads = "asked"
      /\ \A d \in meridian.refuses : d < DayOf(h)
      /\ \A e \in DayOf(h) .. Asked.first + WindowDays - 1 :
           HoursOf(e) \cap meridian.has # {}
  BY <1>2 DEF Honest
<1>7. CASE start \in meridian.refuses
  <2>1. start < DayOf(h) BY <1>6, <1>7
  <2> QED BY <2>1, <1>1, <1>4, <1>5
<1>8. CASE walk.oldest # None /\ start = Asked.last /\ Asked.last \notin ReadingDays
  <2>1. Asked.last \in DayOf(h) .. Asked.first + WindowDays - 1
    BY <1>1, <1>2, <1>3, <1>5, <1>8
  <2>2. PICK g \in meridian.has : g \in HoursOf(Asked.last)
    BY <2>1, <1>6
  <2>3. g \in Hours /\ g \in Int
    BY HoursAre DEF IInv, StateOK, MeridianRecord
  <2>4. /\ Midnight(Asked.last) <= g /\ g < Midnight(Asked.last + 1)
        /\ Midnight(Asked.last + 1) \in Int
    <3>1. Midnight(Asked.last) \in Int /\ Midnight(Asked.last + 1) \in Int
      BY <1>3, WindowsAssumption DEF Midnight
    <3> QED BY <3>1, <2>2, <2>3 DEF HoursOf
  <2>5. DayOf(g) = Asked.last
    BY <2>3, <2>4, <1>3, DayIs
  <2>6. walk.completed # None /\ Asked.last = walk.completed - 1 /\ walk.completed <= walk.today
    BY <1>2, <1>8 DEF IInv, WalkOK, Kept, Newest
  <2>7. g < NowOn(walk.today)
    <3>1. Asked.last + 1 <= walk.today /\ walk.completed \in Int BY <2>6, <1>3
    <3>2. NowOn(Asked.last + 1) <= NowOn(walk.today) /\ NowOn(Asked.last + 1) \in Int
          /\ NowOn(walk.today) \in Int
      BY <3>1, <1>3, NowIs
    <3>3. Midnight(Asked.last + 1) <= NowOn(Asked.last + 1)
      <4>1. HoursPerDay \div 2 \in Int /\ HoursPerDay \div 2 >= 0
        BY WindowsAssumption
      <4> QED BY <4>1, <2>4 DEF NowOn
    <3> QED BY <3>2, <3>3, <2>3, <2>4
  <2>8. PICK w : w = Window(Asked.last, Asked.last)
    OBVIOUS
  <2>9. Asked.last \in WindowDates(w)
    BY <2>8, <1>3 DEF Window, WindowDates
  <2>10. g \in Received(w)
    BY <2>3, <2>5, <2>7, <2>9, <1>6 DEF Received, Heard, InWindow
  <2>11. InWindow(Received(w), w) # {}
    BY <2>5, <2>9, <2>10 DEF InWindow
  <2>12. Asked.last \in ReadingDays
    BY <2>8, <2>11, <1>2 DEF ReadingDays
  <2> QED BY <2>12, <1>8
<1> QED BY <1>4, <1>7, <1>8

\* Each step of a walk is one of the block it has fetched, or none.
LEMMA BlockStep ==
  ASSUME IInv, [Next]_vars
  PROVE  [Block!Begin \/ Block!Extend]_<<Fetches(walk), walk.rows>>
<1> DEFINE Same == UNCHANGED <<Fetches(walk), walk.rows>>
<1>4. CASE Begin
  <2>1. PICK mode : walk' = NewWalk(mode, today) BY <1>4 DEF Begin
  <2>2. walk'.completed = None /\ walk'.rows = {} BY <2>1 DEF NewWalk
  <2> QED BY <2>2 DEF Block!Begin, Fetches
<1>5. CASE Restart
  <2>1. walk' = Forgotten BY <1>5 DEF Restart
  <2>2. walk'.completed = None /\ walk'.rows = {}
    BY <2>1 DEF Forgotten, NewWalk
  <2> QED BY <2>2 DEF Block!Begin, Fetches
<1>6. CASE BudgetEnds \/ RequestFails
  <2>1. Asks /\ \E error : walk' = [Sent EXCEPT !.error = error]
    BY <1>6 DEF BudgetEnds, RequestFails, FailsWith, Sent
  <2>2. PICK error : walk' = [Sent EXCEPT !.error = error]
    BY <2>1
  <2>3. /\ SameBut(Sent, walk, {"queue", "probe", "probed"}) BY <2>1, SentAside
  <2>4. /\ walk'.completed = walk.completed /\ walk'.today = walk.today
        /\ walk'.rows = walk.rows
    BY <2>2, <2>3 DEF SameBut, Fields
  <2> QED BY <2>4 DEF Fetches
<1>7. CASE TimesOut \/ OverLimits
  <2>1. Asks /\ SameBut(Sent, walk, {"queue", "probe", "probed"})
    BY <1>7, SentAside DEF TimesOut, OverLimits
  <2>2. /\ walk'.completed = walk.completed /\ walk'.today = walk.today
        /\ walk'.rows = walk.rows
    BY <1>7, <2>1 DEF TimesOut, OverLimits, Split, SameBut, Fields
  <2> QED BY <2>2 DEF Fetches
<1>8. CASE TakeWindow
  <2>1. Asks /\ meridian' = meridian /\ (Refuses(Asked) => Start(Asked) = AllCame)
    BY <1>8 DEF TakeWindow, Answered
  <2>2. PICK page : /\ page = Answer(Asked)
                    /\ \/ walk' = [Sent EXCEPT !.error = "misread"]
                       \/ walk' = [Checked(Sent, Asked, page) EXCEPT !.error = "misread"]
                       \/ walk' = Taken(Sent, Asked, NextPart.share, page)
    BY <1>8 DEF TakeWindow, FailsWith
  <2>3. CASE \/ walk' = [Sent EXCEPT !.error = "misread"]
             \/ walk' = [Checked(Sent, Asked, page) EXCEPT !.error = "misread"]
    <3>1. PICK base : SameBut(base, walk, Aside) /\ walk' = [base EXCEPT !.error = "misread"]
      BY <2>1, <2>2, <2>3, SentAside, CheckedIs
    <3>2. /\ walk'.completed = walk.completed /\ walk'.today = walk.today
          /\ walk'.rows = walk.rows
      BY <3>1 DEF SameBut, Fields, Aside
    <3> QED BY <3>2 DEF Fetches
  <2>4. CASE walk' = Taken(Sent, Asked, NextPart.share, page)
    <3>1. PICK wk : wk = walk' /\ wk = Taken(Sent, Asked, NextPart.share, page)
      BY <2>4
    <3>2. /\ SameBut(wk, walk, TakenFields) /\ wk.completed = Asked.first
          /\ Joins(wk, page) \/ IsEmpty(wk, page)
      BY <2>1, <2>2, <3>1, TakenIs
    <3>3. wk.rows = walk.rows \cup {h \in page.inside : h >= walk.since}
      BY <3>2 DEF Joins, IsEmpty
    <3>4. /\ Held(wk, meridian.has) /\ HeldAll(wk, meridian) /\ wk.today = walk.today
      BY <2>1, <2>2, <3>1, TakenKeeps
    <3>5. wk.since = walk.since /\ wk.startAfter = None
      BY <2>1, <3>2, Asking DEF SameBut, Fields, Aside, TakenFields
    <3>6. Honest => \A h \in meridian.has :
                     /\ walk.since <= h /\ h < NowOn(walk.today)
                     /\ DayOf(h) >= Asked.first
                     => h \in wk.rows
      <4>1. Asked.first # None
        BY <2>1, SentIs, WalkAssumption DEF AWindow
      <4> QED BY <4>1, <3>2, <3>4, <3>5 DEF HeldAll, Honest
    <3>7. Block!Extend
      BY <2>1, <2>2, <3>1, <3>2, <3>3, <3>4, <3>5, <3>6, ExtendsBlock
    <3> QED BY <3>7
  <2> QED BY <2>2, <2>3, <2>4
<1>9. CASE RefuseWindow
  <2>1. /\ Asks /\ meridian' = meridian /\ Refuses(Asked)
        /\ IF Starts(Asked) THEN walk' = TakenStart(Sent, Asked, Answer(Asked))
           ELSE walk' = [Sent EXCEPT !.error = "refused"]
    BY <1>9 DEF RefuseWindow, Answered, FailsWith
  <2>2. CASE ~ Starts(Asked)
    <3>1. SameBut(Sent, walk, {"queue", "probe", "probed"}) BY <2>1, SentAside
    <3>2. /\ walk'.completed = walk.completed /\ walk'.today = walk.today
          /\ walk'.rows = walk.rows
      BY <2>1, <2>2, <3>1 DEF SameBut, Fields
    <3> QED BY <3>2 DEF Fetches
  <2>3. CASE Starts(Asked)
    <3>1. PICK wk : wk = walk' /\ wk = TakenStart(Sent, Asked, Answer(Asked))
      BY <2>1, <2>3
    <3>2. /\ Held(wk, meridian.has) /\ HeldAll(wk, meridian) /\ wk.today = walk.today
          /\ wk.since = walk.since /\ wk.completed = Asked.first
          /\ wk.startAfter = Start(Asked)
          /\ wk.rows = walk.rows \cup {h \in Answer(Asked).inside : h >= walk.since}
      BY <2>1, <2>3, <3>1, StartKeeps
    <3>3. ASSUME Honest, NEW h \in meridian.has, walk.since <= h, h < NowOn(walk.today),
                 DayOf(h) >= Asked.first
          PROVE  h \in wk.rows
      <4>1. meridian.reads = "asked" /\ Asked.first # None
        BY <2>1, <3>3, SentIs, WalkAssumption DEF Honest, AWindow
      <4>2. DayOf(h) \in Int /\ Asked.first \in Int /\ Start(Asked) \in Int
        <5>1. h \in Hours /\ Hours \subseteq Int
          BY HoursAre DEF IInv, StateOK, MeridianRecord
        <5>2. Start(Asked) \in Int
          <6>1. wk.startAfter \in Int \cup {None} /\ wk.startAfter # None
            BY <2>1, <2>3, <3>1, StartKeeps DEF WalkOK, Typed
          <6> QED BY <6>1, <3>2
        <5> QED BY <5>1, <5>2, <2>1, SentIs, DayIs DEF AWindow
      <4>3. DayOf(h) > Start(Asked)
        BY <2>1, <2>3, <3>3, <4>2, NoneBeforeStart
      <4> QED BY <3>2, <3>3, <4>1, <4>3 DEF HeldAll
    <3>4. Block!Extend
      BY <2>1, <3>1, <3>2, <3>3, ExtendsBlock
    <3> QED BY <3>4
  <2> QED BY <2>2, <2>3
<1>10. CASE Finish \/ SetUp \/ DatePasses \/ Publish \/ UNCHANGED vars
  <2>1. walk' = walk BY <1>10 DEF Finish, SetUp, DatePasses, Publish, vars
  <2> QED BY <2>1 DEF Fetches
<1> QED
  BY <1>4, <1>5, <1>6, <1>7, <1>8, <1>9, <1>10 DEF Next

\* Whatever a walk asks for, and however it stops, it has fetched one block of
\* dates back from today, with what Meridian has for them.
THEOREM FetchesBlock == Spec => FetchesOneBlock
<1>1. Init => Block!Init
  <2> SUFFICES ASSUME Init PROVE Block!Init
    OBVIOUS
  <2>1. walk = Forgotten BY DEF Init
  <2>2. walk.completed = None /\ walk.rows = {}
    BY <2>1 DEF Forgotten, NewWalk
  <2> QED BY <2>2 DEF Block!Init
<1>2. IInv /\ [Next]_vars =>
        [Block!Begin \/ Block!Extend]_<<
           IF walk.completed = None THEN {} ELSE walk.completed .. walk.today, walk.rows>>
  BY BlockStep DEF Fetches
<1> QED
  BY <1>1, <1>2, Invariance, PTL DEF Spec, FetchesOneBlock, Block!Spec

-------------------------------------------------------------------------------
(***************************************************************************)
(* Three windows in a row with readings show how Meridian reads windows:   *)
(* what a meter with no gaps has in each is known from how it reads them,  *)
(* and each wrong reading disagrees with the window before or after.       *)
(***************************************************************************)
\* Midnights are in the order of their dates.
LEMMA MidnightsGrow ==
  ASSUME NEW a \in Int, NEW b \in Int, a <= b
  PROVE  Midnight(a) \in Int /\ Midnight(b) \in Int /\ Midnight(a) <= Midnight(b)
<1>1. /\ Midnight(b) \in Int /\ Midnight(b + 1) \in Int
      /\ Midnight(b + 1) = Midnight(b) + HoursPerDay /\ Midnight(a) \in Int
  <2>1. b + 1 \in Int /\ 0 \in Int OBVIOUS
  <2> QED BY <2>1, DayIs
<1>2. PICK h \in Int : h = Midnight(b)
  BY <1>1
<1>3. h < Midnight(b + 1)
  BY <1>1, <1>2, WindowsAssumption
<1>4. DayOf(h) = b
  BY <1>1, <1>2, <1>3, DayIs
<1>5. Midnight(a) <= h
  BY <1>2, <1>4, DayIs
<1> QED BY <1>1, <1>2, <1>5

\* The midnight before is earlier.
LEMMA EarlierMidnight ==
  ASSUME NEW d \in Int
  PROVE  Midnight(d - 1) < Midnight(d)
<1>1. PICK e \in Int : e = d - 1
  OBVIOUS
<1>2. e + 1 = d
  BY <1>1
<1>3. Midnight(e) \in Int /\ Midnight(e + 1) = Midnight(e) + HoursPerDay
  BY DayIs
<1>4. HoursPerDay \in Nat /\ HoursPerDay > 0
  BY WindowsAssumption
<1>5. Midnight(e) < Midnight(e + 1)
  BY <1>3, <1>4
<1> QED BY <1>1, <1>2, <1>5

\* A date's first and last hours.
LEMMA EdgesAre ==
  ASSUME NEW t \in Dates, NEW d \in Int, 0 <= d, d <= t
  PROVE  /\ Midnight(d) \in Hours /\ DayOf(Midnight(d)) = d
         /\ Midnight(d + 1) - 1 \in Hours /\ DayOf(Midnight(d + 1) - 1) = d
         /\ d < t => Midnight(d) < NowOn(t) /\ Midnight(d + 1) - 1 < NowOn(t)
         /\ HoursPerDay > 1 => Midnight(d) < NowOn(t) /\ Midnight(d) # Midnight(d + 1) - 1
         /\ HoursPerDay = 1 => \A h \in Int : DayOf(h) = d => /\ h = Midnight(d)
                                                            /\ h = Midnight(d + 1) - 1
         /\ d < t => Midnight(d) # Midnight(t + 1) - 1 /\ Midnight(t) # Midnight(d)
<1>1. /\ HoursPerDay \in Nat /\ HoursPerDay > 0 /\ HoursPerDay \div 2 \in Int
      /\ 0 <= HoursPerDay \div 2 /\ (HoursPerDay > 1 => HoursPerDay \div 2 > 0)
  BY WindowsAssumption
<1>2. /\ t \in Int /\ t <= LastToday /\ LastToday \in Int /\ d + 1 \in Int /\ t + 1 \in Int
      /\ LastToday + 1 \in Int /\ d + 1 <= LastToday + 1
  BY WalkAssumption DEF Dates
<1>3. /\ Midnight(d) \in Int /\ Midnight(d + 1) \in Int
      /\ Midnight(d + 1) = Midnight(d) + HoursPerDay
      /\ Midnight(t) \in Int /\ Midnight(t + 1) \in Int
      /\ Midnight(t + 1) = Midnight(t) + HoursPerDay
      /\ Midnight(LastToday + 1) \in Int /\ Midnight(0) \in Int
  <2>1. \A e \in Int : Midnight(e) \in Int /\ Midnight(e + 1) = Midnight(e) + HoursPerDay
    <3>1. 0 \in Int OBVIOUS
    <3> QED BY <3>1, DayIs
  <2> QED BY <2>1, <1>2
<1>4. /\ Midnight(0) <= Midnight(d) /\ Midnight(d) <= Midnight(t)
      /\ Midnight(d + 1) <= Midnight(LastToday + 1)
      /\ d < t => Midnight(d + 1) <= Midnight(t)
  <2>1. Midnight(0) <= Midnight(d) BY MidnightsGrow
  <2>2. Midnight(d) <= Midnight(t) BY <1>2, MidnightsGrow
  <2>3. Midnight(d + 1) <= Midnight(LastToday + 1) BY <1>2, MidnightsGrow
  <2>4. d < t => Midnight(d + 1) <= Midnight(t)
    <3> SUFFICES ASSUME d < t PROVE Midnight(d + 1) <= Midnight(t)
      OBVIOUS
    <3>1. d + 1 <= t BY <1>2
    <3> QED BY <3>1, <1>2, MidnightsGrow
  <2> QED BY <2>1, <2>2, <2>3, <2>4
<1>5. PICK first \in Int : first = Midnight(d)
  BY <1>3
<1>6. PICK last \in Int : last = Midnight(d + 1) - 1
  BY <1>3
<1>7. DayOf(first) = d /\ DayOf(last) = d
  <2>1. first < Midnight(d + 1) /\ Midnight(d) <= first BY <1>1, <1>3, <1>5
  <2>2. last < Midnight(d + 1) /\ Midnight(d) <= last BY <1>1, <1>3, <1>6
  <2>3. DayOf(first) = d BY <2>1, DayIs
  <2>4. DayOf(last) = d BY <2>2, DayIs
  <2> QED BY <2>3, <2>4
<1>8. first \in Hours /\ last \in Hours
  BY <1>1, <1>3, <1>4, <1>5, <1>6 DEF Hours
<1>9. NowOn(t) = Midnight(t) + HoursPerDay \div 2
  BY DEF NowOn
<1>10. d < t => first < NowOn(t) /\ last < NowOn(t)
  BY <1>1, <1>3, <1>4, <1>5, <1>6, <1>9
<1>11. HoursPerDay > 1 => first < NowOn(t) /\ first # last
  BY <1>1, <1>3, <1>4, <1>5, <1>6, <1>9
<1>12. HoursPerDay = 1 => \A h \in Int : DayOf(h) = d => h = first /\ h = last
  <2> SUFFICES ASSUME HoursPerDay = 1, NEW h \in Int, DayOf(h) = d
               PROVE  h = first /\ h = last
    OBVIOUS
  <2>1. Midnight(d) <= h /\ h < Midnight(d + 1)
    BY DayIs
  <2> QED BY <2>1, <1>3, <1>5, <1>6
<1>13. d < t => first # Midnight(t + 1) - 1 /\ Midnight(t) # first
  BY <1>1, <1>3, <1>4, <1>5
<1> QED BY <1>5, <1>6, <1>7, <1>8, <1>10, <1>11, <1>12, <1>13

\* The page a window is kept with.
Whole(w) == Page(IF Refuses(w) THEN {Window(d, d) : d \in WindowDates(w)} ELSE {w})
Filled(w) == Whole(w).inside # {}

\* What part of a window's dates Meridian takes it to ask for.
Reads(h, v) ==
  CASE meridian.reads \in {"asked", "no start"} -> TRUE
    [] meridian.reads \in {"a day early", "no last date"} -> DayOf(h) < v.last
    [] meridian.reads \in {"a day late", "no first date"} -> v.first < DayOf(h)
    [] meridian.reads = "no first hour" -> h # Midnight(v.first)
    [] meridian.reads = "no last hour" -> h # Midnight(v.last + 1) - 1

\* The rows inside a page that a meter with no gaps has.
LEMMA ReceivedIs ==
  ASSUME meridian.reads \in Readings, meridian.has = Hours,
         NEW v \in AWindow, NEW h \in Hours, DayOf(h) \in v.first .. v.last
  PROVE  h \in Received(v) <=> h < NowOn(walk.today) /\ Reads(h, v)
<1>1. h \in Int /\ DayOf(h) \in Int /\ DayOf(h) \in Dates /\ 0 <= DayOf(h)
  <2>1. h \in Nat /\ DayOf(h) \in Dates BY HoursAre
  <2>2. DayOf(h) \in Nat BY <2>1, DayOfNat
  <2> QED BY <2>1, <2>2
<1>2. v.first \in Int /\ v.last \in Int /\ v.first <= DayOf(h) /\ DayOf(h) <= v.last
  BY <1>1 DEF AWindow
<1>3. \A a, b \in Int : h \in InWindow(Hours, Window(a, b)) <=> a <= DayOf(h) /\ DayOf(h) <= b
  BY <1>1 DEF InWindow, Window, WindowDates
<1>4. h \in InWindow(Hours, v)
  BY <1>2 DEF InWindow, WindowDates
<1>5. h \in Received(v) <=> h \in Heard(v) /\ h < NowOn(walk.today)
  BY DEF Received
<1>6. CASE meridian.reads = "asked"
  BY <1>4, <1>5, <1>6 DEF Heard, Reads
<1>7. CASE meridian.reads = "a day early"
  <2>1. Heard(v) = InWindow(Hours, Window(v.first - 1, v.last - 1))
    BY <1>7 DEF Heard
  <2>2. h \in Heard(v) <=> DayOf(h) < v.last
    BY <2>1, <1>1, <1>2, <1>3
  <2> QED BY <2>2, <1>5, <1>7 DEF Reads
<1>8. CASE meridian.reads = "a day late"
  <2>1. Heard(v) = InWindow(Hours, Window(v.first + 1, v.last + 1))
    BY <1>8 DEF Heard
  <2>2. h \in Heard(v) <=> v.first < DayOf(h)
    BY <2>1, <1>1, <1>2, <1>3
  <2> QED BY <2>2, <1>5, <1>8 DEF Reads
<1>9. CASE meridian.reads = "no first date"
  <2>1. Heard(v) = InWindow(Hours, Window(v.first + 1, v.last))
    BY <1>9 DEF Heard
  <2>2. h \in Heard(v) <=> v.first < DayOf(h)
    BY <2>1, <1>1, <1>2, <1>3
  <2> QED BY <2>2, <1>5, <1>9 DEF Reads
<1>10. CASE meridian.reads = "no last date"
  <2>1. Heard(v) = InWindow(Hours, Window(v.first, v.last - 1))
    BY <1>10 DEF Heard
  <2>2. h \in Heard(v) <=> DayOf(h) < v.last
    BY <2>1, <1>1, <1>2, <1>3
  <2> QED BY <2>2, <1>5, <1>10 DEF Reads
<1>11. CASE meridian.reads = "no first hour"
  <2>1. Heard(v) = InWindow(Hours, v) \ {Midnight(v.first)}
    BY <1>11 DEF Heard
  <2> QED BY <2>1, <1>4, <1>5, <1>11 DEF Reads
<1>12. CASE meridian.reads = "no last hour"
  <2>1. Heard(v) = InWindow(Hours, v) \ {Midnight(v.last + 1) - 1}
    BY <1>12 DEF Heard
  <2> QED BY <2>1, <1>4, <1>5, <1>12 DEF Reads
<1>13. CASE meridian.reads = "no start"
  <2>1. Heard(v) = InWindow(Hours, Window(0, v.last))
    BY <1>13 DEF Heard
  <2>2. h \in Heard(v)
    BY <2>1, <1>1, <1>2, <1>3
  <2> QED BY <2>2, <1>5, <1>13 DEF Reads
<1> QED
  BY <1>6, <1>7, <1>8, <1>9, <1>10, <1>11, <1>12, <1>13 DEF Readings

\* The window an hour is asked for in: its date, of a window that is refused.
HeardIn(h, w) == IF Refuses(w) THEN Window(DayOf(h), DayOf(h)) ELSE w

\* The rows inside the page of a window kept.
LEMMA InsideIs ==
  ASSUME meridian.reads \in Readings, meridian.has = Hours, NEW w \in AWindow, NEW h
  PROVE  h \in Whole(w).inside <=>
           /\ h \in Hours /\ h < NowOn(walk.today) /\ DayOf(h) \in w.first .. w.last
           /\ Reads(h, HeardIn(h, w))
<1>1. PICK ws : /\ ws = IF Refuses(w) THEN {Window(d, d) : d \in WindowDates(w)} ELSE {w}
                /\ Whole(w) = Page(ws)
  BY DEF Whole
<1>2. Whole(w).inside = UNION {InWindow(Received(v), v) : v \in ws}
  BY <1>1 DEF Page
<1>3. \A v : Received(v) \subseteq Hours
  BY DEF Received
<1>4. ASSUME NEW g \in Hours PROVE DayOf(g) \in Int
  <2>1. g \in Int BY HoursAre
  <2> QED BY <2>1, DayIs
<1>5. ASSUME h \in Hours, DayOf(h) \in w.first .. w.last
      PROVE  /\ HeardIn(h, w) \in ws /\ HeardIn(h, w) \in AWindow
             /\ DayOf(h) \in HeardIn(h, w).first .. HeardIn(h, w).last
             /\ \A v \in ws : DayOf(h) \in v.first .. v.last => v = HeardIn(h, w)
  <2>1. CASE Refuses(w)
    <3>1. PICK day \in Int : day = DayOf(h) BY <1>4, <1>5
    <3>2. HeardIn(h, w) = Window(day, day) BY <2>1, <3>1 DEF HeardIn
    <3>3. ws = {Window(d, d) : d \in w.first .. w.last} BY <2>1, <1>1 DEF WindowDates
    <3>4. /\ Window(day, day) \in AWindow /\ Window(day, day).first = day
          /\ Window(day, day).last = day
      BY <3>1 DEF Window, AWindow
    <3>5. ASSUME NEW v \in ws, day \in v.first .. v.last PROVE v = Window(day, day)
      <4>1. PICK d \in w.first .. w.last : v = Window(d, d) BY <3>3
      <4>2. d \in Int /\ v.first = d /\ v.last = d BY <4>1 DEF Window, AWindow
      <4>3. d = day BY <4>2, <3>1, <3>5
      <4> QED BY <4>1, <4>3
    <3>6. Window(day, day) \in ws BY <3>3, <3>1, <1>5
    <3>7. day \in day .. day BY <3>1
    <3> QED BY <3>1, <3>2, <3>4, <3>5, <3>6, <3>7
  <2>2. CASE ~ Refuses(w)
    BY <2>2, <1>1, <1>5 DEF HeardIn
  <2> QED BY <2>1, <2>2
<1>6. ASSUME h \in Whole(w).inside
      PROVE  /\ h \in Hours /\ h < NowOn(walk.today) /\ DayOf(h) \in w.first .. w.last
             /\ Reads(h, HeardIn(h, w))
  <2>1. PICK v \in ws : h \in Received(v) /\ DayOf(h) \in v.first .. v.last
    BY <1>2, <1>6 DEF InWindow, WindowDates
  <2>2. h \in Hours BY <2>1, <1>3
  <2>3. DayOf(h) \in w.first .. w.last /\ v \in AWindow
    <3>1. CASE Refuses(w)
      <4>1. PICK d \in w.first .. w.last : v = Window(d, d)
        BY <3>1, <1>1 DEF WindowDates
      <4>2. d \in Int /\ v.first = d /\ v.last = d /\ v \in AWindow
        BY <4>1 DEF Window, AWindow
      <4>3. DayOf(h) = d BY <4>2, <2>1, <2>2, <1>4
      <4> QED BY <4>1, <4>2, <4>3
    <3>2. CASE ~ Refuses(w)
      BY <3>2, <2>1, <1>1
    <3> QED BY <3>1, <3>2
  <2>4. v = HeardIn(h, w) BY <2>1, <2>2, <2>3, <1>5
  <2>5. h < NowOn(walk.today) /\ Reads(h, v)
    BY <2>1, <2>2, <2>3, ReceivedIs
  <2> QED BY <2>2, <2>3, <2>4, <2>5
<1>7. ASSUME h \in Hours, h < NowOn(walk.today), DayOf(h) \in w.first .. w.last,
             Reads(h, HeardIn(h, w))
      PROVE  h \in Whole(w).inside
  <2>1. PICK v : v = HeardIn(h, w) OBVIOUS
  <2>2. v \in ws /\ v \in AWindow /\ DayOf(h) \in v.first .. v.last
    BY <2>1, <1>5, <1>7
  <2>3. h \in Received(v)
    BY <2>1, <2>2, <1>7, ReceivedIs
  <2>4. h \in InWindow(Received(v), v)
    BY <2>2, <2>3 DEF InWindow, WindowDates
  <2> QED BY <2>2, <2>4, <1>2
<1> QED BY <1>6, <1>7

\* Two windows that a walk keeps side by side, or a window and its answer, show
\* which reading of them is wrong.
LEMMA WholeShows ==
  ASSUME meridian.reads \in Readings, meridian.has = Hours, walk.today \in Dates,
         NEW w \in AWindow, 0 <= w.first, w.first <= w.last, w.last <= walk.today
  PROVE  /\ meridian.reads \in {"asked", "no start"} =>
              \A h \in Hours : h < NowOn(walk.today) /\ DayOf(h) \in w.first .. w.last
                                 => h \in Whole(w).inside
         /\ meridian.reads \in {"no first date", "no first hour"} =>
              /\ ~ FirstHour(w, Whole(w))
              /\ Filled(w) /\ w.last < walk.today => LastHour(w, Whole(w))
         /\ meridian.reads = "no last hour" =>
              ~ LastHour(w, Whole(w)) /\ (Filled(w) => FirstHour(w, Whole(w)))
         /\ meridian.reads = "no last date" =>
              /\ InWindow(Whole(w).inside, Window(w.last, w.last)) = {}
              /\ Filled(w) => FirstHour(w, Whole(w))
         /\ meridian.reads = "a day early" /\ Filled(w) =>
              /\ Midnight(w.last) \notin Whole(w).received
              /\ w.first > 0 => Midnight(w.first - 1) \in Whole(w).before
         /\ meridian.reads = "a day late" /\ w.last + 1 < walk.today => RowsAfter(w)
<1>1. PICK a \in Int : a = w.first
  BY DEF AWindow
<1>2. PICK b \in Int : b = w.last
  BY DEF AWindow
<1>3. PICK t \in Int : t = walk.today /\ t \in Dates
  BY WalkAssumption DEF Dates
<1>4. 0 <= a /\ a <= b /\ b <= t /\ b \in Dates /\ HoursPerDay \in Nat \ {0}
  BY <1>1, <1>2, <1>3, WindowsAssumption, WalkAssumption DEF Dates
<1>5. PICK F \in Int : F = Midnight(a)
  BY DayIs
<1>6. PICK L \in Int : L = Midnight(b + 1) - 1
  <2>1. b + 1 \in Int /\ 0 \in Int OBVIOUS
  <2> QED BY <2>1, DayIs
<1>7. /\ F \in Hours /\ DayOf(F) = a /\ (a < t => F < NowOn(t))
      /\ HoursPerDay > 1 => F < NowOn(t) /\ F # Midnight(a + 1) - 1
  BY <1>3, <1>4, <1>5, EdgesAre
<1>8. /\ L \in Hours /\ DayOf(L) = b /\ (b < t => L < NowOn(t))
      /\ HoursPerDay > 1 => Midnight(b) # L
  BY <1>3, <1>4, <1>6, EdgesAre
<1>9. a < b => F # L
  BY <1>4, <1>5, <1>6, EdgesAre
<1>10. ASSUME NEW h \in Hours
       PROVE  h \in Int /\ DayOf(h) \in Int
  <2>1. h \in Int BY HoursAre
  <2> QED BY <2>1, DayIs
<1>11. ASSUME NEW h
       PROVE  h \in Whole(w).inside <=>
                h \in Hours /\ h < NowOn(t) /\ DayOf(h) \in a .. b /\ Reads(h, HeardIn(h, w))
  BY <1>1, <1>2, <1>3, InsideIs
<1>12. \A h : HeardIn(h, w) = IF Refuses(w) THEN Window(DayOf(h), DayOf(h)) ELSE w
  BY DEF HeardIn
<1>13. \A d : Window(d, d).first = d /\ Window(d, d).last = d
  BY DEF Window
<1>14. HeardIn(F, w).first = a /\ HeardIn(L, w).last = b
  BY <1>1, <1>2, <1>7, <1>8, <1>12, <1>13
\* A row of a page read a date short is of a window of more dates, not refused.
<1>15. ASSUME meridian.reads \in {"no first date", "no last date", "a day early"}, Filled(w)
       PROVE  ~ Refuses(w) /\ a < b
  <2>1. PICK h : h \in Whole(w).inside BY <1>15 DEF Filled
  <2>2. h \in Hours /\ DayOf(h) \in a .. b /\ Reads(h, HeardIn(h, w)) BY <2>1, <1>11
  <2>3. PICK d \in Int : d = DayOf(h) BY <2>2, <1>10
  <2>4. PICK v : v = HeardIn(h, w) OBVIOUS
  <2>5. DayOf(h) < v.last \/ v.first < DayOf(h)
    BY <2>2, <2>4, <1>15 DEF Reads
  <2>6. CASE Refuses(w)
    <3>1. v.first = d /\ v.last = d BY <2>3, <2>4, <2>6, <1>12, <1>13
    <3> QED BY <3>1, <2>3, <2>5
  <2>7. CASE ~ Refuses(w)
    <3>1. v = w BY <2>4, <2>7, <1>12
    <3> QED BY <3>1, <2>2, <2>3, <2>5, <2>7, <1>1, <1>2
  <2> QED BY <2>6, <2>7
\* So is one of a page read an hour short, where a date has one hour.
<1>16. ASSUME meridian.reads \in {"no first hour", "no last hour"}, Filled(w)
       PROVE  HoursPerDay > 1 \/ (~ Refuses(w) /\ a < b)
  <2> SUFFICES ASSUME HoursPerDay = 1 PROVE ~ Refuses(w) /\ a < b
    BY <1>4
  <2>1. PICK h : h \in Whole(w).inside BY <1>16 DEF Filled
  <2>2. h \in Hours /\ DayOf(h) \in a .. b /\ Reads(h, HeardIn(h, w)) BY <2>1, <1>11
  <2>3. PICK d \in Int : d = DayOf(h) BY <2>2, <1>10
  <2>4. PICK v : v = HeardIn(h, w) OBVIOUS
  <2>5. h # Midnight(v.first) \/ h # Midnight(v.last + 1) - 1
    BY <2>2, <2>4, <1>16 DEF Reads
  <2>6. h = Midnight(d) /\ h = Midnight(d + 1) - 1
    <3>1. h \in Int /\ 0 <= d /\ d <= t BY <2>2, <2>3, <1>4, <1>10
    <3> QED BY <3>1, <2>3, <1>3, EdgesAre
  <2>7. CASE Refuses(w)
    <3>1. v.first = d /\ v.last = d BY <2>3, <2>4, <2>7, <1>12, <1>13
    <3> QED BY <3>1, <2>5, <2>6
  <2>8. CASE ~ Refuses(w)
    <3>1. v.first = a /\ v.last = b BY <2>4, <2>8, <1>1, <1>2, <1>12
    <3>2. ASSUME a = b PROVE FALSE
      <4>1. d = a /\ d = b BY <3>2, <2>2, <2>3
      <4> QED BY <4>1, <3>1, <2>5, <2>6
    <3> QED BY <3>2, <2>8, <1>4
  <2> QED BY <2>7, <2>8
<1>17. FirstHour(w, Whole(w)) <=> F \in Whole(w).inside
  BY <1>1, <1>5 DEF FirstHour
<1>18. LastHour(w, Whole(w)) <=> L \in Whole(w).inside
  BY <1>2, <1>6 DEF LastHour
<1>19. a \in a .. b /\ b \in a .. b
  BY <1>4
<1>20. meridian.reads \in {"asked", "no start"} =>
         \A h \in Hours : h < NowOn(walk.today) /\ DayOf(h) \in w.first .. w.last
                            => h \in Whole(w).inside
  BY <1>1, <1>2, <1>3, <1>11 DEF Reads
<1>21. ASSUME meridian.reads = "no first date"
       PROVE  /\ ~ FirstHour(w, Whole(w))
              /\ Filled(w) /\ w.last < walk.today => LastHour(w, Whole(w))
  <2>1. ~ Reads(F, HeardIn(F, w))
    <3>1. PICK v : v = HeardIn(F, w) OBVIOUS
    <3>2. Reads(F, v) => v.first < DayOf(F) BY <1>21 DEF Reads
    <3> QED BY <3>1, <3>2, <1>1, <1>7, <1>14
  <2>2. ASSUME Filled(w), b < t PROVE L \in Whole(w).inside
    <3>1. HeardIn(L, w) = w /\ a < b BY <2>2, <1>12, <1>15, <1>21
    <3>2. Reads(L, w) BY <3>1, <1>1, <1>8, <1>21 DEF Reads
    <3> QED BY <3>1, <3>2, <2>2, <1>8, <1>11, <1>19
  <2> QED BY <2>1, <2>2, <1>2, <1>3, <1>11, <1>17, <1>18
<1>22. ASSUME meridian.reads = "no first hour"
       PROVE  /\ ~ FirstHour(w, Whole(w))
              /\ Filled(w) /\ w.last < walk.today => LastHour(w, Whole(w))
  <2>1. ~ Reads(F, HeardIn(F, w))
    BY <1>5, <1>14, <1>22 DEF Reads
  <2>2. ASSUME Filled(w), b < t PROVE L \in Whole(w).inside
    <3>1. Reads(L, HeardIn(L, w))
      <4>1. HoursPerDay > 1 \/ (~ Refuses(w) /\ a < b) BY <2>2, <1>16, <1>22
      <4>2. CASE Refuses(w)
        <5>1. HeardIn(L, w).first = b BY <4>2, <1>8, <1>12, <1>13
        <5> QED BY <5>1, <4>1, <4>2, <1>8, <1>22 DEF Reads
      <4>3. CASE ~ Refuses(w)
        <5>1. HeardIn(L, w).first = a BY <4>3, <1>1, <1>12
        <5>2. L # Midnight(a)
          <6>1. CASE a < b BY <6>1, <1>5, <1>9
          <6>2. CASE ~ (a < b)
            <7>1. a = b BY <6>2, <1>4
            <7> QED BY <7>1, <6>2, <4>1, <1>8
          <6> QED BY <6>1, <6>2
        <5> QED BY <5>1, <5>2, <1>22 DEF Reads
      <4> QED BY <4>2, <4>3
    <3> QED BY <3>1, <2>2, <1>8, <1>11, <1>19
  <2> QED BY <2>1, <2>2, <1>2, <1>3, <1>11, <1>17, <1>18
<1>23. ASSUME meridian.reads = "no last hour"
       PROVE  ~ LastHour(w, Whole(w)) /\ (Filled(w) => FirstHour(w, Whole(w)))
  <2>1. ~ Reads(L, HeardIn(L, w))
    BY <1>6, <1>14, <1>23 DEF Reads
  <2>2. ASSUME Filled(w) PROVE F \in Whole(w).inside
    <3>1. HoursPerDay > 1 \/ (~ Refuses(w) /\ a < b) BY <2>2, <1>16, <1>23
    <3>2. F < NowOn(t) BY <3>1, <1>4, <1>7
    <3>3. Reads(F, HeardIn(F, w))
      <4>1. CASE Refuses(w)
        <5>1. HeardIn(F, w).last = a BY <4>1, <1>7, <1>12, <1>13
        <5> QED BY <5>1, <4>1, <3>1, <1>7, <1>23 DEF Reads
      <4>2. CASE ~ Refuses(w)
        <5>1. HeardIn(F, w).last = b BY <4>2, <1>2, <1>12
        <5>2. F # Midnight(b + 1) - 1
          <6>1. CASE a < b BY <6>1, <1>6, <1>9
          <6>2. CASE ~ (a < b)
            <7>1. a = b BY <6>2, <1>4
            <7> QED BY <7>1, <6>2, <3>1, <1>7
          <6> QED BY <6>1, <6>2
        <5> QED BY <5>1, <5>2, <1>23 DEF Reads
      <4> QED BY <4>1, <4>2
    <3> QED BY <3>2, <3>3, <1>7, <1>11, <1>19
  <2> QED BY <2>1, <2>2, <1>11, <1>17, <1>18
<1>24. ASSUME meridian.reads = "no last date"
       PROVE  /\ InWindow(Whole(w).inside, Window(w.last, w.last)) = {}
              /\ Filled(w) => FirstHour(w, Whole(w))
  <2>1. ASSUME NEW h \in Whole(w).inside PROVE DayOf(h) \notin b .. b
    <3>1. h \in Hours /\ DayOf(h) \in a .. b /\ Reads(h, HeardIn(h, w)) BY <1>11
    <3>2. PICK d \in Int : d = DayOf(h) BY <3>1, <1>10
    <3>3. DayOf(h) < HeardIn(h, w).last BY <3>1, <1>24 DEF Reads
    <3>4. HeardIn(h, w).last \in {d, b} BY <3>2, <1>2, <1>12, <1>13
    <3> QED BY <3>2, <3>3, <3>4
  <2>2. InWindow(Whole(w).inside, Window(w.last, w.last)) = {}
    BY <2>1, <1>2, <1>13 DEF InWindow, WindowDates
  <2>3. ASSUME Filled(w) PROVE F \in Whole(w).inside
    <3>1. HeardIn(F, w) = w /\ a < b BY <2>3, <1>12, <1>15, <1>24
    <3>2. Reads(F, w) BY <3>1, <1>2, <1>7, <1>24 DEF Reads
    <3>3. F < NowOn(t) BY <3>1, <1>4, <1>7
    <3> QED BY <3>1, <3>2, <3>3, <1>7, <1>11, <1>19
  <2> QED BY <2>2, <2>3, <1>17
<1>25. ASSUME meridian.reads = "a day early", Filled(w)
       PROVE  /\ Midnight(w.last) \notin Whole(w).received
              /\ w.first > 0 => Midnight(w.first - 1) \in Whole(w).before
  <2>1. ~ Refuses(w) BY <1>15, <1>25
  <2>2. /\ Whole(w).received = Received(w)
        /\ Whole(w).before = {h \in Received(w) : DayOf(h) < w.first}
    BY <2>1 DEF Whole, Page
  <2>3. PICK h : h = Midnight(b) OBVIOUS
  <2>4. h \in Hours /\ DayOf(h) = b BY <2>3, <1>3, <1>4, EdgesAre
  <2>5. DayOf(h) \in w.first .. w.last BY <2>4, <1>1, <1>2, <1>19
  <2>6. ~ Reads(h, w)
    <3>1. Reads(h, w) => DayOf(h) < w.last BY <1>25 DEF Reads
    <3> QED BY <3>1, <2>4, <1>2
  <2>7. h \notin Received(w) BY <2>4, <2>5, <2>6, ReceivedIs
  <2>8. ASSUME a > 0 PROVE Midnight(a - 1) \in Whole(w).before
    <3>1. a - 1 \in Int /\ 0 <= a - 1 /\ a - 1 <= t /\ a - 1 < t BY <2>8, <1>4
    <3>2. PICK g : g = Midnight(a - 1) OBVIOUS
    <3>3. g \in Hours /\ DayOf(g) = a - 1 /\ g < NowOn(t)
      BY <3>1, <3>2, <1>3, EdgesAre
    <3>4. Heard(w) = InWindow(Hours, Window(w.first - 1, w.last - 1))
      BY <1>25 DEF Heard
    <3>5. a - 1 \in a - 1 .. b - 1 BY <1>4
    <3>6. g \in Heard(w)
      BY <3>3, <3>4, <3>5, <1>1, <1>2 DEF InWindow, WindowDates, Window
    <3>7. g \in Received(w)
      BY <3>3, <3>6, <1>3 DEF Received
    <3>8. DayOf(g) < w.first BY <3>3, <1>1
    <3> QED BY <3>2, <3>7, <3>8, <2>2
  <2> QED BY <2>2, <2>3, <2>7, <2>8, <1>1, <1>2
<1>26. ASSUME meridian.reads = "a day late", b + 1 < t
       PROVE  RowsAfter(w)
  <2>1. b + 1 \in Int /\ 0 <= b + 1 /\ b + 1 <= t
    <3>1. b + 1 \in Int OBVIOUS
    <3>2. 0 <= b + 1 BY <1>4
    <3>3. b + 1 <= t
      <4>1. b + 1 < t BY <1>26
      <4>2. b \in Int /\ t \in Int OBVIOUS
      <4>3. b + 1 <= t BY <4>1, <4>2
      <4> QED BY <4>3
    <3> QED BY <3>1, <3>2, <3>3
  <2>2. PICK h : h = Midnight(b + 1) OBVIOUS
  <2>3. h \in Hours /\ DayOf(h) = b + 1 /\ h < NowOn(t)
    BY <2>1, <2>2, <1>3, <1>26, EdgesAre
  <2>4. Heard(w) = InWindow(Hours, Window(w.first + 1, w.last + 1))
    BY <1>26 DEF Heard
  <2>5. b + 1 \in a + 1 .. b + 1 BY <1>4
  <2>6. h \in Received(w)
    BY <2>3, <2>4, <2>5, <1>1, <1>2, <1>3 DEF Received, InWindow, WindowDates, Window
  <2>7. DayOf(h) > w.last BY <2>3, <1>2
  <2> QED BY <2>6, <2>7 DEF RowsAfter
<1>27. meridian.reads = "a day late" /\ w.last + 1 < walk.today => RowsAfter(w)
  BY <1>2, <1>3, <1>26
<1> QED
  BY <1>20, <1>21, <1>22, <1>23, <1>24, <1>25, <1>27

\* The page each window would be kept with.
Pages == [w \in AWindow |-> Whole(w)]

\* The windows kept, and the rows held of each.
Placed(wk, pages) ==
  \A k \in 1 .. Len(wk.kept) :
    /\ wk.completed # None /\ wk.completed <= wk.kept[k].first
    /\ wk.kept[k].first <= wk.kept[k].last /\ wk.kept[k].last <= wk.today
    /\ InWindow(wk.rows, wk.kept[k]) = {h \in pages[wk.kept[k]].inside : wk.since <= h}

\* What the checks hold of the oldest window kept.
OldestIs(wk, pages, reads, w) ==
  /\ wk.newer = [first |-> w.first, firstHour |-> FirstHour(w, pages[w]),
                 inside |-> pages[w].inside # {}]
  /\ reads = "a day early" /\ pages[w].inside # {} /\ w.first > 0 =>
       Midnight(w.first - 1) \in wk.before

\* What they have counted of the two oldest, if both have readings.
PairIs(wk, pages, reads, newer, older) ==
  pages[newer].inside # {} /\ pages[older].inside # {} =>
    /\ reads # "a day early"
    /\ reads \in {"no first date", "no first hour", "no last hour"} => wk.oneSided >= 1
    /\ reads = "no last date" => wk.missingLast >= 1

Found(wk, pages, reads) ==
  /\ wk.oneSided \in Nat /\ wk.missingLast \in Nat
  /\ Placed(wk, pages)
  /\ Len(wk.kept) > 0 => OldestIs(wk, pages, reads, wk.kept[Len(wk.kept)])
  /\ Len(wk.kept) > 1 =>
       PairIs(wk, pages, reads, wk.kept[Len(wk.kept) - 1], wk.kept[Len(wk.kept)])
  /\ \A k \in 3 .. Len(wk.kept) :
       (\A j \in k - 2 .. k : pages[wk.kept[j]].inside # {}) => reads \in {"asked", "no start"}

\* The inductive invariant about misreadings, of a meter with no gaps.
FInv ==
  phase # "idle" /\ walk.error = None /\ meridian.has = Hours =>
    Found(walk, Pages, meridian.reads)

\* The page of a window does not change while it is walked.
LEMMA PagesKept ==
  ASSUME meridian' = meridian, walk'.today = walk.today
  PROVE  Pages' = Pages
<1>1. ASSUME NEW v PROVE Received(v)' = Received(v)
  <2>1. Heard(v)' = Heard(v) BY DEF Heard
  <2> QED BY <2>1 DEF Received
<1>2. ASSUME NEW w PROVE Refuses(w)' = Refuses(w)
  BY DEF Refuses
<1>3. ASSUME NEW ws PROVE Page(ws)' = Page(ws)
  BY <1>1 DEF Page
<1>4. ASSUME NEW w PROVE Whole(w)' = Whole(w)
  BY <1>2, <1>3 DEF Whole
<1> QED BY <1>4 DEF Pages

\* A window that is kept leaves what its checks found.
LEMMA TakenChecks ==
  ASSUME IInv, Asks, NEW page, page = Answer(Asked),
         NEW wk, wk = Taken(Sent, Asked, NextPart.share, page)
  PROVE  /\ wk.before = {h \in walk.before \cup page.before : h < Midnight(Asked.first)}
         /\ wk.newer = [first |-> Asked.first, firstHour |-> FirstHour(Asked, page),
                        inside |-> page.inside # {}]
         /\ wk.missingLast = IF NextTo(walk, Asked) /\ MissesLast(walk, Asked, page)
                             THEN walk.missingLast + 1 ELSE 0
         /\ wk.oneSided = IF NextTo(walk, Asked) /\ OneSided(walk, Asked, page)
                          THEN walk.oneSided + 1 ELSE 0
         /\ wk.missingLast = Checked(Sent, Asked, page).missingLast
         /\ wk.oneSided = Checked(Sent, Asked, page).oneSided
<1>1. PICK c : c = Checked(Sent, Asked, page)
  OBVIOUS
<1>2. /\ Fields \subseteq DOMAIN Sent /\ Sent.before = walk.before /\ Sent.newer = walk.newer
      /\ Sent.missingLast = walk.missingLast /\ Sent.oneSided = walk.oneSided
  BY SentIs DEF SameBut, Fields
<1>3. /\ NextTo(Sent, Asked) <=> NextTo(walk, Asked)
      /\ MissesLast(Sent, Asked, page) <=> MissesLast(walk, Asked, page)
      /\ OneSided(Sent, Asked, page) <=> OneSided(walk, Asked, page)
  BY <1>2 DEF NextTo, MissesLast, OneSided
<1>4. /\ Fields \subseteq DOMAIN c
      /\ c.before = {h \in walk.before \cup page.before : h < Midnight(Asked.first)}
      /\ c.newer = [first |-> Asked.first, firstHour |-> FirstHour(Asked, page),
                    inside |-> page.inside # {}]
      /\ c.missingLast = IF NextTo(walk, Asked) /\ MissesLast(walk, Asked, page)
                         THEN walk.missingLast + 1 ELSE 0
      /\ c.oneSided = IF NextTo(walk, Asked) /\ OneSided(walk, Asked, page)
                      THEN walk.oneSided + 1 ELSE 0
  BY <1>1, <1>2, <1>3 DEF Checked, Fields
<1> DEFINE Checks(x) == /\ Fields \subseteq DOMAIN x /\ x.before = c.before
                        /\ x.newer = c.newer /\ x.missingLast = c.missingLast
                        /\ x.oneSided = c.oneSided
<1>5. PICK b : b = [c EXCEPT !.kept = Append(@, Asked)]
  OBVIOUS
<1>6. Checks(b)
  BY <1>4, <1>5 DEF Fields
<1>7. PICK took : /\ took = IF page.inside # {} THEN Added(b, page)
                             ELSE TakenEmpty(b, Asked, NextPart.share)
                  /\ wk = [took EXCEPT !.completed = Asked.first]
  BY <1>1, <1>5 DEF Taken
<1>8. Checks(Added(b, page))
  BY <1>6 DEF Added, Fields
<1>9. Checks(Emptier(b, NextPart.share))
  BY <1>6 DEF Emptier, Fields
<1>10. Checks(TakenEmpty(b, Asked, NextPart.share))
  <2>1. Checks([b EXCEPT !.gap = TRUE, !.ended = TRUE])
    BY <1>6 DEF Fields
  <2>2. Checks([b EXCEPT !.ended = b.quiet])
    BY <1>6 DEF Fields
  <2>3. \/ TakenEmpty(b, Asked, NextPart.share) = [b EXCEPT !.gap = TRUE, !.ended = TRUE]
        \/ TakenEmpty(b, Asked, NextPart.share) = [b EXCEPT !.ended = b.quiet]
        \/ TakenEmpty(b, Asked, NextPart.share) = b
        \/ TakenEmpty(b, Asked, NextPart.share) = Emptier(b, NextPart.share)
    BY DEF TakenEmpty
  <2> HIDE DEF Checks
  <2> QED BY <2>1, <2>2, <2>3, <1>6, <1>9
<1>11. Checks(took)
  <2> HIDE DEF Checks
  <2> QED BY <1>7, <1>8, <1>10
<1>12. Checks(wk)
  BY <1>7, <1>11 DEF Fields
<1> QED BY <1>1, <1>4, <1>12

\* The page a window is kept with, all of whose dates came.
LEMMA AnswerIs ==
  ASSUME IInv, Asks, Refuses(Asked) => Start(Asked) = AllCame
  PROVE  Answer(Asked) = Pages[Asked]
<1>1. Asked \in AWindow
  BY SentIs
<1>2. Refuses(Asked) => KeptDates(Asked, Start(Asked)) = WindowDates(Asked)
  BY WindowsAssumption DEF KeptDates
<1> QED BY <1>1, <1>2 DEF Answer, Pages, Whole

\* The windows kept with one more, and the dates of both.
LEMMA PlacedMore ==
  ASSUME IInv, Asks, Placed(walk, Pages), NEW page, page = Answer(Asked),
         page = Pages[Asked], NEW wk, wk = Taken(Sent, Asked, NextPart.share, page)
  PROVE  Placed(wk, Pages)
<1>1. /\ SameBut(wk, walk, TakenFields)
      /\ wk.kept = Append(walk.kept, Asked) /\ wk.completed = Asked.first
      /\ Joins(wk, page) \/ IsEmpty(wk, page)
  BY TakenIs
<1>2. wk.today = walk.today /\ wk.since = walk.since
  BY <1>1 DEF SameBut, Fields, Aside, TakenFields
<1>3. /\ walk.kept \in Seq(AWindow) /\ Asked \in AWindow /\ walk.rows \subseteq Hours
      /\ walk.completed \in Int \cup {None} /\ None \notin Int
  BY SentIs, WalkAssumption DEF IInv, WalkOK, Typed
<1>4. PICK n \in Nat : n = Len(walk.kept)
  BY <1>3, LenProperties
<1>5. /\ Len(wk.kept) = n + 1 /\ wk.kept[n + 1] = Asked
      /\ \A k \in 1 .. n : wk.kept[k] = walk.kept[k]
  BY <1>1, <1>3, <1>4, AppendProperties
<1>6. /\ Asked.first \in Int /\ Asked.last \in Int /\ Asked.first <= Asked.last
      /\ Asked.last <= walk.today /\ Asked.last = Newest(walk)
  BY <1>3, SentIs DEF AWindow
<1>7. /\ \A h \in walk.rows : walk.completed # None /\ DayOf(h) >= walk.completed
      /\ \A h \in page.inside : h \in Hours /\ Asked.first <= DayOf(h) /\ DayOf(h) <= Asked.last
  BY PageIs DEF IInv, Fetched, Held
<1>8. ASSUME NEW h \in Hours PROVE DayOf(h) \in Int
  <2>1. h \in Int BY HoursAre
  <2> QED BY <2>1, DayIs
<1>9. /\ wk.rows = walk.rows \cup {h \in page.inside : walk.since <= h}
  <2>1. walk.since \in Int /\ Hours \subseteq Int
    BY HoursAre DEF IInv, WalkOK, Typed
  <2>2. {h \in page.inside : h >= walk.since} = {h \in page.inside : walk.since <= h}
    BY <2>1, <1>7
  <2>3. CASE Joins(wk, page)
    BY <2>2, <2>3 DEF Joins
  <2>4. CASE IsEmpty(wk, page)
    BY <2>4 DEF IsEmpty
  <2> QED BY <2>3, <2>4, <1>1
\* The newer windows are after the date it ends on.
<1>10. ASSUME NEW k \in 1 .. n
       PROVE  /\ Asked.last < walk.kept[k].first /\ walk.kept[k] \in AWindow
              /\ InWindow(wk.rows, walk.kept[k]) = InWindow(walk.rows, walk.kept[k])
  <2>1. walk.kept[k] \in AWindow
    BY <1>3, <1>4, ElementOfSeq
  <2>2. PICK w \in AWindow : w = walk.kept[k]
    BY <2>1
  <2>3. w.first \in Int /\ w.last \in Int BY <2>2 DEF AWindow
  <2>4. walk.completed # None /\ walk.completed <= w.first
    BY <1>4, <2>2 DEF Placed
  <2>5. Asked.last = walk.completed - 1 /\ walk.completed \in Int
    BY <2>4, <1>3, <1>6 DEF Newest
  <2>6. Asked.last < w.first
    BY <2>3, <2>4, <2>5
  <2>7. ASSUME NEW h \in page.inside PROVE DayOf(h) \notin WindowDates(w)
    <3>1. DayOf(h) <= Asked.last /\ DayOf(h) \in Int BY <1>7, <1>8
    <3>2. DayOf(h) < w.first BY <3>1, <2>3, <2>6, <1>6
    <3> QED BY <3>1, <3>2, <2>3 DEF WindowDates
  <2>8. InWindow(wk.rows, w) = InWindow(walk.rows, w)
    BY <2>7, <1>9 DEF InWindow
  <2> QED BY <2>2, <2>6, <2>8
\* None of the rows held is of its own dates.
<1>11. InWindow(wk.rows, Asked) = {h \in page.inside : walk.since <= h}
  <2>1. ASSUME NEW h \in walk.rows PROVE DayOf(h) \notin WindowDates(Asked)
    <3>1. /\ walk.completed \in Int /\ DayOf(h) >= walk.completed /\ DayOf(h) \in Int
          /\ Asked.last = walk.completed - 1
      BY <1>3, <1>6, <1>7, <1>8 DEF Newest
    <3> QED BY <3>1, <1>6 DEF WindowDates
  <2>2. ASSUME NEW h \in page.inside PROVE DayOf(h) \in WindowDates(Asked)
    <3>1. DayOf(h) \in Int BY <1>7, <1>8
    <3> QED BY <3>1, <1>6, <1>7 DEF WindowDates
  <2> QED BY <2>1, <2>2, <1>9 DEF InWindow
<1>12. ASSUME NEW k \in 1 .. n + 1
       PROVE  /\ wk.completed # None /\ wk.completed <= wk.kept[k].first
              /\ wk.kept[k].first <= wk.kept[k].last /\ wk.kept[k].last <= wk.today
              /\ InWindow(wk.rows, wk.kept[k]) = {h \in Pages[wk.kept[k]].inside : wk.since <= h}
  <2>1. wk.completed # None BY <1>1, <1>3, <1>6
  <2>2. CASE k = n + 1
    BY <2>1, <2>2, <1>1, <1>2, <1>5, <1>6, <1>11
  <2>3. CASE k # n + 1
    <3>1. k \in 1 .. n BY <2>3
    <3>2. PICK w \in AWindow : w = walk.kept[k] /\ w = wk.kept[k]
      BY <3>1, <1>5, <1>10
    <3>3. /\ Asked.last < w.first /\ InWindow(wk.rows, w) = InWindow(walk.rows, w)
      BY <3>1, <3>2, <1>10
    <3>4. /\ w.first <= w.last /\ w.last <= walk.today
          /\ InWindow(walk.rows, w) = {h \in Pages[w].inside : walk.since <= h}
      BY <3>1, <3>2, <1>4 DEF Placed
    <3>5. w.first \in Int BY <3>2 DEF AWindow
    <3>6. Asked.first <= w.first BY <3>3, <3>5, <1>6
    <3> QED BY <3>2, <3>3, <3>4, <3>6, <2>1, <1>1, <1>2
  <2> QED BY <2>2, <2>3
<1> QED BY <1>5, <1>12 DEF Placed

\* Of the two oldest windows kept, both with readings, the checks see a reading
\* that is not the one asked for, and count it.
LEMMA PairShows ==
  ASSUME IInv, Asks, meridian.has = Hours, Found(walk, Pages, meridian.reads),
         NEW page, page = Pages[Asked], NEW n \in Nat \ {0}, n = Len(walk.kept),
         NEW newer, newer = walk.kept[n],
         Pages[newer].inside # {}, page.inside # {},
         Passes(Sent, Asked, page)
  PROVE  /\ NextTo(walk, Asked) /\ meridian.reads # "a day early"
         /\ meridian.reads \in {"no first date", "no first hour", "no last hour"} =>
              OneSided(walk, Asked, page)
         /\ meridian.reads = "no last date" => MissesLast(walk, Asked, page)
<1>1. /\ walk.kept \in Seq(AWindow) /\ Asked \in AWindow /\ walk.today \in Dates
      /\ meridian.reads \in Readings /\ walk.completed \in Int \cup {None}
  BY SentIs DEF IInv, WalkOK, Typed, StateOK, MeridianRecord
<1>2. newer \in AWindow
  <2>1. n \in 1 .. Len(walk.kept) OBVIOUS
  <2> QED BY <2>1, <1>1, ElementOfSeq
<1>3. page = Whole(Asked) /\ Pages[newer] = Whole(newer)
  BY <1>1, <1>2 DEF Pages
<1>4. /\ Asked.first \in Int /\ Asked.last \in Int /\ newer.first \in Int
      /\ newer.last \in Int /\ walk.today \in Int /\ Asked.last \in Dates
      /\ 0 <= Asked.first /\ Asked.first <= Asked.last
  BY <1>1, <1>2, SentIs, WalkAssumption DEF AWindow, Dates
<1>5. newer.first = Asked.last + 1 /\ newer.first <= newer.last /\ newer.last <= walk.today
  <2>1. n \in 1 .. Len(walk.kept) /\ walk.kept # <<>>
    BY <1>1, EmptySeq
  <2>2. /\ newer.first <= newer.last /\ newer.last <= walk.today /\ walk.completed # None
    BY <2>1 DEF Found, Placed
  <2>3. walk.completed = newer.first
    BY <2>1, Asking DEF IInv, WalkOK, Kept
  <2>4. Asked.last = Newest(walk)
    BY SentIs
  <2> QED BY <2>2, <2>3, <2>4, <1>4 DEF Newest
<1>6. Asked.last < walk.today /\ Asked.last <= walk.today /\ 0 <= newer.first /\ 0 <= Asked.last
      /\ newer.first > 0 /\ newer.first - 1 = Asked.last
      /\ Asked.last \in Asked.first .. Asked.last
  BY <1>4, <1>5
<1>7. Filled(Asked) /\ Filled(newer)
  BY <1>3 DEF Filled
<1>8. OldestIs(walk, Pages, meridian.reads, newer)
  <2>1. Len(walk.kept) > 0 /\ newer = walk.kept[Len(walk.kept)]
    OBVIOUS
  <2>2. OldestIs(walk, Pages, meridian.reads, walk.kept[Len(walk.kept)])
    BY <2>1 DEF Found
  <2> QED BY <2>1, <2>2
<1>9. /\ \E h \in BOOLEAN :
           walk.newer = [first |-> newer.first, firstHour |-> h, inside |-> TRUE]
      /\ walk.newer.first = newer.first /\ walk.newer.inside = TRUE
      /\ FirstHour(newer, Whole(newer)) => walk.newer.firstHour = TRUE
      /\ ~ FirstHour(newer, Whole(newer)) => walk.newer.firstHour = FALSE
  <2>1. walk.newer = [first |-> newer.first, firstHour |-> FirstHour(newer, Pages[newer]),
                      inside |-> Pages[newer].inside # {}]
    BY <1>8 DEF OldestIs
  <2>2. PICK h \in BOOLEAN : h <=> FirstHour(newer, Pages[newer])
    OBVIOUS
  <2>3. (FirstHour(newer, Pages[newer])) = h
    BY <2>2 DEF FirstHour
  <2>4. (Pages[newer].inside # {}) = TRUE
    OBVIOUS
  <2>5. walk.newer = [first |-> newer.first, firstHour |-> h, inside |-> TRUE]
    BY <2>1, <2>3, <2>4, Zenon
  <2>6. walk.newer.first = newer.first /\ walk.newer.inside = TRUE /\ walk.newer.firstHour = h
    BY <2>5
  <2> QED BY <1>3, <2>2, <2>5, <2>6
<1>10. NextTo(walk, Asked)
  <2>1. walk.newer # None
    <3>1. PICK h \in BOOLEAN :
            walk.newer = [first |-> newer.first, firstHour |-> h, inside |-> TRUE]
      BY <1>9
    <3>2. PICK first \in Int : first = newer.first
      BY <1>4
    <3>3. walk.newer \in [first : Int, firstHour : BOOLEAN, inside : BOOLEAN]
      BY <3>1, <3>2
    <3>4. None \notin [first : Int, firstHour : BOOLEAN, inside : BOOLEAN]
      BY WalkAssumption
    <3> QED BY <3>3, <3>4
  <2> QED BY <2>1, <1>5, <1>9 DEF NextTo
<1>11. meridian.reads # "a day early"
  <2> SUFFICES ASSUME meridian.reads = "a day early" PROVE FALSE
    OBVIOUS
  <2>1. Midnight(Asked.last) \in walk.before
    BY <1>6, <1>8 DEF OldestIs
  <2>2. Midnight(Asked.last) \notin page.received
    BY <1>1, <1>3, <1>4, <1>6, <1>7, WholeShows
  <2>3. DayOf(Midnight(Asked.last)) = Asked.last
    BY <1>1, <1>4, <1>6, EdgesAre
  <2>4. Asked.last \in WindowDates(Asked)
    BY <1>6 DEF WindowDates
  <2>5. Sent.before = walk.before
    BY SentIs DEF SameBut, Fields
  <2>6. InWindow(walk.before, Asked) \subseteq page.received
    BY <2>5 DEF Passes
  <2> QED BY <2>1, <2>2, <2>3, <2>4, <2>6 DEF InWindow
<1>12. ASSUME meridian.reads \in {"no first date", "no first hour"}
       PROVE  OneSided(walk, Asked, page)
  <2>1. ~ FirstHour(newer, Whole(newer))
    BY <1>1, <1>2, <1>5, <1>6, <1>12, WholeShows
  <2>2. LastHour(Asked, page)
    BY <1>1, <1>3, <1>4, <1>6, <1>7, <1>12, WholeShows
  <2> QED BY <2>1, <2>2, <1>9 DEF OneSided
<1>13. ASSUME meridian.reads = "no last hour"
       PROVE  OneSided(walk, Asked, page)
  <2>1. FirstHour(newer, Whole(newer))
    BY <1>1, <1>2, <1>5, <1>6, <1>7, <1>13, WholeShows
  <2>2. ~ LastHour(Asked, page)
    BY <1>1, <1>3, <1>4, <1>6, <1>13, WholeShows
  <2> QED BY <2>1, <2>2, <1>9 DEF OneSided
<1>14. ASSUME meridian.reads = "no last date"
       PROVE  MissesLast(walk, Asked, page)
  <2>1. FirstHour(newer, Whole(newer))
    BY <1>1, <1>2, <1>5, <1>6, <1>7, <1>14, WholeShows
  <2>2. InWindow(page.inside, Window(Asked.last, Asked.last)) = {}
    BY <1>1, <1>3, <1>4, <1>6, <1>14, WholeShows
  <2> QED BY <2>1, <2>2, <1>9 DEF MissesLast
<1> QED BY <1>10, <1>11, <1>12, <1>13, <1>14

\* A third window in a row with readings is taken of windows read as asked alone.
LEMMA TakenFound ==
  ASSUME IInv, Asks, meridian.has = Hours, Found(walk, Pages, meridian.reads),
         Refuses(Asked) => Start(Asked) = AllCame, ~ RowsAfter(Asked),
         NEW page, page = Answer(Asked), Passes(Sent, Asked, page),
         NEW wk, wk = Taken(Sent, Asked, NextPart.share, page)
  PROVE  Found(wk, Pages, meridian.reads)
<1>1. /\ walk.kept \in Seq(AWindow) /\ Asked \in AWindow /\ walk.today \in Dates
      /\ meridian.reads \in Readings
  BY SentIs DEF IInv, WalkOK, Typed, StateOK, MeridianRecord
<1>2. page = Pages[Asked] /\ page = Whole(Asked)
  BY <1>1, AnswerIs DEF Pages
<1>3. PICK n \in Nat : n = Len(walk.kept)
  BY <1>1, LenProperties
<1>4. wk.kept = Append(walk.kept, Asked)
  BY TakenIs
<1>5. /\ Len(wk.kept) = n + 1 /\ wk.kept[n + 1] = Asked
      /\ \A k \in 1 .. n : wk.kept[k] = walk.kept[k]
  BY <1>1, <1>3, <1>4, AppendProperties
<1>6. /\ wk.before = {h \in walk.before \cup page.before : h < Midnight(Asked.first)}
      /\ wk.newer = [first |-> Asked.first, firstHour |-> FirstHour(Asked, page),
                     inside |-> page.inside # {}]
      /\ wk.missingLast = IF NextTo(walk, Asked) /\ MissesLast(walk, Asked, page)
                          THEN walk.missingLast + 1 ELSE 0
      /\ wk.oneSided = IF NextTo(walk, Asked) /\ OneSided(walk, Asked, page)
                       THEN walk.oneSided + 1 ELSE 0
      /\ wk.missingLast = Checked(Sent, Asked, page).missingLast
      /\ wk.oneSided = Checked(Sent, Asked, page).oneSided
  BY TakenChecks
<1>7. wk.missingLast <= 1 /\ wk.oneSided <= 1
  BY <1>6 DEF Passes
<1>8. walk.oneSided \in Nat /\ walk.missingLast \in Nat /\ Placed(walk, Pages)
  BY DEF Found
<1>9. wk.oneSided \in Nat /\ wk.missingLast \in Nat
  BY <1>6, <1>8
<1>10. Placed(wk, Pages)
  BY <1>2, <1>8, PlacedMore
<1>11. /\ Asked.first \in Int /\ Asked.last \in Int /\ walk.today \in Int
       /\ 0 <= Asked.first /\ Asked.first <= Asked.last /\ Asked.last <= walk.today
  BY <1>1, SentIs, WalkAssumption DEF AWindow, Dates
<1>12. OldestIs(wk, Pages, meridian.reads, Asked)
  <2>1. ASSUME meridian.reads = "a day early", page.inside # {}, Asked.first > 0
        PROVE  Midnight(Asked.first - 1) \in wk.before
    <3>1. Filled(Asked) BY <2>1, <1>2 DEF Filled
    <3>2. Midnight(Asked.first - 1) \in page.before
      BY <2>1, <3>1, <1>1, <1>2, <1>11, WholeShows
    <3>3. Midnight(Asked.first - 1) < Midnight(Asked.first)
      BY <1>11, EarlierMidnight
    <3> QED BY <3>2, <3>3, <1>6
  <2> QED BY <2>1, <1>2, <1>6 DEF OldestIs
<1>13. ASSUME n > 0, NEW newer, newer = walk.kept[n], Pages[newer].inside # {},
              page.inside # {}
       PROVE  /\ meridian.reads # "a day early"
              /\ meridian.reads \in {"no first date", "no first hour", "no last hour"} =>
                   wk.oneSided = walk.oneSided + 1
              /\ meridian.reads = "no last date" => wk.missingLast = walk.missingLast + 1
  <2>1. n \in Nat \ {0} BY <1>3, <1>13
  <2>2. /\ NextTo(walk, Asked) /\ meridian.reads # "a day early"
        /\ meridian.reads \in {"no first date", "no first hour", "no last hour"} =>
             OneSided(walk, Asked, page)
        /\ meridian.reads = "no last date" => MissesLast(walk, Asked, page)
    BY <2>1, <1>2, <1>3, <1>13, PairShows
  <2> QED BY <2>2, <1>6
<1>14. n > 0 => PairIs(wk, Pages, meridian.reads, wk.kept[n], Asked)
  <2> SUFFICES ASSUME n > 0, Pages[wk.kept[n]].inside # {}, Pages[Asked].inside # {}
               PROVE  /\ meridian.reads # "a day early"
                      /\ meridian.reads \in {"no first date", "no first hour", "no last hour"} =>
                           wk.oneSided >= 1
                      /\ meridian.reads = "no last date" => wk.missingLast >= 1
    BY DEF PairIs
  <2>1. n \in 1 .. n BY <1>3
  <2>2. PICK newer : newer = walk.kept[n] /\ newer = wk.kept[n] BY <2>1, <1>5
  <2>3. /\ meridian.reads # "a day early"
        /\ meridian.reads \in {"no first date", "no first hour", "no last hour"} =>
             wk.oneSided = walk.oneSided + 1
        /\ meridian.reads = "no last date" => wk.missingLast = walk.missingLast + 1
    BY <2>2, <1>2, <1>13
  <2>4. walk.oneSided + 1 >= 1 /\ walk.missingLast + 1 >= 1 BY <1>8
  <2> QED BY <2>3, <2>4
\* Two windows counted already, the third would be one too many.
<1>15. ASSUME n > 1, \A j \in n - 1 .. n + 1 : Pages[wk.kept[j]].inside # {}
       PROVE  meridian.reads \in {"asked", "no start"}
  <2>1. /\ n - 1 \in n - 1 .. n + 1 /\ n \in n - 1 .. n + 1 /\ n + 1 \in n - 1 .. n + 1
        /\ n \in 1 .. n /\ n - 1 \in 1 .. n /\ n > 0
    BY <1>3, <1>15
  <2>2. PICK newest : newest = walk.kept[n - 1] /\ newest = wk.kept[n - 1] BY <2>1, <1>5
  <2>3. PICK newer : newer = walk.kept[n] /\ newer = wk.kept[n] BY <2>1, <1>5
  <2>4. Pages[newest].inside # {} /\ Pages[newer].inside # {} /\ page.inside # {}
    BY <2>1, <2>2, <2>3, <1>2, <1>5, <1>15
  <2>5. /\ meridian.reads # "a day early"
        /\ meridian.reads \in {"no first date", "no first hour", "no last hour"} =>
             wk.oneSided = walk.oneSided + 1
        /\ meridian.reads = "no last date" => wk.missingLast = walk.missingLast + 1
    BY <2>1, <2>3, <2>4, <1>13
  <2>6. PairIs(walk, Pages, meridian.reads, newest, newer)
    <3>1. Len(walk.kept) > 1 BY <1>3, <1>15
    <3>2. PairIs(walk, Pages, meridian.reads, walk.kept[Len(walk.kept) - 1],
                 walk.kept[Len(walk.kept)])
      BY <3>1 DEF Found
    <3> QED BY <3>2, <2>2, <2>3, <1>3
  <2>7. /\ meridian.reads \in {"no first date", "no first hour", "no last hour"} =>
             walk.oneSided >= 1
        /\ meridian.reads = "no last date" => walk.missingLast >= 1
    BY <2>4, <2>6 DEF PairIs
  <2>8. ~ (walk.oneSided + 1 <= 1 /\ walk.oneSided >= 1)
        /\ ~ (walk.missingLast + 1 <= 1 /\ walk.missingLast >= 1)
    BY <1>8
  <2>9. meridian.reads \notin {"no first date", "no first hour", "no last hour", "no last date"}
    BY <2>5, <2>7, <2>8, <1>7
  <2>10. Asked.last + 1 < walk.today
    <3>1. /\ walk.kept[n].last = walk.kept[n - 1].first - 1
          /\ walk.completed = walk.kept[n].first
      <4>1. n \in 1 .. Len(walk.kept) /\ n # 1 /\ walk.kept # <<>>
        <5>1. n \in 1 .. Len(walk.kept) BY <2>1, <1>3
        <5>2. n # 1
          <6>1. n > 1 BY <1>15
          <6>2. n \in Int OBVIOUS
          <6> QED BY <6>1, <6>2
        <5>3. Len(walk.kept) # 0 BY <2>1, <1>3
        <5> QED BY <5>1, <5>2, <5>3, <1>1, EmptySeq
      <4> QED BY <4>1, <1>3, Asking DEF IInv, WalkOK, Kept
    <3>2. /\ newer \in AWindow /\ newest \in AWindow
      BY <2>1, <2>2, <2>3, <1>1, <1>3, ElementOfSeq
    <3>3. /\ newer.first \in Int /\ newer.last \in Int /\ newest.first \in Int
          /\ newest.last \in Int
      BY <3>2 DEF AWindow
    <3>4. /\ newer.first <= newer.last /\ newest.first <= newest.last
          /\ newest.last <= walk.today /\ walk.completed # None
      BY <2>1, <2>2, <2>3, <1>3, <1>8 DEF Placed
    <3>5. Asked.last = walk.completed - 1
      BY <3>4, SentIs DEF Newest
    <3>6. newer.last = newest.first - 1 /\ Asked.last = newer.first - 1
      BY <2>2, <2>3, <3>1, <3>5
    <3>7. Asked.last <= newer.last - 1 /\ newer.last <= walk.today - 1
      BY <3>3, <3>4, <3>6, <1>11
    <3>8. newer.last \in Int /\ walk.today \in Int /\ Asked.last \in Int
      BY <3>3, <1>11
    <3> QED BY <3>7, <3>8
  <2>11. meridian.reads # "a day late"
    BY <2>10, <1>1, <1>11, WholeShows
  <2> QED BY <2>5, <2>9, <2>11, <1>1 DEF Readings
<1>16. ASSUME NEW k \in 3 .. n + 1, \A j \in k - 2 .. k : Pages[wk.kept[j]].inside # {}
       PROVE  meridian.reads \in {"asked", "no start"}
  <2>1. CASE k = n + 1
    <3>1. n > 1 /\ k - 2 = n - 1 BY <2>1, <1>3
    <3> QED BY <3>1, <2>1, <1>15, <1>16
  <2>2. CASE k # n + 1
    <3>1. k \in 3 .. n /\ \A j \in k - 2 .. k : j \in 1 .. n BY <2>2, <1>3
    <3>2. \A j \in k - 2 .. k : Pages[walk.kept[j]].inside # {}
      BY <3>1, <1>5, <1>16
    <3> QED BY <3>1, <3>2, <1>3 DEF Found
  <2> QED BY <2>1, <2>2
<1>17. (n + 1) - 1 = n /\ (n + 1 > 1 => n > 0)
  BY <1>3
<1> QED BY <1>5, <1>9, <1>10, <1>12, <1>14, <1>16, <1>17 DEF Found

\* A refusal that shows a start adds the rows of the window refused alone.
LEMMA StartFound ==
  ASSUME IInv, Asks, Refuses(Asked), Starts(Asked), Found(walk, Pages, meridian.reads),
         NEW wk, wk = TakenStart(Sent, Asked, Answer(Asked))
  PROVE  Found(wk, Pages, meridian.reads)
<1>1. /\ wk.today = walk.today /\ wk.since = walk.since /\ wk.completed = Asked.first
      /\ wk.rows = walk.rows \cup {h \in Answer(Asked).inside : h >= walk.since}
  BY StartKeeps
<1>2. /\ wk.kept = walk.kept /\ wk.before = walk.before /\ wk.newer = walk.newer
      /\ wk.missingLast = walk.missingLast /\ wk.oneSided = walk.oneSided
  <2>1. /\ Fields \subseteq DOMAIN Sent /\ Sent.before = walk.before
        /\ Sent.newer = walk.newer /\ Sent.kept = walk.kept
        /\ Sent.missingLast = walk.missingLast /\ Sent.oneSided = walk.oneSided
    BY SentIs DEF SameBut, Fields
  <2>2. PICK a : /\ a = IF Answer(Asked).inside # {} THEN Added(Sent, Answer(Asked)) ELSE Sent
                 /\ wk = [a EXCEPT !.start = TRUE, !.startAfter = Start(Asked),
                                   !.completed = Asked.first, !.ended = TRUE]
    BY DEF TakenStart
  <2>3. /\ Fields \subseteq DOMAIN a /\ a.before = walk.before
        /\ a.newer = walk.newer /\ a.kept = walk.kept
        /\ a.missingLast = walk.missingLast /\ a.oneSided = walk.oneSided
    BY <2>1, <2>2 DEF Added, Fields
  <2> QED BY <2>2, <2>3 DEF Fields
<1>3. /\ Asked.first \in Int /\ Asked.last \in Int /\ Asked.first <= Asked.last
      /\ Asked.last = Newest(walk) /\ walk.kept \in Seq(AWindow)
      /\ walk.completed \in Int \cup {None} /\ None \notin Int
  BY SentIs, WalkAssumption DEF AWindow, IInv, WalkOK, Typed
<1>4. ASSUME NEW k \in 1 .. Len(walk.kept)
      PROVE  /\ wk.completed # None /\ wk.completed <= walk.kept[k].first
             /\ InWindow(wk.rows, walk.kept[k]) = InWindow(walk.rows, walk.kept[k])
  <2>1. PICK w \in AWindow : w = walk.kept[k]
    BY <1>3, ElementOfSeq
  <2>2. w.first \in Int /\ w.last \in Int BY <2>1 DEF AWindow
  <2>3. walk.completed # None /\ walk.completed <= w.first
    BY <2>1 DEF Found, Placed
  <2>4. walk.completed \in Int /\ Asked.last = walk.completed - 1
    BY <2>3, <1>3 DEF Newest
  <2>5. Asked.last < w.first /\ Asked.first <= w.first
    BY <2>2, <2>3, <2>4, <1>3
  <2>6. ASSUME NEW h \in Answer(Asked).inside PROVE DayOf(h) \notin WindowDates(w)
    <3>1. h \in Hours /\ DayOf(h) <= Asked.last BY PageIs
    <3>2. h \in Int BY <3>1, HoursAre
    <3>3. DayOf(h) \in Int BY <3>2, DayIs
    <3>4. DayOf(h) < w.first BY <3>1, <3>3, <2>2, <2>5, <1>3
    <3> QED BY <3>3, <3>4, <2>2 DEF WindowDates
  <2>7. InWindow(wk.rows, w) = InWindow(walk.rows, w)
    BY <2>6, <1>1 DEF InWindow
  <2> QED BY <2>1, <2>5, <2>7, <1>1, <1>3
<1>5. Placed(wk, Pages)
  BY <1>1, <1>2, <1>4 DEF Found, Placed
<1> QED BY <1>1, <1>2, <1>5 DEF Found, OldestIs, PairIs

\* A step that asks for a window keeps it.
LEMMA AskFound ==
  ASSUME IInv, FInv,
         BudgetEnds \/ RequestFails \/ TimesOut \/ OverLimits \/ TakeWindow \/ RefuseWindow
  PROVE  FInv'
<1>1. Asks /\ UNCHANGED <<phase, meridian>>
  BY DEF BudgetEnds, RequestFails, TimesOut, OverLimits, TakeWindow, RefuseWindow, Answered
<1>2. phase # "idle" /\ walk.error = None /\ Fields \subseteq DOMAIN walk
  BY <1>1, Asking DEF IInv, WalkOK, Typed
<1>3. ASSUME NEW wk, wk = walk', wk.today = walk.today,
             meridian.has = Hours => Found(wk, Pages, meridian.reads)
      PROVE  FInv'
  <2>1. Pages' = Pages
    BY <1>1, <1>3, PagesKept
  <2> QED BY <2>1, <1>1, <1>3 DEF FInv
<1>4. ASSUME NEW error \in Errors, NEW base, walk' = [base EXCEPT !.error = error],
             Fields \subseteq DOMAIN base
      PROVE  FInv'
  <2>1. walk'.error # None
    BY <1>4, WalkAssumption DEF Fields
  <2> QED BY <2>1 DEF FInv
<1>5. /\ SameBut(Sent, walk, {"queue", "probe", "probed"}) /\ Fields \subseteq DOMAIN Sent
  BY <1>1, SentIs DEF SameBut
<1>6. CASE BudgetEnds \/ RequestFails
  <2>1. \E error \in {"budget", "failure"} : walk' = [Sent EXCEPT !.error = error]
    BY <1>6 DEF BudgetEnds, RequestFails, FailsWith, Sent
  <2> QED BY <2>1, <1>4, <1>5 DEF Errors
\* A window split by days.
<1>7. ASSUME NEW probe, NEW laddered, NEW daysOnly, NEW querySplit,
             walk' = [Split(Sent, NextPart, probe) EXCEPT
                        !.laddered = laddered, !.daysOnly = daysOnly,
                        !.querySplit = querySplit]
      PROVE  FInv'
  <2>1. PICK wk : wk = walk'
    OBVIOUS
  <2>2. /\ wk.today = walk.today /\ wk.since = walk.since /\ wk.completed = walk.completed
        /\ wk.rows = walk.rows /\ wk.kept = walk.kept /\ wk.before = walk.before
        /\ wk.newer = walk.newer /\ wk.missingLast = walk.missingLast
        /\ wk.oneSided = walk.oneSided
    BY <2>1, <1>5, <1>7 DEF Split, SameBut, Fields
  <2>3. meridian.has = Hours => Found(wk, Pages, meridian.reads)
    BY <2>2, <1>2 DEF FInv, Found, Placed, OldestIs, PairIs
  <2> QED BY <2>1, <2>2, <2>3, <1>3
<1>8. CASE TimesOut
  <2>1. CASE ~ setup
    <3>1. walk' = [Sent EXCEPT !.error = "timeout"] /\ "timeout" \in Errors
      BY <2>1, <1>8 DEF TimesOut, Errors
    <3> QED BY <3>1, <1>4, <1>5
  <2>2. CASE setup
    <3>1. PICK laddered, daysOnly :
            walk' = [Split(Sent, NextPart, TRUE) EXCEPT !.laddered = laddered,
                                                        !.daysOnly = daysOnly]
      BY <2>2, <1>8 DEF TimesOut
    <3>2. PICK s : s = Split(Sent, NextPart, TRUE)
      OBVIOUS
    <3>3. walk' = [s EXCEPT !.laddered = laddered, !.daysOnly = daysOnly,
                            !.querySplit = s.querySplit]
      BY <3>1, <3>2, <1>5 DEF Split, Fields
    <3> QED BY <3>2, <3>3, <1>7
  <2> QED BY <2>1, <2>2
<1>9. CASE OverLimits
  <2>1. PICK s : s = Split(Sent, NextPart, FALSE)
    OBVIOUS
  <2>2. walk' = [s EXCEPT !.querySplit = TRUE, !.daysOnly = TRUE]
    BY <2>1, <1>9 DEF OverLimits
  <2>3. walk' = [s EXCEPT !.laddered = s.laddered, !.daysOnly = TRUE, !.querySplit = TRUE]
    BY <2>1, <2>2, <1>5 DEF Split, Fields
  <2> QED BY <2>1, <2>3, <1>7
<1>10. CASE TakeWindow
  <2>1. PICK page : /\ page = Answer(Asked)
                    /\ \/ walk' = [Sent EXCEPT !.error = "misread"]
                       \/ walk' = [Checked(Sent, Asked, page) EXCEPT !.error = "misread"]
                       \/ /\ ~ RowsAfter(Asked) /\ Passes(Sent, Asked, page)
                          /\ walk' = Taken(Sent, Asked, NextPart.share, page)
    BY <1>10 DEF TakeWindow, FailsWith
  <2>2. "misread" \in Errors
    BY DEF Errors
  <2>3. CASE walk' = [Sent EXCEPT !.error = "misread"]
    BY <2>2, <2>3, <1>4, <1>5
  <2>4. CASE walk' = [Checked(Sent, Asked, page) EXCEPT !.error = "misread"]
    <3>1. Fields \subseteq DOMAIN Checked(Sent, Asked, page)
      BY <2>1, <1>1, CheckedIs DEF SameBut
    <3> QED BY <3>1, <2>2, <2>4, <1>4
  <2>5. CASE /\ ~ RowsAfter(Asked) /\ Passes(Sent, Asked, page)
             /\ walk' = Taken(Sent, Asked, NextPart.share, page)
    <3>1. PICK wk : wk = walk' /\ wk = Taken(Sent, Asked, NextPart.share, page)
      BY <2>5
    <3>2. Refuses(Asked) => Start(Asked) = AllCame
      BY <1>10 DEF TakeWindow
    <3>3. wk.today = walk.today
      BY <3>1, <3>2, <2>1, <1>1, TakenKeeps
    <3>4. ASSUME meridian.has = Hours PROVE Found(wk, Pages, meridian.reads)
      <4>1. Found(walk, Pages, meridian.reads) BY <3>4, <1>2 DEF FInv
      <4> QED BY <4>1, <3>1, <3>2, <3>4, <2>1, <2>5, <1>1, TakenFound
    <3> QED BY <3>1, <3>3, <3>4, <1>3
  <2> QED BY <2>1, <2>3, <2>4, <2>5
<1>11. CASE RefuseWindow
  <2>1. CASE ~ Starts(Asked)
    <3>1. walk' = [Sent EXCEPT !.error = "refused"] /\ "refused" \in Errors
      BY <2>1, <1>11 DEF RefuseWindow, FailsWith, Errors
    <3> QED BY <3>1, <1>4, <1>5
  <2>2. CASE Starts(Asked)
    <3>1. PICK wk : wk = walk' /\ wk = TakenStart(Sent, Asked, Answer(Asked))
                    /\ Refuses(Asked)
      BY <2>2, <1>11 DEF RefuseWindow
    <3>2. wk.today = walk.today
      BY <3>1, <2>2, <1>1, StartKeeps
    <3>3. ASSUME meridian.has = Hours PROVE Found(wk, Pages, meridian.reads)
      <4>1. Found(walk, Pages, meridian.reads) BY <3>3, <1>2 DEF FInv
      <4> QED BY <4>1, <3>1, <2>2, <1>1, StartFound
    <3> QED BY <3>1, <3>2, <3>3, <1>3
  <2> QED BY <2>1, <2>2
<1> QED BY <1>6, <1>8, <1>9, <1>10, <1>11

\* Every step keeps it.
LEMMA NextFound ==
  ASSUME IInv, FInv, [Next]_vars
  PROVE  FInv'
<1>1. CASE Begin
  <2>1. PICK mode \in Modes : walk' = NewWalk(mode, today)
    <3>1. "initial" \in Modes BY WalkAssumption
    <3> QED BY <3>1, <1>1 DEF Begin
  <2>2. PICK wk : wk = walk' OBVIOUS
  <2>3. wk.kept = <<>> /\ wk.oneSided = 0 /\ wk.missingLast = 0
    BY <2>1, <2>2 DEF NewWalk
  <2>4. Len(wk.kept) = 0
    BY <2>3
  <2>5. \A pages, reads : Found(wk, pages, reads)
    BY <2>3, <2>4 DEF Found, Placed
  <2> QED BY <2>2, <2>5 DEF FInv
<1>2. CASE BudgetEnds \/ RequestFails \/ TimesOut \/ OverLimits \/ TakeWindow \/ RefuseWindow
  BY <1>2, AskFound
<1>3. CASE Restart \/ Publish
  BY <1>3 DEF Restart, Publish, FInv
<1>4. CASE Finish \/ SetUp \/ DatePasses \/ UNCHANGED vars
  <2>1. walk' = walk /\ meridian' = meridian /\ (phase' = phase \/ phase # "idle")
    BY <1>4 DEF Finish, SetUp, DatePasses, vars
  <2>2. Pages' = Pages
    BY <2>1, PagesKept
  <2> QED BY <2>1, <2>2 DEF FInv
<1> QED BY <1>1, <1>2, <1>3, <1>4 DEF Next

\* A walk that ended with none failed and has readings of three windows in a
\* row of a meter with no gaps has all of theirs.
THEOREM MisreadingFound == Spec => []MisreadingIsFound
<1>1. Init => FInv
  BY DEF Init, FInv
<1>2. IInv /\ FInv /\ [Next]_vars => FInv'
  BY NextFound
<1>3. IInv /\ FInv => MisreadingIsFound
  <2> SUFFICES ASSUME IInv, FInv, phase = "ended", Complete(walk), meridian.has = Hours,
                      NEW k \in 3 .. Len(walk.kept),
                      \A j \in k - 2 .. k : InWindow(walk.rows, walk.kept[j]) # {},
                      NEW h \in Hours, walk.since <= h, h < NowOn(walk.today),
                      NEW j \in k - 2 .. k, DayOf(h) \in WindowDates(walk.kept[j])
               PROVE  h \in walk.rows
    BY DEF MisreadingIsFound
  <2>1. Found(walk, Pages, meridian.reads)
    BY DEF FInv, Complete
  <2>2. /\ walk.kept \in Seq(AWindow) /\ walk.today \in Dates /\ meridian.reads \in Readings
        /\ walk.rows \subseteq Hours
    BY DEF IInv, WalkOK, Typed, StateOK, MeridianRecord
  <2>3. \A i \in k - 2 .. k : i \in 1 .. Len(walk.kept)
    <3>1. Len(walk.kept) \in Nat BY <2>2, LenProperties
    <3> QED BY <3>1
  <2>4. \A i \in k - 2 .. k : Pages[walk.kept[i]].inside # {}
    <3> SUFFICES ASSUME NEW i \in k - 2 .. k PROVE Pages[walk.kept[i]].inside # {}
      OBVIOUS
    <3>1. InWindow(walk.rows, walk.kept[i])
            = {g \in Pages[walk.kept[i]].inside : walk.since <= g}
      BY <2>1, <2>3 DEF Found, Placed
    <3>2. InWindow(walk.rows, walk.kept[i]) # {}
      OBVIOUS
    <3> QED BY <3>1, <3>2
  <2>5. meridian.reads \in {"asked", "no start"}
    BY <2>1, <2>4 DEF Found
  <2>6. PICK w \in AWindow : w = walk.kept[j]
    <3>1. j \in 1 .. Len(walk.kept) BY <2>3
    <3> QED BY <3>1, <2>2, ElementOfSeq
  <2>7. /\ w.first <= w.last /\ w.last <= walk.today
        /\ InWindow(walk.rows, w) = {g \in Pages[w].inside : walk.since <= g}
    BY <2>1, <2>3, <2>6 DEF Found, Placed
  <2>8. h \in Hours /\ h < NowOn(walk.today) /\ DayOf(h) \in w.first .. w.last
    BY <2>6 DEF WindowDates
  <2>9. h \in Whole(w).inside
    <3>1. Reads(h, HeardIn(h, w)) BY <2>5 DEF Reads
    <3> QED BY <3>1, <2>2, <2>6, <2>8, InsideIs
  <2>10. h \in InWindow(walk.rows, w)
    BY <2>6, <2>7, <2>9 DEF Pages
  <2> QED BY <2>10 DEF InWindow
<1> QED BY <1>1, <1>2, <1>3, Invariance, PTL DEF Spec
===============================================================================
