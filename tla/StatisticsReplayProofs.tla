------------------------ MODULE StatisticsReplayProofs ------------------------
(***************************************************************************)
(* Proofs about StatisticsReplay, for every number of writers, every table *)
(* and offer, and any number of timeouts, cancellations, dropped tasks and *)
(* restarts: as long as no write has been queued again behind a barrier    *)
(* and no user has changed a running sum, a replay never builds its sums   *)
(* on rows that another replay has changed, or is still to change.         *)
(***************************************************************************)
EXTENDS StatisticsReplay, SequenceTheorems, TLAPS

\* A statistic with a replay's writes queued is marked unsettled.
Marked == \A s \in Stats : QueuedFor(s) # {} => s \in unsettled

-------------------------------------------------------------------------------
(***************************************************************************)
(* The queue is a sequence of tasks whose rows have no declared type.      *)
(***************************************************************************)
IsSeq(q) == Len(q) \in Nat /\ q = [i \in 1 .. Len(q) |-> q[i]]
Elements(q) == {q[i] : i \in 1 .. Len(q)}

\* A queue is a sequence of its own tasks.
LEMMA SeqOfElements ==
  ASSUME NEW q, IsSeq(q)
  PROVE  q \in Seq(Elements(q)) /\ DOMAIN q = 1 .. Len(q)
<1>1. q \in [1 .. Len(q) -> Elements(q)]
  BY DEF IsSeq, Elements
<1> QED
  BY <1>1 DEF IsSeq

\* Any sequence is such a queue.
LEMMA ElementsOfSeq ==
  ASSUME NEW S, NEW q \in Seq(S)
  PROVE  IsSeq(q) /\ DOMAIN q = 1 .. Len(q)
<1>1. Len(q) \in Nat /\ q \in [1 .. Len(q) -> S]
  BY LenProperties
<1> QED
  BY <1>1 DEF IsSeq

\* What Append, Tail and \o do to the tasks of a queue, wherever they come from.
LEMMA AppendTask ==
  ASSUME NEW q, IsSeq(q), NEW t
  PROVE  /\ IsSeq(Append(q, t))
         /\ DOMAIN q = 1 .. Len(q) /\ Len(q) \in Nat
         /\ DOMAIN Append(q, t) = 1 .. (Len(q) + 1)
         /\ \A i \in 1 .. Len(q) : Append(q, t)[i] = q[i]
         /\ Append(q, t)[Len(q) + 1] = t
<1> DEFINE S == Elements(q) \cup {t}
<1>1. q \in Seq(S)
  BY SeqOfElements, SeqMonotonic
<1>2. Append(q, t) \in Seq(S) /\ Len(Append(q, t)) = Len(q) + 1
  BY <1>1, AppendProperties
<1>3. IsSeq(Append(q, t)) /\ DOMAIN Append(q, t) = 1 .. Len(Append(q, t))
  BY <1>2, ElementsOfSeq
<1> QED
  BY <1>1, <1>2, <1>3, AppendProperties, SeqOfElements DEF IsSeq

\* Tail drops the oldest task and moves the others up by one.
LEMMA TailTasks ==
  ASSUME NEW q, IsSeq(q), q # <<>>
  PROVE  /\ IsSeq(Tail(q))
         /\ Len(q) \in Nat \ {0} /\ DOMAIN q = 1 .. Len(q)
         /\ Head(q) = q[1]
         /\ DOMAIN Tail(q) = 1 .. (Len(q) - 1)
         /\ \A i \in 1 .. (Len(q) - 1) : Tail(q)[i] = q[i + 1]
<1> DEFINE S == Elements(q)
<1>1. q \in Seq(S)
  BY SeqOfElements
<1>2. Tail(q) \in Seq(S) /\ Len(Tail(q)) = Len(q) - 1 /\ Len(q) \in Nat \ {0}
  BY <1>1, HeadTailProperties, EmptySeq
<1>3. IsSeq(Tail(q)) /\ DOMAIN Tail(q) = 1 .. Len(Tail(q))
  BY <1>2, ElementsOfSeq
<1>4. \A i \in 1 .. (Len(q) - 1) : Tail(q)[i] = q[i + 1]
  BY <1>1, <1>2, HeadTailProperties
<1>5. Head(q) = q[1]
  BY <1>1
<1> QED
  BY <1>2, <1>3, <1>4, <1>5, SeqOfElements

\* Joining two queues keeps the tasks of both, in their order.
LEMMA ConcatTasks ==
  ASSUME NEW q, IsSeq(q), NEW r, IsSeq(r)
  PROVE  /\ IsSeq(q \o r)
         /\ DOMAIN q = 1 .. Len(q) /\ Len(q) \in Nat
         /\ DOMAIN r = 1 .. Len(r) /\ Len(r) \in Nat
         /\ Len(q \o r) = Len(q) + Len(r)
         /\ DOMAIN (q \o r) = 1 .. (Len(q) + Len(r))
         /\ \A i \in 1 .. Len(q) : (q \o r)[i] = q[i]
         /\ \A i \in 1 .. Len(r) : (q \o r)[Len(q) + i] = r[i]
<1> DEFINE S == Elements(q) \cup Elements(r)
<1>1. q \in Seq(S) /\ r \in Seq(S)
  BY SeqOfElements, SeqMonotonic
<1>2. Len(q) \in Nat /\ Len(r) \in Nat
  BY DEF IsSeq
<1>3. q \o r \in Seq(S) /\ Len(q \o r) = Len(q) + Len(r)
  BY <1>1, ConcatProperties
<1>4. \A i \in 1 .. Len(q) + Len(r) :
        (q \o r)[i] = IF i <= Len(q) THEN q[i] ELSE r[i - Len(q)]
  BY <1>1, ConcatProperties
<1>5. IsSeq(q \o r) /\ DOMAIN (q \o r) = 1 .. Len(q \o r)
  BY <1>3, ElementsOfSeq
<1>6. \A i \in 1 .. Len(r) : (q \o r)[Len(q) + i] = r[i]
  BY <1>2, <1>4
<1> QED
  BY <1>2, <1>3, <1>4, <1>5, <1>6, SeqOfElements

-------------------------------------------------------------------------------
(***************************************************************************)
(* The inductive invariant.                                                *)
(***************************************************************************)
Waiting == {"settle", "confirm"}
Clear == {"settled", "read", "far", "older", "build", "confirmed", "tail"}

\* The variables are functions of writers and statistics, the queue a sequence.
Shape ==
  /\ IsSeq(queue)
  /\ DOMAIN tables = Stats
  /\ locks \in [Stats -> Writers \cup {None}]
  /\ pc \in [Writers -> Locations]
  /\ DOMAIN offer = Writers /\ DOMAIN seen = Writers
  /\ used \in [DOMAIN Bounds -> Nat]

\* A queue holds writes of replays, and barriers, each waited for at most once.
Tasks ==
  \A i \in DOMAIN queue :
    \/ queue[i].op \in {"import", "adjust"}
    \/ \E w \in Writers \cup {None} : queue[i] = BarrierTask(w)

\* Past its locks, a replay holds every lock it needs.
Exclusive ==
  \A w \in Writers : pc[w] \in Waiting \cup Clear =>
    \A s \in Writes(offer[w]) : locks[s] = w

\* A barrier in the queue is the only one its writer waits for, and every
\* write of the statistics that writer replays is queued before it.
Behind ==
  \A w \in Writers, j \in DOMAIN queue : queue[j] = BarrierTask(w) =>
    /\ pc[w] \in Waiting
    /\ \A i \in DOMAIN queue : queue[i] = BarrierTask(w) => i = j
    /\ \A s \in Writes(offer[w]) : \A i \in QueuedFor(s) : i < j

\* Where a replay does not wait, no write of its statistics is queued.
NothingQueued ==
  \A w \in Writers : pc[w] \in Clear =>
    \A s \in Writes(offer[w]) : QueuedFor(s) = {}

\* What a replay read is still what is stored.
Current ==
  \A w \in Writers : pc[w] \in HasRead =>
    \A s \in Writes(offer[w]) :
      seen[w][s] = Read(tables[s], ReadFrom(offer[w]), LastHour + 1)

IInv ==
  /\ Shape
  /\ Tasks
  /\ Exclusive
  /\ Marked
  /\ Behind
  /\ NothingQueued
  /\ Current

-------------------------------------------------------------------------------
(***************************************************************************)
(* How a step changes the queue: the writes and barriers it holds after.   *)
(***************************************************************************)

\* None is neither a writer nor a number.
LEMMA NoneIsNoWriter == None \notin Writers /\ None \notin Int
  BY ReplayAssumption, NoneAssumption

\* A barrier is told from every other task, and from another's barrier.
LEMMA BarriersDiffer ==
  /\ \A v, w : BarrierTask(v) = BarrierTask(w) => v = w
  /\ \A w, s : ~ IsWrite(BarrierTask(w), s) /\ BarrierTask(w).op = "barrier"
                 /\ BarrierTask(w).writer = w
  BY DEF BarrierTask, IsWrite

\* Forsaking a writer's barriers changes no other task of the queue.
LEMMA ForsakenTasks ==
  ASSUME IsSeq(queue), NEW w \in Writers
  PROVE  /\ IsSeq(Forsaken(w))
         /\ DOMAIN Forsaken(w) = DOMAIN queue /\ Len(Forsaken(w)) = Len(queue)
         /\ DOMAIN queue = 1 .. Len(queue)
         /\ \A i \in DOMAIN queue :
              Forsaken(w)[i] = IF queue[i] = BarrierTask(w) THEN BarrierTask(None)
                               ELSE queue[i]
<1>1. DOMAIN queue = 1 .. Len(queue) /\ Len(queue) \in Nat
  BY SeqOfElements DEF IsSeq
<1>2. Forsaken(w) \in Seq(Elements(queue) \cup {BarrierTask(None)})
  <2>1. Forsaken(w) \in [1 .. Len(queue) -> Elements(queue) \cup {BarrierTask(None)}]
    BY <1>1 DEF Forsaken, Elements
  <2> QED
    BY <1>1, <2>1
<1>3. IsSeq(Forsaken(w)) /\ DOMAIN Forsaken(w) = 1 .. Len(Forsaken(w))
  BY <1>2, ElementsOfSeq
<1>4. DOMAIN Forsaken(w) = 1 .. Len(queue)
  BY <1>1 DEF Forsaken
<1>5. Len(Forsaken(w)) = Len(queue)
  BY <1>1, <1>2, <1>4, LenProperties
<1> QED
  BY <1>1, <1>3, <1>4, <1>5 DEF Forsaken

\* What a replay queues: writes of its own statistics alone.
LEMMA WrittenTasks ==
  ASSUME NEW o, NEW built
  PROVE  /\ IsSeq(WriteTasks(o, built))
         /\ \A i \in DOMAIN WriteTasks(o, built) :
              \E s \in Writes(o) :
                /\ IsWrite(WriteTasks(o, built)[i], s)
                /\ \A t : IsWrite(WriteTasks(o, built)[i], t) => t = s
<1> DEFINE Task(t) == \E s \in Writes(o) : /\ IsWrite(t, s)
                                           /\ \A r : IsWrite(t, r) => r = s
           Tasked(q) == IsSeq(q) /\ \A i \in DOMAIN q : Task(q[i])
<1>1. \A s : s \in Writes(o) => /\ Task(ImportTask(s, built[s].rows))
                                /\ Task(AdjustTask(s, Last(o, s) + 1, built[s].shift))
  BY DEF ImportTask, AdjustTask, IsWrite
<1>2. Tasked(<<>>) /\ \A t : Task(t) => Tasked(<<t>>)
  BY DEF IsSeq
<1>3. \A s : Tasked(ImportOf(o, built, s)) /\ Tasked(ShiftOf(o, built, s))
  BY <1>1, <1>2 DEF ImportOf, ShiftOf
<1>4. ASSUME NEW q, NEW r, Tasked(q), Tasked(r)
      PROVE  Tasked(q \o r)
  <2>1. IsSeq(q) /\ IsSeq(r)
    BY <1>4
  <2>2. /\ IsSeq(q \o r)
        /\ DOMAIN q = 1 .. Len(q) /\ Len(q) \in Nat
        /\ DOMAIN r = 1 .. Len(r) /\ Len(r) \in Nat
        /\ DOMAIN (q \o r) = 1 .. (Len(q) + Len(r))
        /\ \A i \in 1 .. Len(q) : (q \o r)[i] = q[i]
        /\ \A i \in 1 .. Len(r) : (q \o r)[Len(q) + i] = r[i]
    BY <2>1, ConcatTasks
  <2>3. ASSUME NEW i \in DOMAIN (q \o r)
        PROVE  \/ i \in DOMAIN q /\ (q \o r)[i] = q[i]
               \/ i - Len(q) \in DOMAIN r /\ (q \o r)[i] = r[i - Len(q)]
    <3>1. CASE i <= Len(q)
      BY <2>2, <2>3, <3>1
    <3>2. CASE i > Len(q)
      <4>1. i - Len(q) \in 1 .. Len(r) /\ Len(q) + (i - Len(q)) = i
        BY <2>2, <2>3, <3>2
      <4> QED
        BY <2>2, <4>1
    <3> QED
      BY <2>2, <2>3, <3>1, <3>2
  <2>4. \A i \in DOMAIN (q \o r) : Task((q \o r)[i])
    BY <1>4, <2>3
  <2> QED
    BY <2>2, <2>4
<1>5. Tasked(WriteTasks(o, built))
  <2> HIDE DEF Tasked
  <2>1. Tasked(ImportOf(o, built, Energy) \o ImportOf(o, built, Cost))
    BY <1>3, <1>4
  <2>2. Tasked(ShiftOf(o, built, Energy) \o ShiftOf(o, built, Cost))
    BY <1>3, <1>4
  <2> QED
    BY <1>4, <2>1, <2>2 DEF WriteTasks
<1> QED
  BY <1>5

-------------------------------------------------------------------------------
(***************************************************************************)
(* The invariant holds at first, and every step keeps it.                  *)
(***************************************************************************)
\* The empty queue holds no task.
LEMMA EmptyIsSeq == IsSeq(<<>>) /\ DOMAIN <<>> = {} /\ \A i \in DOMAIN <<>> : FALSE
  BY DEF IsSeq

\* Every table a recorder holds at first has both statistics.
LEMMA TablesHaveStats == \A t \in InitTables : DOMAIN t = Stats
  BY ReplayAssumption

\* The invariant holds at first.
LEMMA InitInv == Init => IInv
<1> SUFFICES ASSUME Init PROVE IInv
  OBVIOUS
<1>1. Shape
  BY TablesHaveStats, EmptyIsSeq DEF Init, Shape, Unused, Locations
<1>2. \A w \in Writers : pc[w] = "idle"
  BY DEF Init
<1>3. Tasks /\ Marked /\ Behind
  BY EmptyIsSeq DEF Init, Tasks, Marked, QueuedFor, Behind
<1>4. Exclusive /\ NothingQueued /\ Current
  BY <1>2 DEF Exclusive, NothingQueued, Current, Waiting, Clear, HasRead
<1> QED
  BY <1>1, <1>3, <1>4 DEF IInv

\* A replay that begins holds nothing yet.
LEMMA BeginStep ==
  ASSUME IInv, NEW w \in Writers, Begin(w)
  PROVE  IInv'
<1> USE DEF IInv
<1>1. Shape'
  BY DEF Begin, Shape, Use, Bounds, Locations
<1>2. Tasks' /\ Marked'
  BY DEF Begin, Tasks, Marked, QueuedFor
<1>3. \A v \in Writers : /\ v # w => pc'[v] = pc[v] /\ offer'[v] = offer[v]
                         /\ pc'[w] = "lock" /\ pc[w] = "idle"
  BY DEF Begin, Shape
<1>4. Behind'
  BY <1>3 DEF Begin, Behind, QueuedFor, Waiting
<1>5. Exclusive' /\ NothingQueued' /\ Current'
  BY <1>3 DEF Begin, Exclusive, NothingQueued, Current, QueuedFor, Waiting, Clear, HasRead
<1> QED
  BY <1>1, <1>2, <1>4, <1>5

\* The queue with a writer's barrier, if it holds one, waited for by nobody.
Swept(q, w) ==
  /\ IsSeq(q) /\ Len(q) = Len(queue)
  /\ DOMAIN q = 1 .. Len(queue) /\ DOMAIN queue = 1 .. Len(queue)
  /\ \A i \in DOMAIN queue :
       q[i] = IF queue[i] = BarrierTask(w) THEN BarrierTask(None) ELSE queue[i]

\* A writer's barriers can be forsaken, and one that waits for none has none.
LEMMA QueueIsSwept ==
  ASSUME IInv, NEW w \in Writers
  PROVE  Swept(Forsaken(w), w) /\ (pc[w] \notin Waiting => Swept(queue, w))
<1>1. IsSeq(queue)
  BY DEF IInv, Shape
<1>2. pc[w] \notin Waiting => \A i \in DOMAIN queue : queue[i] # BarrierTask(w)
  BY DEF IInv, Behind
<1> QED
  BY <1>1, <1>2, ForsakenTasks, SeqOfElements DEF Swept

\* What only the writer w's own step may change, as far as other writers go.
Only(w) == \A v \in Writers \ {w} :
             pc'[v] = pc[v] /\ offer'[v] = offer[v] /\ seen'[v] = seen[v]

\* Forsaking a writer's barriers leaves the writes, and the barriers of others.
LEMMA SweptQueue ==
  ASSUME IInv, NEW w \in Writers, Only(w), NEW q, Swept(q, w), queue' = q
  PROVE  /\ IsSeq(queue)' /\ Tasks' /\ Behind'
         /\ \A s : QueuedFor(s)' = QueuedFor(s)
<1>1. \A s : QueuedFor(s)' = QueuedFor(s)
  BY BarriersDiffer DEF QueuedFor, Swept
<1>2. Tasks'
  BY DEF IInv, Tasks, Swept
<1>3. ASSUME NEW v \in Writers, NEW j \in DOMAIN queue', queue'[j] = BarrierTask(v)
      PROVE  v # w /\ queue[j] = BarrierTask(v) /\ j \in DOMAIN queue
  BY <1>3, BarriersDiffer, NoneIsNoWriter DEF Swept
<1>4. Behind'
  BY <1>1, <1>3 DEF IInv, Behind, Only
<1> QED
  BY <1>1, <1>2, <1>4 DEF Swept

\* A barrier queued next stands behind every write queued before it.
LEMMA SweptThenBarrier ==
  ASSUME IInv, NEW w \in Writers, Only(w), pc'[w] \in Waiting,
         NEW q, Swept(q, w), queue' = Append(q, BarrierTask(w))
  PROVE  /\ IsSeq(queue)' /\ Tasks' /\ Behind'
         /\ \A s : QueuedFor(s)' = QueuedFor(s)
<1> DEFINE n == Len(queue)
<1>1. /\ n \in Nat /\ IsSeq(queue') /\ DOMAIN queue' = 1 .. (n + 1)
      /\ \A i \in 1 .. n : queue'[i] = q[i]
      /\ queue'[n + 1] = BarrierTask(w)
  BY AppendTask DEF Swept
<1>2. \A s : QueuedFor(s)' = QueuedFor(s)
  BY <1>1, BarriersDiffer DEF QueuedFor, Swept
<1>3. Tasks'
  BY <1>1 DEF IInv, Tasks, Swept
<1>4. ASSUME NEW v \in Writers, NEW j \in DOMAIN queue', queue'[j] = BarrierTask(v)
      PROVE  \/ v = w /\ j = n + 1
             \/ v # w /\ queue[j] = BarrierTask(v) /\ j \in DOMAIN queue
  BY <1>1, <1>4, BarriersDiffer, NoneIsNoWriter DEF Swept
<1>5. \A s : \A i \in QueuedFor(s) : i < n + 1
  BY <1>1 DEF QueuedFor, Swept
<1>6. Behind'
  BY <1>2, <1>4, <1>5 DEF IInv, Behind, Only
<1> QED
  BY <1>1, <1>2, <1>3, <1>6

\* A writer's own step keeps the invariant when what it adds is as the invariant
\* asks of that writer, and what it takes away was its own.
LEMMA OwnStep ==
  ASSUME IInv, NEW w \in Writers, Only(w), Shape', Tasks', Behind',
         tables' = tables,
         \A s : QueuedFor(s)' = QueuedFor(s),
         \A s \in Stats : locks[s] # None /\ locks[s] # w => locks'[s] = locks[s],
         \A s \in unsettled : QueuedFor(s) # {} => s \in unsettled',
         pc'[w] \in Waiting \cup Clear =>
           \A s \in Writes(offer'[w]) : locks'[s] = w,
         pc'[w] \in Clear => \A s \in Writes(offer'[w]) : QueuedFor(s) = {},
         pc'[w] \in HasRead => \A s \in Writes(offer'[w]) :
           seen'[w][s] = Read(tables[s], ReadFrom(offer'[w]), LastHour + 1)
  PROVE  IInv'
<1>1. Marked'
  BY DEF IInv, Marked
<1>2. \A v \in Writers : \A s \in Writes(offer[v]) : s \in Stats
  BY DEF Writes
<1>3. Exclusive'
  <2> SUFFICES ASSUME NEW v \in Writers, pc'[v] \in Waiting \cup Clear,
                      NEW s \in Writes(offer'[v])
               PROVE  locks'[s] = v
    BY DEF Exclusive, Waiting, Clear
  <2>1. CASE v = w
    BY <2>1
  <2>2. CASE v # w
    <3>1. s \in Writes(offer[v]) /\ pc[v] \in Waiting \cup Clear
      BY <2>2 DEF Only
    <3>2. locks[s] = v /\ v # None
      BY <3>1, NoneIsNoWriter DEF IInv, Exclusive
    <3> QED
      BY <1>2, <2>2, <3>1, <3>2
  <2> QED
    BY <2>1, <2>2
<1>4. NothingQueued'
  BY DEF IInv, NothingQueued, Only, Clear
<1>5. Current'
  BY DEF IInv, Current, Only, HasRead
<1> QED
  BY <1>1, <1>3, <1>4, <1>5 DEF IInv

\* Taking the locks, with or without a wait for what is unsettled.
LEMMA TakeLockStep ==
  ASSUME IInv, NEW w \in Writers, TakeLock(w)
  PROVE  IInv'
<1>1. PICK s \in Writes(offer[w]) \ Held(w) :
        /\ locks[s] = None
        /\ locks' = [locks EXCEPT ![s] = w]
        /\ IF Writes(offer[w]) \subseteq Held(w) \cup {s}
           THEN IF unsettled \cap Writes(offer[w]) = {}
                THEN /\ pc' = [pc EXCEPT ![w] = "read"]
                     /\ UNCHANGED <<queue, barriers>>
                ELSE /\ pc' = [pc EXCEPT ![w] = "settle"]
                     /\ queue' = Append(queue, BarrierTask(w))
                     /\ barriers' = [barriers EXCEPT ![w] = 1]
           ELSE UNCHANGED <<pc, queue, barriers>>
  BY DEF TakeLock
<1>2. /\ pc[w] = "lock"
      /\ UNCHANGED <<tables, unsettled, offer, seen, anchor, plan, headHolds,
                     unconfirmed, used>>
  BY DEF TakeLock
<1>3. s \in Stats /\ Shape /\ Marked
  BY DEF IInv, Writes
<1>4. Only(w) /\ pc'[w] \in {"lock", "read", "settle"}
  BY <1>1, <1>2, <1>3 DEF Only, Shape
<1>5. /\ \A t \in Stats : locks[t] # None /\ locks[t] # w => locks'[t] = locks[t]
      /\ \A t \in Held(w) \cup {s} : locks'[t] = w
  BY <1>1, <1>3 DEF Shape, Held
<1>6. pc'[w] # "lock" => \A t \in Writes(offer'[w]) : locks'[t] = w
  BY <1>1, <1>2, <1>5
<1>7. pc'[w] = "read" => \A t \in Writes(offer'[w]) : QueuedFor(t) = {}
  <2> SUFFICES ASSUME pc'[w] = "read", NEW t \in Writes(offer[w])
               PROVE  QueuedFor(t) = {}
    BY <1>2
  <2>1. t \notin unsettled
    BY <1>1, <1>2, <1>3 DEF Shape
  <2> QED
    BY <1>3, <2>1 DEF Marked, Writes
<1>8. /\ IsSeq(queue)' /\ Tasks' /\ Behind'
      /\ \A t : QueuedFor(t)' = QueuedFor(t)
  <2>1. Swept(queue, w)
    BY <1>2, QueueIsSwept DEF Waiting
  <2>2. CASE pc'[w] = "settle"
    <3>1. queue' = Append(queue, BarrierTask(w))
      BY <1>1, <1>2, <1>3, <2>2 DEF Shape
    <3> QED
      BY <1>4, <2>1, <2>2, <3>1, SweptThenBarrier DEF Waiting
  <2>3. CASE pc'[w] # "settle"
    <3>1. queue' = queue
      BY <1>1, <1>2, <1>3, <2>3 DEF Shape
    <3> QED
      BY <1>4, <2>1, <3>1, SweptQueue
  <2> QED
    BY <2>2, <2>3
<1>9. Shape'
  BY <1>1, <1>2, <1>3, <1>8 DEF Shape, Locations
<1> QED
  BY <1>2, <1>4, <1>5, <1>6, <1>7, <1>8, <1>9, OwnStep DEF Waiting, Clear, HasRead

\* Leaving a replay, with the queue swept of its barrier or left alone.
LEMMA IdleStep ==
  ASSUME IInv, NEW w \in Writers, Idle(w), locks' = Released(w),
         NEW q, Swept(q, w), queue' = q, tables' = tables,
         used' \in [DOMAIN Bounds -> Nat],
         \A s \in unsettled : QueuedFor(s) # {} => s \in unsettled'
  PROVE  IInv'
<1>1. Shape
  BY DEF IInv
<1>2. Only(w) /\ pc'[w] = "idle"
  BY <1>1 DEF Idle, Only, Shape
<1>3. /\ IsSeq(queue)' /\ Tasks' /\ Behind'
      /\ \A s : QueuedFor(s)' = QueuedFor(s)
  BY <1>2, SweptQueue
<1>4. /\ locks' \in [Stats -> Writers \cup {None}]
      /\ \A s \in Stats : locks[s] # None /\ locks[s] # w => locks'[s] = locks[s]
  BY <1>1 DEF Released, Shape
<1>5. Shape'
  BY <1>1, <1>3, <1>4 DEF Shape, Idle, Locations
<1> QED
  BY <1>2, <1>3, <1>4, <1>5, OwnStep DEF Waiting, Clear, HasRead

\* No bound is exceeded.
LEMMA UsedIsTyped ==
  ASSUME Shape, NEW bound \in DOMAIN Bounds, Use(bound)
  PROVE  used' \in [DOMAIN Bounds -> Nat]
  BY DEF Shape, Use

\* A wait that runs out of time exceeds none either.
LEMMA TimeIsTyped ==
  ASSUME Shape, NEW w, RunsOutOfTime(w)
  PROVE  used' \in [DOMAIN Bounds -> Nat]
<1>1. "timeouts" \in DOMAIN Bounds
  BY DEF Bounds
<1> QED
  BY <1>1, UsedIsTyped DEF Shape, RunsOutOfTime

\* A settle barrier that has run leaves no write of its statistics queued.
LEMMA SettleStep ==
  ASSUME IInv, NEW w \in Writers, Settle(w)
  PROVE  IInv'
<1>1. /\ pc[w] = "settled" /\ Shape
      /\ UNCHANGED <<tables, locks, offer, seen, anchor, plan, headHolds,
                     unconfirmed, used>>
  BY DEF Settle, IInv
<1>2. /\ \A s \in Writes(offer[w]) : locks[s] = w /\ QueuedFor(s) = {}
      /\ Swept(queue, w)
  BY <1>1, QueueIsSwept DEF IInv, Exclusive, NothingQueued, Waiting, Clear
<1>3. CASE barriers[w] < SettleBarriers
  <2>1. pc' = [pc EXCEPT ![w] = "settle"] /\ queue' = Append(queue, BarrierTask(w))
        /\ unsettled' = unsettled
    BY <1>3 DEF Settle
  <2>2. Only(w) /\ pc'[w] = "settle"
    BY <1>1, <2>1 DEF Only, Shape
  <2>3. /\ IsSeq(queue)' /\ Tasks' /\ Behind'
        /\ \A s : QueuedFor(s)' = QueuedFor(s)
    BY <1>2, <2>1, <2>2, SweptThenBarrier DEF Waiting
  <2>4. Shape'
    BY <1>1, <2>1, <2>3 DEF Shape, Locations
  <2> QED
    BY <1>1, <1>2, <2>1, <2>2, <2>3, <2>4, OwnStep DEF Waiting, Clear, HasRead
<1>4. CASE ~ (barriers[w] < SettleBarriers)
  <2>1. pc' = [pc EXCEPT ![w] = "read"] /\ queue' = queue
        /\ unsettled' = unsettled \ Writes(offer[w])
    BY <1>4 DEF Settle
  <2>2. Only(w) /\ pc'[w] = "read"
    BY <1>1, <2>1 DEF Only, Shape
  <2>3. /\ IsSeq(queue)' /\ Tasks' /\ Behind'
        /\ \A s : QueuedFor(s)' = QueuedFor(s)
    BY <1>2, <2>1, <2>2, SweptQueue
  <2>4. Shape'
    BY <1>1, <2>1, <2>3 DEF Shape, Locations
  <2> QED
    BY <1>1, <1>2, <2>1, <2>2, <2>3, <2>4, OwnStep DEF Waiting, Clear, HasRead
<1> QED
  BY <1>3, <1>4

\* A settle that times out keeps the marks.
LEMMA SettleTimesOutStep ==
  ASSUME IInv, NEW w \in Writers, SettleTimesOut(w)
  PROVE  IInv'
<1>1. used' \in [DOMAIN Bounds -> Nat]
  BY TimeIsTyped DEF SettleTimesOut, IInv
<1> QED
  BY <1>1, QueueIsSwept, IdleStep DEF SettleTimesOut

\* A step that only moves a writer on where it already holds its locks, with
\* nothing of its statistics queued.
LEMMA MoveStep ==
  ASSUME IInv, NEW w \in Writers, pc[w] \in Clear, NEW x \in Clear,
         pc' = [pc EXCEPT ![w] = x],
         UNCHANGED <<tables, queue, locks, unsettled, offer, used>>,
         DOMAIN seen' = Writers, \A v \in Writers \ {w} : seen'[v] = seen[v],
         x \in HasRead => \A s \in Writes(offer[w]) :
           seen'[w][s] = Read(tables[s], ReadFrom(offer[w]), LastHour + 1)
  PROVE  IInv'
<1>1. Shape
  BY DEF IInv
<1>2. /\ \A s \in Writes(offer[w]) : locks[s] = w /\ QueuedFor(s) = {}
      /\ Swept(queue, w)
  BY QueueIsSwept DEF IInv, Exclusive, NothingQueued, Waiting, Clear
<1>3. Only(w) /\ pc'[w] = x
  BY <1>1 DEF Only, Shape
<1>4. /\ IsSeq(queue)' /\ Tasks' /\ Behind'
      /\ \A s : QueuedFor(s)' = QueuedFor(s)
  BY <1>2, <1>3, SweptQueue
<1>5. Shape'
  BY <1>1, <1>4 DEF Shape, Locations, Clear
<1> QED
  BY <1>2, <1>3, <1>4, <1>5, OwnStep DEF Clear, Waiting

\* A replay that refuses gives its locks back, and queues nothing.
LEMMA RefuseStep ==
  ASSUME IInv, NEW w \in Writers, pc[w] \notin Waiting, Refuse(w)
  PROVE  IInv'
<1>1. used' \in [DOMAIN Bounds -> Nat]
  BY DEF Refuse, IInv, Shape
<1> QED
  BY <1>1, QueueIsSwept, IdleStep DEF Refuse

\* The first read holds what is stored, with no write of it queued.
LEMMA ReadNearStep ==
  ASSUME IInv, NEW w \in Writers, ReadNear(w)
  PROVE  IInv'
<1>1. PICK x \in {"build", "far"} : pc' = [pc EXCEPT ![w] = x]
  BY DEF ReadNear
<1>2. /\ pc[w] = "read" /\ Shape
      /\ UNCHANGED <<tables, queue, locks, unsettled, offer, used>>
  BY DEF ReadNear, IInv
<1>3. /\ DOMAIN seen' = Writers /\ \A v \in Writers \ {w} : seen'[v] = seen[v]
      /\ \A s \in Writes(offer[w]) :
           seen'[w][s] = Read(tables[s], ReadFrom(offer[w]), LastHour + 1)
  BY <1>2 DEF ReadNear, Shape, Writes
<1> QED
  BY <1>1, <1>2, <1>3, MoveStep DEF Clear

\* What a replay that stays among its reads keeps.
LEMMA StillReading ==
  ASSUME IInv, NEW w \in Writers, pc[w] \in HasRead, NEW x \in HasRead,
         pc' = [pc EXCEPT ![w] = x],
         UNCHANGED <<tables, queue, locks, unsettled, offer, seen, used>>
  PROVE  IInv'
<1>1. /\ DOMAIN seen' = Writers /\ \A v \in Writers \ {w} : seen'[v] = seen[v]
      /\ \A s \in Writes(offer[w]) :
           seen'[w][s] = Read(tables[s], ReadFrom(offer[w]), LastHour + 1)
  BY DEF IInv, Shape, Current
<1>2. pc[w] \in Clear /\ x \in Clear
  BY DEF HasRead, Clear
<1> QED
  BY <1>1, <1>2, MoveStep

\* The second read keeps what the first one holds.
LEMMA ReadFarStep ==
  ASSUME IInv, NEW w \in Writers, ReadFar(w)
  PROVE  IInv'
<1>1. pc[w] = "far"
  BY DEF ReadFar
<1>2. CASE Refuse(w)
  BY <1>1, <1>2, RefuseStep DEF Waiting
<1>3. CASE ~ Refuse(w)
  <2>1. /\ \E x \in {"build", "older"} : pc' = [pc EXCEPT ![w] = x]
        /\ UNCHANGED <<tables, queue, locks, unsettled, offer, seen, used>>
    BY <1>3 DEF ReadFar
  <2> QED
    BY <1>1, <2>1, StillReading DEF HasRead
<1> QED
  BY <1>2, <1>3

\* And so does the third.
LEMMA ReadOlderStep ==
  ASSUME IInv, NEW w \in Writers, ReadOlder(w)
  PROVE  IInv'
<1>1. pc[w] = "older"
  BY DEF ReadOlder
<1>2. CASE Refuse(w)
  BY <1>1, <1>2, RefuseStep DEF Waiting
<1>3. CASE ~ Refuse(w)
  <2>1. /\ pc' = [pc EXCEPT ![w] = "build"]
        /\ UNCHANGED <<tables, queue, locks, unsettled, offer, seen, used>>
    BY <1>3 DEF ReadOlder, replay
  <2> QED
    BY <1>1, <2>1, StillReading DEF HasRead
<1> QED
  BY <1>2, <1>3

\* Another barrier leaves a queue as marked as it was, and the last gives the locks back.
LEMMA NextBarrierStep ==
  ASSUME IInv, NEW w \in Writers, pc[w] \in HasQueued,
         NEW q, Swept(q, w), NextBarrier(w, q),
         UNCHANGED <<tables, unsettled>>, used' \in [DOMAIN Bounds -> Nat]
  PROVE  IInv'
<1>1. CASE barriers[w] < ConfirmBarriers
  <2>1. /\ queue' = Append(q, BarrierTask(w)) /\ pc' = [pc EXCEPT ![w] = "confirm"]
        /\ UNCHANGED <<locks, offer, seen>>
    BY <1>1 DEF NextBarrier
  <2>2. Shape /\ Only(w) /\ pc'[w] = "confirm"
    BY <2>1 DEF IInv, Only, Shape
  <2>3. /\ IsSeq(queue)' /\ Tasks' /\ Behind'
        /\ \A s : QueuedFor(s)' = QueuedFor(s)
    BY <2>1, <2>2, SweptThenBarrier DEF Waiting
  <2>4. \A s \in Writes(offer[w]) : locks[s] = w
    BY DEF IInv, Exclusive, HasQueued, Waiting, Clear
  <2>5. Shape'
    BY <2>1, <2>2, <2>3 DEF Shape, Locations
  <2> QED
    BY <2>1, <2>2, <2>3, <2>4, <2>5, OwnStep DEF Waiting, Clear, HasRead
<1>2. CASE ~ (barriers[w] < ConfirmBarriers)
  BY <1>2, IdleStep DEF NextBarrier
<1> QED
  BY <1>1, <1>2

\* A confirmation whose barrier never called back.
LEMMA ConfirmTimesOutStep ==
  ASSUME IInv, NEW w \in Writers, ConfirmTimesOut(w)
  PROVE  IInv'
<1>1. used' \in [DOMAIN Bounds -> Nat]
  BY TimeIsTyped DEF ConfirmTimesOut, IInv
<1> QED
  BY <1>1, QueueIsSwept, NextBarrierStep DEF ConfirmTimesOut, HasQueued

\* The read of a confirmation's heads changes nothing but its verdict.
LEMMA ReadHeadStep ==
  ASSUME IInv, NEW w \in Writers, ReadHead(w)
  PROVE  IInv'
<1>1. /\ pc[w] = "confirmed" /\ pc' = [pc EXCEPT ![w] = "tail"]
      /\ UNCHANGED <<tables, queue, locks, unsettled, offer, seen, used>>
  BY DEF ReadHead
<1>2. DOMAIN seen' = Writers
  BY <1>1 DEF IInv, Shape
<1> QED
  BY <1>1, <1>2, MoveStep DEF Clear, HasRead

\* A confirmed replay has no write left queued when it clears its marks.
LEMMA ReadTailHoldsStep ==
  ASSUME IInv, NEW w \in Writers, ReadTailHolds(w)
  PROVE  IInv'
<1>1. used' \in [DOMAIN Bounds -> Nat]
  BY DEF ReadTailHolds, IInv, Shape
<1>2. pc[w] = "tail" /\ unsettled' = unsettled \ Writes(offer[w])
  BY DEF ReadTailHolds
<1>3. \A s \in unsettled : QueuedFor(s) # {} => s \in unsettled'
  BY <1>2 DEF IInv, NothingQueued, Clear
<1> QED
  BY <1>1, <1>2, <1>3, QueueIsSwept, IdleStep DEF ReadTailHolds, Waiting

\* A confirmation that failed behind one barrier.
LEMMA ReadTailFailsStep ==
  ASSUME IInv, NEW w \in Writers, ReadTailFails(w)
  PROVE  IInv'
<1>1. used' \in [DOMAIN Bounds -> Nat] /\ pc[w] = "tail"
  BY DEF ReadTailFails, IInv, Shape
<1> QED
  BY <1>1, QueueIsSwept, NextBarrierStep DEF ReadTailFails, HasQueued, Waiting

\* A cancelled replay gives its locks back, and leaves its marks.
LEMMA CancelStep ==
  ASSUME IInv, NEW w \in Writers, Cancel(w)
  PROVE  IInv'
<1>1. "cancels" \in DOMAIN Bounds
  BY DEF Bounds
<1>2. used' \in [DOMAIN Bounds -> Nat]
  BY <1>1, UsedIsTyped DEF Cancel, IInv
<1> QED
  BY <1>2, QueueIsSwept, IdleStep DEF Cancel

\* Building and queueing marks every statistic it writes, in the one step.
LEMMA BuildAndQueueStep ==
  ASSUME IInv, NEW w \in Writers, BuildAndQueue(w)
  PROVE  IInv'
<1>1. PICK tasks : /\ IsSeq(tasks)
                   /\ \A i \in DOMAIN tasks :
                        \E s \in Writes(offer[w]) :
                          /\ IsWrite(tasks[i], s)
                          /\ \A t : IsWrite(tasks[i], t) => t = s
                   /\ queue' = (queue \o tasks) \o <<BarrierTask(w)>>
  <2>1. PICK built : queue' = queue \o WriteTasks(offer[w], built) \o <<BarrierTask(w)>>
    BY DEF BuildAndQueue
  <2> QED
    BY <2>1, WrittenTasks
<1>2. /\ pc[w] = "build" /\ pc' = [pc EXCEPT ![w] = "confirm"]
      /\ unsettled' = unsettled \cup Writes(offer[w])
      /\ seen' = [seen EXCEPT ![w] = NoSeen]
      /\ UNCHANGED <<tables, locks, offer, used>>
  BY DEF BuildAndQueue
<1>3. Shape /\ Only(w) /\ pc'[w] = "confirm"
  BY <1>2 DEF IInv, Shape, Only
<1> DEFINE n == Len(queue)
           m == Len(queue) + Len(tasks)
<1>4. /\ n \in Nat /\ m \in Nat /\ n <= m /\ IsSeq(queue')
      /\ DOMAIN queue = 1 .. n /\ DOMAIN queue' = 1 .. (m + 1)
      /\ \A i \in 1 .. n : queue'[i] = queue[i]
      /\ \A i \in 1 .. (m - n) : i \in DOMAIN tasks /\ queue'[n + i] = tasks[i]
      /\ queue'[m + 1] = BarrierTask(w)
  <2>1. IsSeq(queue)
    BY <1>3 DEF Shape
  <2>2. /\ IsSeq(queue \o tasks)
        /\ n \in Nat /\ Len(tasks) \in Nat /\ Len(queue \o tasks) = m
        /\ DOMAIN queue = 1 .. n /\ DOMAIN tasks = 1 .. Len(tasks)
        /\ \A i \in 1 .. n : (queue \o tasks)[i] = queue[i]
        /\ \A i \in 1 .. Len(tasks) : (queue \o tasks)[n + i] = tasks[i]
    BY <1>1, <2>1, ConcatTasks
  <2>3. /\ IsSeq(<<BarrierTask(w)>>) /\ Len(<<BarrierTask(w)>>) = 1
        /\ <<BarrierTask(w)>>[1] = BarrierTask(w)
    BY DEF IsSeq
  <2>4. /\ IsSeq(queue') /\ DOMAIN queue' = 1 .. (m + 1)
        /\ \A i \in 1 .. m : queue'[i] = (queue \o tasks)[i]
        /\ queue'[m + 1] = BarrierTask(w)
    <3> DEFINE q == queue \o tasks
               r == <<BarrierTask(w)>>
    <3>1. /\ IsSeq(q \o r)
          /\ DOMAIN (q \o r) = 1 .. (Len(q) + Len(r))
          /\ \A i \in 1 .. Len(q) : (q \o r)[i] = q[i]
          /\ \A i \in 1 .. Len(r) : (q \o r)[Len(q) + i] = r[i]
      <4>1. IsSeq(q) /\ IsSeq(r)
        BY <2>2, <2>3
      <4> HIDE DEF q, r
      <4> QED
        BY <4>1, ConcatTasks
    <3>2. queue' = q \o r /\ Len(q) = m /\ Len(r) = 1 /\ r[1] = BarrierTask(w)
      BY <1>1, <2>2, <2>3
    <3> HIDE DEF q, r
    <3>3. queue'[m + 1] = r[1] /\ DOMAIN queue' = 1 .. (m + 1)
      BY <3>1, <3>2
    <3> QED
      BY <3>1, <3>2, <3>3 DEF q
  <2>5. \A i \in 1 .. n : i \in 1 .. m
    BY <2>2
  <2>6. \A i \in 1 .. (m - n) : i \in DOMAIN tasks /\ n + i \in 1 .. m
    BY <2>2
  <2>7. /\ n <= m /\ m \in Nat
        /\ \A i \in 1 .. n : queue'[i] = queue[i]
    BY <2>2, <2>4, <2>5
  <2>8. \A i \in 1 .. (m - n) : i \in DOMAIN tasks /\ queue'[n + i] = tasks[i]
    BY <2>2, <2>4, <2>6
  <2> QED
    BY <2>2, <2>4, <2>7, <2>8
<1>5. ASSUME NEW i \in DOMAIN queue'
      PROVE  \/ i \in DOMAIN queue /\ queue'[i] = queue[i]
             \/ /\ i <= m
                /\ \E s \in Writes(offer[w]) : /\ IsWrite(queue'[i], s)
                                               /\ \A t : IsWrite(queue'[i], t) => t = s
             \/ i = m + 1 /\ queue'[i] = BarrierTask(w)
  <2>1. CASE i \in 1 .. n
    BY <1>4, <2>1
  <2>2. CASE i = m + 1
    BY <1>4, <2>2
  <2>3. CASE i \notin 1 .. n /\ i # m + 1
    <3>1. i - n \in 1 .. (m - n) /\ n + (i - n) = i /\ i <= m
      BY <1>4, <1>5, <2>3
    <3>2. queue'[i] = tasks[i - n] /\ i - n \in DOMAIN tasks
      BY <1>4, <3>1
    <3> QED
      BY <1>1, <3>1, <3>2
  <2> QED
    BY <2>1, <2>2, <2>3
<1>6. \A s : s \notin Writes(offer[w]) => QueuedFor(s)' = QueuedFor(s)
  <2> SUFFICES ASSUME NEW s, s \notin Writes(offer[w])
               PROVE  QueuedFor(s)' = QueuedFor(s)
    OBVIOUS
  <2>1. \A i \in DOMAIN queue : i \in DOMAIN queue' /\ queue'[i] = queue[i]
    BY <1>4
  <2>2. \A i \in DOMAIN queue' :
          IsWrite(queue'[i], s) => i \in DOMAIN queue /\ queue'[i] = queue[i]
    BY <1>5, BarriersDiffer
  <2> QED
    BY <2>1, <2>2 DEF QueuedFor
<1>7. Tasks'
  BY <1>5 DEF IInv, Tasks, IsWrite
<1>8. \A s \in Writes(offer[w]) : locks[s] = w
  BY <1>2 DEF IInv, Exclusive, Clear
<1>9. \A v \in Writers \ {w} : pc[v] \in Waiting \cup Clear =>
        \A s \in Writes(offer[v]) : s \notin Writes(offer[w])
  BY <1>8 DEF IInv, Exclusive
<1>10. ASSUME NEW v \in Writers, NEW j \in DOMAIN queue', queue'[j] = BarrierTask(v)
       PROVE  \/ v = w /\ j = m + 1
              \/ v # w /\ queue[j] = BarrierTask(v) /\ j \in DOMAIN queue
  <2>1. CASE j \in DOMAIN queue /\ queue'[j] = queue[j]
    BY <1>2, <1>10, <2>1 DEF IInv, Behind, Waiting
  <2>2. CASE j = m + 1 /\ queue'[j] = BarrierTask(w)
    BY <1>10, <2>2, BarriersDiffer
  <2> QED
    BY <1>5, <1>10, <2>1, <2>2, BarriersDiffer
<1>11. Behind'
  <2> SUFFICES ASSUME NEW v \in Writers, NEW j \in DOMAIN queue',
                      queue'[j] = BarrierTask(v)
               PROVE  /\ pc'[v] \in Waiting
                      /\ \A i \in DOMAIN queue' : queue'[i] = BarrierTask(v) => i = j
                      /\ \A s \in Writes(offer'[v]) : \A i \in QueuedFor(s)' : i < j
    BY DEF Behind
  <2>1. CASE v = w
    <3>1. j = m + 1 /\ \A i \in DOMAIN queue' : queue'[i] = BarrierTask(v) => i = j
      BY <1>10, <2>1
    <3>2. \A s : \A i \in QueuedFor(s)' : i <= m
      BY <1>4, <1>5, BarriersDiffer DEF QueuedFor
    <3> QED
      BY <1>3, <1>4, <2>1, <3>1, <3>2 DEF Waiting, QueuedFor
  <2>2. CASE v # w
    <3>1. queue[j] = BarrierTask(v) /\ j \in DOMAIN queue
      BY <1>10, <2>2
    <3>2. /\ pc[v] \in Waiting
          /\ \A i \in DOMAIN queue : queue[i] = BarrierTask(v) => i = j
          /\ \A s \in Writes(offer[v]) : \A i \in QueuedFor(s) : i < j
      BY <3>1 DEF IInv, Behind
    <3>3. \A i \in DOMAIN queue' : queue'[i] = BarrierTask(v) => i = j
      BY <1>10, <2>2, <3>2
    <3> QED
      BY <1>2, <1>3, <1>6, <1>9, <2>2, <3>2, <3>3 DEF Only
  <2> QED
    BY <2>1, <2>2
<1>12. Shape'
  BY <1>2, <1>3, <1>4 DEF Shape, Locations
<1>13. Marked'
  BY <1>2, <1>6 DEF IInv, Marked
<1>14. Exclusive'
  BY <1>2, <1>3, <1>8 DEF IInv, Exclusive, Only
<1>15. NothingQueued'
  BY <1>2, <1>3, <1>6, <1>9 DEF IInv, NothingQueued, Only, Clear
<1>16. Current'
  BY <1>2, <1>3 DEF IInv, Current, Only, HasRead
<1> QED
  BY <1>7, <1>11, <1>12, <1>13, <1>14, <1>15, <1>16 DEF IInv

\* The recorder takes its oldest task off the queue, having run it or not.
LEMMA TakenOff ==
  ASSUME IInv, queue # <<>>, queue' = Tail(queue),
         \A w \in Writers : offer'[w] = offer[w] /\ seen'[w] = seen[w],
         \A w \in Writers : Head(queue) # BarrierTask(w) => pc'[w] = pc[w],
         \A w \in Writers : Head(queue) = BarrierTask(w) =>
           pc'[w] = pc[w] \/ pc'[w] \in {"settled", "confirmed"}
  PROVE  /\ IsSeq(queue)' /\ Tasks' /\ Behind' /\ NothingQueued'
         /\ \A s : QueuedFor(s) = {} => QueuedFor(s)' = {}
<1> DEFINE n == Len(queue)
<1>1. /\ n \in Nat \ {0} /\ DOMAIN queue = 1 .. n /\ Head(queue) = queue[1]
      /\ IsSeq(queue') /\ DOMAIN queue' = 1 .. (n - 1)
      /\ \A i \in 1 .. (n - 1) : queue'[i] = queue[i + 1]
  BY TailTasks DEF IInv, Shape
<1>2. \A i \in DOMAIN queue' : i + 1 \in DOMAIN queue /\ queue'[i] = queue[i + 1]
  BY <1>1
<1>3. Tasks'
  BY <1>2 DEF IInv, Tasks
<1>4. \A s : \A i \in QueuedFor(s)' : i + 1 \in QueuedFor(s)
  BY <1>2 DEF QueuedFor
<1>5. Behind'
  <2> SUFFICES ASSUME NEW w \in Writers, NEW j \in DOMAIN queue',
                      queue'[j] = BarrierTask(w)
               PROVE  /\ pc'[w] \in Waiting
                      /\ \A i \in DOMAIN queue' : queue'[i] = BarrierTask(w) => i = j
                      /\ \A s \in Writes(offer'[w]) : \A i \in QueuedFor(s)' : i < j
    BY DEF Behind
  <2>1. j + 1 \in DOMAIN queue /\ queue[j + 1] = BarrierTask(w) /\ j \in Nat /\ j > 0
    BY <1>1, <1>2
  <2>2. /\ pc[w] \in Waiting
        /\ \A i \in DOMAIN queue : queue[i] = BarrierTask(w) => i = j + 1
        /\ \A s \in Writes(offer[w]) : \A i \in QueuedFor(s) : i < j + 1
    BY <2>1 DEF IInv, Behind
  <2>3. Head(queue) # BarrierTask(w)
    BY <1>1, <2>1, <2>2
  <2>4. \A i \in DOMAIN queue' : queue'[i] = BarrierTask(w) => i = j
    BY <1>1, <1>2, <2>1, <2>2
  <2>5. \A s \in Writes(offer'[w]) : \A i \in QueuedFor(s)' : i < j
    <3> SUFFICES ASSUME NEW s \in Writes(offer'[w]), NEW i \in QueuedFor(s)'
                 PROVE  i < j
      OBVIOUS
    <3>1. i + 1 < j + 1 /\ i \in Int
      BY <1>1, <1>4, <2>2 DEF QueuedFor
    <3> QED
      BY <2>1, <3>1
  <2> QED
    BY <2>2, <2>3, <2>4, <2>5
<1>6. NothingQueued'
  <2> SUFFICES ASSUME NEW w \in Writers, pc'[w] \in Clear,
                      NEW s \in Writes(offer'[w])
               PROVE  QueuedFor(s)' = {}
    BY DEF NothingQueued
  <2>1. CASE Head(queue) = BarrierTask(w)
    <3>1. \A i \in QueuedFor(s) : i < 1
      BY <1>1, <2>1 DEF IInv, Behind
    <3>2. \A i \in QueuedFor(s) : i \in 1 .. n
      BY <1>1 DEF QueuedFor
    <3>3. QueuedFor(s) = {}
      BY <1>1, <3>1, <3>2
    <3> QED
      BY <1>4, <3>3
  <2>2. CASE Head(queue) # BarrierTask(w)
    BY <1>4, <2>2 DEF IInv, NothingQueued
  <2> QED
    BY <2>1, <2>2
<1> QED
  BY <1>1, <1>3, <1>4, <1>5, <1>6

\* A task taken off the queue leaves the marks right, and the reads of others.
LEMMA TakenOffStep ==
  ASSUME IInv, queue # <<>>, queue' = Tail(queue),
         UNCHANGED <<locks, unsettled, offer, seen>>,
         pc' = Resumed(Head(queue)) \/ pc' = pc,
         DOMAIN tables' = Stats,
         \A s \in Stats : IsWrite(Head(queue), s) \/ tables'[s] = tables[s],
         used' \in [DOMAIN Bounds -> Nat]
  PROVE  IInv'
<1>1. Shape /\ Tasks
  BY DEF IInv
<1>2. /\ Head(queue) = queue[1] /\ 1 \in DOMAIN queue
  BY <1>1, TailTasks DEF Shape
<1>3. /\ pc' \in [Writers -> Locations]
      /\ \A w \in Writers : Head(queue) # BarrierTask(w) => pc'[w] = pc[w]
      /\ \A w \in Writers : Head(queue) = BarrierTask(w) =>
           pc'[w] = pc[w] \/ pc'[w] \in {"settled", "confirmed"}
  <2>1. CASE pc' = pc
    BY <1>1, <2>1 DEF Shape
  <2>2. CASE pc' = Resumed(Head(queue))
    <3>1. CASE Head(queue).op \in {"import", "adjust"}
      BY <1>1, <2>2, <3>1, BarriersDiffer DEF Resumed, Shape
    <3>2. CASE \E w \in Writers \cup {None} : Head(queue) = BarrierTask(w)
      BY <1>1, <2>2, <3>2, BarriersDiffer, NoneIsNoWriter DEF Resumed, Shape, Locations
    <3> QED
      BY <1>1, <1>2, <3>1, <3>2 DEF Tasks
  <2> QED
    BY <2>1, <2>2
<1>4. /\ IsSeq(queue)' /\ Tasks' /\ Behind' /\ NothingQueued'
      /\ \A s : QueuedFor(s) = {} => QueuedFor(s)' = {}
  BY <1>3, TakenOff
<1>5. \A w \in Writers : Head(queue) = BarrierTask(w) => pc[w] \in Waiting
  BY <1>2 DEF IInv, Behind
<1>6. Shape'
  BY <1>1, <1>3, <1>4 DEF Shape
<1>7. Marked'
  BY <1>4 DEF IInv, Marked
<1>8. Exclusive'
  BY <1>3, <1>5 DEF IInv, Exclusive, Waiting, Clear
<1>9. Current'
  <2> SUFFICES ASSUME NEW w \in Writers, pc'[w] \in HasRead,
                      NEW s \in Writes(offer[w])
               PROVE  seen[w][s] = Read(tables'[s], ReadFrom(offer[w]), LastHour + 1)
    BY DEF Current
  <2>1. pc'[w] = pc[w]
    BY <1>3, <1>5 DEF HasRead, Waiting
  <2>2. QueuedFor(s) = {} /\ s \in Stats
    BY <2>1 DEF IInv, NothingQueued, HasRead, Clear, Writes
  <2>3. ~ IsWrite(Head(queue), s)
    BY <1>2, <2>2 DEF QueuedFor
  <2> QED
    BY <2>1, <2>2, <2>3 DEF IInv, Current
<1> QED
  BY <1>4, <1>6, <1>7, <1>8, <1>9 DEF IInv

\* The recorder runs a task: no replay has read what it changes.
LEMMA RecorderRunsStep ==
  ASSUME IInv, RecorderRuns
  PROVE  IInv'
<1>1. queue # <<>> /\ Tasks /\ Shape
  BY DEF RecorderRuns, IInv
<1>2. Head(queue) = queue[1] /\ 1 \in DOMAIN queue
  BY <1>1, TailTasks DEF Shape
<1>3. Head(queue).op \in {"import", "adjust", "barrier"}
  BY <1>1, <1>2, BarriersDiffer DEF Tasks
<1>4. /\ DOMAIN tables' = Stats
      /\ \A s \in Stats : IsWrite(Head(queue), s) \/ tables'[s] = tables[s]
  BY <1>1, <1>3 DEF RecorderRuns, RunTask, IsWrite, Shape
<1> QED
  BY <1>1, <1>4, TakenOffStep DEF RecorderRuns, replay, Shape

\* A dropped task is a task less.
LEMMA RecorderDropsStep ==
  ASSUME IInv, RecorderDrops
  PROVE  IInv'
<1>1. "drops" \in DOMAIN Bounds
  BY DEF Bounds
<1>2. used' \in [DOMAIN Bounds -> Nat]
  BY <1>1, UsedIsTyped DEF RecorderDrops, IInv
<1> QED
  BY <1>2, TakenOffStep DEF RecorderDrops, replay, IInv, Shape

\* A restart empties the queue with the marks.
LEMMA RestartStep ==
  ASSUME IInv, Restart
  PROVE  IInv'
<1>1. Shape'
  <2>1. "restarts" \in DOMAIN Bounds
    BY DEF Bounds
  <2>2. used' \in [DOMAIN Bounds -> Nat]
    BY <2>1, UsedIsTyped DEF Restart, IInv
  <2> QED
    BY <2>2, EmptyIsSeq DEF Restart, IInv, Shape, Locations
<1>2. \A w \in Writers : pc'[w] = "idle"
  BY DEF Restart
<1>3. Tasks' /\ Marked' /\ Behind'
  BY EmptyIsSeq DEF Restart, Tasks, Marked, QueuedFor, Behind
<1>4. Exclusive' /\ NothingQueued' /\ Current'
  BY <1>2 DEF Exclusive, NothingQueued, Current, Waiting, Clear, HasRead
<1> QED
  BY <1>1, <1>3, <1>4 DEF IInv

\* Every step keeps the invariant.
LEMMA NextStep ==
  ASSUME IInv, Undisturbed', [Next]_vars
  PROVE  IInv'
<1>1. Shape
  BY DEF IInv
<1>2. "requeues" \in DOMAIN Bounds /\ "adjusts" \in DOMAIN Bounds
  BY DEF Bounds
<1>3. ~ RecorderRequeues /\ ~ UserAdjusts
  BY <1>1, <1>2 DEF RecorderRequeues, UserAdjusts, Use, Bounds, Undisturbed, Shape
<1>4. ASSUME NEW w \in Writers, Begin(w) \/ Step(w) \/ TimesOut(w) \/ Cancel(w)
      PROVE  IInv'
  <2>1. CASE Begin(w)
    BY <2>1, BeginStep
  <2>2. CASE TakeLock(w) \/ Settle(w) \/ TimesOut(w) \/ Cancel(w)
    BY <2>2, TakeLockStep, SettleStep, SettleTimesOutStep, ConfirmTimesOutStep,
       CancelStep DEF TimesOut
  <2>3. CASE ReadNear(w) \/ ReadFar(w) \/ ReadOlder(w) \/ BuildAndQueue(w)
    BY <2>3, ReadNearStep, ReadFarStep, ReadOlderStep, BuildAndQueueStep
  <2>4. CASE ReadHead(w) \/ ReadTailHolds(w) \/ ReadTailFails(w)
    BY <2>4, ReadHeadStep, ReadTailHoldsStep, ReadTailFailsStep
  <2> QED
    BY <1>4, <2>1, <2>2, <2>3, <2>4 DEF Step
<1>5. CASE RecorderRuns \/ RecorderDrops \/ Restart
  BY <1>5, RecorderRunsStep, RecorderDropsStep, RestartStep
<1>6. CASE UNCHANGED vars
  BY <1>6 DEF vars, IInv, Shape, Tasks, Exclusive, Marked, QueuedFor, Behind,
              NothingQueued, Current
<1> QED
  BY <1>3, <1>4, <1>5, <1>6 DEF Next

-------------------------------------------------------------------------------
(***************************************************************************)
(* What has been used of the bounds never shrinks, so a behaviour that is  *)
(* undisturbed now has been all along.                                     *)
(***************************************************************************)
Counted == used \in [DOMAIN Bounds -> Nat]

LEMMA UsedGrows ==
  ASSUME Counted, NEW bound \in DOMAIN Bounds, Use(bound)
  PROVE  Counted' /\ (Undisturbed' => Undisturbed)
  BY DEF Counted, Use, Bounds, Undisturbed

LEMMA CountedStep ==
  ASSUME Counted, [Next]_vars
  PROVE  Counted' /\ (Undisturbed' => Undisturbed)
<1>1. {"replays", "requeues", "drops", "timeouts", "cancels", "adjusts", "restarts"}
        \subseteq DOMAIN Bounds
  BY DEF Bounds
<1>2. CASE UNCHANGED used
  BY <1>2 DEF Counted, Undisturbed
<1>3. CASE UNCHANGED vars
  BY <1>2, <1>3 DEF vars
<1>4. ASSUME NEW w \in Writers, Begin(w) \/ Step(w) \/ TimesOut(w) \/ Cancel(w)
      PROVE  Counted' /\ (Undisturbed' => Undisturbed)
  <2>1. CASE Begin(w) \/ Cancel(w)
    BY <1>1, <2>1, UsedGrows DEF Begin, Cancel
  <2>2. CASE TimesOut(w)
    BY <1>1, <1>2, <2>2, UsedGrows DEF TimesOut, SettleTimesOut, ConfirmTimesOut, RunsOutOfTime
  <2>3. CASE TakeLock(w) \/ Settle(w)
    BY <1>2, <2>3 DEF TakeLock, Settle
  <2>4. CASE ReadNear(w) \/ ReadFar(w) \/ ReadOlder(w) \/ BuildAndQueue(w)
    BY <1>2, <2>4 DEF ReadNear, ReadFar, ReadOlder, BuildAndQueue, Refuse
  <2>5. CASE ReadHead(w) \/ ReadTailHolds(w) \/ ReadTailFails(w)
    BY <1>2, <2>5 DEF ReadHead, ReadTailHolds, ReadTailFails
  <2> QED
    BY <1>4, <2>1, <2>2, <2>3, <2>4, <2>5 DEF Step
<1>5. CASE RecorderRuns
  BY <1>2, <1>5 DEF RecorderRuns
<1>6. CASE RecorderRequeues \/ RecorderDrops \/ UserAdjusts \/ Restart
  BY <1>1, <1>6, UsedGrows DEF RecorderRequeues, RecorderDrops, UserAdjusts, Restart
<1> QED
  BY <1>3, <1>4, <1>5, <1>6 DEF Next

-------------------------------------------------------------------------------
\* The invariant holds in every behaviour for as long as no write has been
\* queued again and no user has changed a running sum.
THEOREM Invariance == Spec => [](Undisturbed => IInv)
<1>1. Init => Counted /\ IInv
  BY InitInv DEF IInv, Shape, Counted
<1>2. Counted /\ (Undisturbed => IInv) /\ [Next]_vars
        => Counted' /\ (Undisturbed' => IInv')
  BY CountedStep, NextStep
<1> QED
  BY <1>1, <1>2, PTL DEF Spec

\* No replay builds its running sums on rows that another replay has changed
\* since it read them, or has still to change (async_replay, _async_settle).
THEOREM ReadsCurrent == Spec => []ReadsStayCurrent
<1>1. (Undisturbed => IInv) => ReadsStayCurrent
  BY DEF IInv, NothingQueued, Current, ReadsStayCurrent, HasRead, Clear
<1> QED
  BY <1>1, Invariance, PTL

\* A statistic with a replay's write queued is marked, whatever ended that
\* replay: the next replay of it waits before it reads (_async_settle).
THEOREM QueuedMarked == Spec => []QueuedIsMarked
<1>1. (Undisturbed => IInv) => QueuedIsMarked
  BY DEF IInv, Marked, QueuedIsMarked
<1> QED
  BY <1>1, Invariance, PTL
===============================================================================
