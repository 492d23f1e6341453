--------------------------- MODULE StatisticsReplay ---------------------------
(***************************************************************************)
(* statistics.async_replay: the one write path of every import.            *)
(*                                                                         *)
(* Writers (the setup flow and the coordinators of entries) replay hours   *)
(* into a direction's energy and cost statistics.  A replay takes the      *)
(* statistics' locks, waits for what an unconfirmed replay left queued,    *)
(* reads the stored rows and a predecessor for its running sums, builds    *)
(* its rows, queues imports and shifts in one turn of the event loop, and  *)
(* confirms them behind barriers by reading back the joins it wrote.       *)
(*                                                                         *)
(* Every await of the code is a boundary between two actions here, where   *)
(* the recorder, another writer, a timeout or a cancellation can come in.  *)
(***************************************************************************)
EXTENDS Recorder, FiniteSetsExt

CONSTANTS
  Writers,        \* tasks that replay, as a setup attempt or an entry's update
  Energy, Cost,   \* a direction's two statistics
  LockRank,       \* [Stats -> Nat]: the order of the statistics' IDs
  Near, Far,      \* how far back a predecessor is looked for, in hours
  Offers,         \* the hours and states a replay may be given, per statistic
  InitTables,     \* the tables the recorder may hold at first
  SettleBarriers, \* barriers waited for after an unconfirmed replay
  ConfirmBarriers,\* barriers a replay may be confirmed behind
  MaxReplays,     \* bound: replays begun
  MaxRequeues,    \* bound: tasks the recorder queues again on a lock error
  MaxDrops,       \* bound: tasks the recorder drops
  MaxTimeouts,    \* bound: waits that time out though their barrier is queued
  MaxCancels,     \* bound: replays cancelled
  MaxAdjusts,     \* bound: "Adjust sum" made by a user
  MaxRestarts     \* bound: restarts of Home Assistant

Stats == {Energy, Cost}

ASSUME ReplayAssumption ==
  /\ Energy # Cost
  /\ LockRank \in [Stats -> Nat]
  /\ \A s, t \in Stats : LockRank[s] = LockRank[t] => s = t
  /\ None \notin Writers
  /\ Near \in Nat /\ Far \in Nat /\ Near <= Far
  /\ Offers \subseteq [Stats -> [Hours -> Int \cup {None}]]
  /\ \A o \in Offers : (\E h \in Hours : o[Energy][h] # None)
                     /\ \A h \in Hours : o[Cost][h] # None => o[Energy][h] # None
  /\ InitTables \subseteq [Stats -> Table]
  /\ SettleBarriers \in Nat \ {0}
  /\ ConfirmBarriers \in Nat \ {0}

VARIABLES
  tables,    \* the recorder's stored rows, per statistic
  queue,     \* the recorder thread's queued tasks, oldest first
  locks,     \* hass.data[DOMAIN]["write_locks"]: each statistic's holder
  unsettled, \* hass.data[DOMAIN]["replay_unsettled"]
  pc,        \* where each writer's replay is
  offer,     \* the hours each replay was given, per statistic
  seen,      \* the rows each replay read, per statistic
  anchor,    \* the predecessor each replay found, per statistic
  plan,      \* the rows, following hour and shift each replay queued
  barriers,  \* how many barriers of its current wait each replay has queued
  headHolds, \* whether the head read of a confirmation held
  unconfirmed, \* history: hours replayed, and not confirmed since, per statistic
  used       \* how much of each bound has been used

vars == <<tables, queue, locks, unsettled, pc, offer, seen, anchor, plan,
          barriers, headHolds, unconfirmed, used>>

replay == <<offer, seen, anchor, plan, barriers, headHolds>>

-------------------------------------------------------------------------------
(***************************************************************************)
(* What a replay works out, from what it was given and what it read.       *)
(***************************************************************************)
Given(o, s) == {h \in Hours : o[s][h] # None}
Writes(o) == {s \in Stats : Given(o, s) # {}}
First(o, s) == Oldest(Given(o, s))
Last(o, s) == Newest(Given(o, s))

NoOffer == [s \in Stats |-> [h \in Hours |-> None]]
NoSeen == [s \in Stats |-> EmptyTable]
NoAnchor == [s \in Stats |-> None]
NoPlan == [s \in Stats |-> None]

\* A row to continue from, and a statistic's part of what a replay queues.
Anchor == [start : Hours, sum : Int]
Part == [rows : Table, predecessor : Hours \cup {None},
         following : Hours \cup {None}, shift : Int]

ASSUME AbsentAssumption == None \notin Anchor /\ None \notin Part

\* The rows of a table from an hour on, until another, left out.
Read(table, from, until) ==
  [h \in Hours |-> IF h >= from /\ h < until THEN table[h] ELSE None]

\* Where the first read starts, and where the second, of some statistics, does.
ReadFrom(o) == Min({First(o, s) : s \in Writes(o)}) - Near
FarFrom(o, S) == Min({First(o, s) : s \in S}) - Far

\* The predecessor a read holds: the newest row before the span with a sum.
Predecessor(o, s, rows) ==
  LET hour == Before(rows, First(o, s))
  IN IF hour = None THEN None ELSE [start |-> hour, sum |-> rows[hour].sum]

RowsBefore(o, s, rows) == \E h \in Stored(rows) : h < First(o, s)

\* The states of every hour of the span, given or stored (_build_rows).
SpanStates(o, s, rows) ==
  [h \in Hours |-> IF o[s][h] # None THEN o[s][h]
                   ELSE IF First(o, s) <= h /\ h <= Last(o, s) /\ rows[h] # None
                   THEN rows[h].state ELSE None]

\* The running sum at every hour, accumulated from one hour to the next.
RunningSums(states, base) ==
  LET sum[h \in Hours] == (IF h = 0 THEN base ELSE sum[h - 1])
                          + (IF states[h] = None THEN 0 ELSE states[h])
  IN sum

\* A statistic's part of a replay: its rows, and the shift of the rows after it.
Built(o, s, rows, before) ==
  LET states == SpanStates(o, s, rows)
      base == IF before = None THEN 0 ELSE before.sum
      sums == RunningSums(states, base)
      following == Oldest({h \in Numeric(rows) : h > Last(o, s)})
  IN [rows |-> [h \in Hours |->
                  IF states[h] = None THEN None
                  ELSE [state |-> states[h], sum |-> sums[h]]],
      predecessor |-> IF before = None THEN None ELSE before.start,
      following |-> following,
      shift |-> IF following = None THEN 0
                ELSE sums[Last(o, s)] + rows[following].state - rows[following].sum]

\* Mutant: only the given hours are queued, not those rebuilt between them.
ImportGivenOnly(o, built, s) ==
  IF s \in Writes(o)
  THEN <<ImportTask(s, [h \in Hours |-> IF o[s][h] = None THEN None ELSE built[s].rows[h]])>>
  ELSE <<>>

\* The tasks a replay queues: the rows of every statistic, then the shifts.
ImportOf(o, built, s) ==
  IF s \in Writes(o) THEN <<ImportTask(s, built[s].rows)>> ELSE <<>>

\* Mutant: the shift starts an hour late.
ShiftLater(o, built, s) ==
  IF s \in Writes(o) /\ built[s].shift # 0
  THEN <<AdjustTask(s, Last(o, s) + 2, built[s].shift)>> ELSE <<>>

ShiftOf(o, built, s) ==
  IF s \in Writes(o) /\ built[s].shift # 0
  THEN <<AdjustTask(s, Last(o, s) + 1, built[s].shift)>> ELSE <<>>
WriteTasks(o, built) ==
  (ImportOf(o, built, Energy) \o ImportOf(o, built, Cost))
    \o (ShiftOf(o, built, Energy) \o ShiftOf(o, built, Cost))

\* Mutant: the row before the span is not read back.
FirstRowHolds(o, s, part, table) ==
  /\ table[First(o, s)] # None
  /\ table[First(o, s)].sum = part.rows[First(o, s)].sum

\* Whether the first row written follows on from its predecessor, read back.
HeadHolds(o, s, part, table) ==
  LET first == First(o, s)
  IN /\ table[first] # None
     /\ table[first].sum = part.rows[first].sum
     /\ part.predecessor # None =>
          Before(table, first) # None /\ FollowsOn(table, first)

\* Mutant: the row after the span is not read back.
LastRowHolds(o, s, part, table) == table[Last(o, s)] = part.rows[Last(o, s)]

\* Whether the last row written is stored, and the rows after it follow on.
TailHolds(o, s, part, table) ==
  LET last == Last(o, s)
      after == part.following
  IN /\ table[last] = part.rows[last]
     /\ after # None =>
          /\ table[after] # None
          /\ table[after].sum # None
          /\ table[after].sum - table[last].sum = table[after].state

-------------------------------------------------------------------------------
(***************************************************************************)
(* State.                                                                  *)
(***************************************************************************)
Locations ==
  {"idle", "lock", "settle", "settled", "read", "far", "older", "build",
   "confirm", "confirmed", "tail"}

\* Where a replay holds rows it read, and where its writes are queued.
HasRead == {"far", "older", "build"}
HasQueued == {"confirm", "confirmed", "tail"}

Bounds ==
  [replays |-> MaxReplays, requeues |-> MaxRequeues, drops |-> MaxDrops,
   timeouts |-> MaxTimeouts, cancels |-> MaxCancels, adjusts |-> MaxAdjusts,
   restarts |-> MaxRestarts]

ASSUME BoundsAssumption == \A bound \in DOMAIN Bounds : Bounds[bound] \in Nat

Unused == [bound \in DOMAIN Bounds |-> 0]

Use(bound) == /\ used[bound] < Bounds[bound]
              /\ used' = [used EXCEPT ![bound] = @ + 1]

\* Mutant: a replay that ends keeps what it queued.
IdleKeepingPlan(w) ==
  /\ pc' = [pc EXCEPT ![w] = "idle"]
  /\ offer' = [offer EXCEPT ![w] = NoOffer]
  /\ seen' = [seen EXCEPT ![w] = NoSeen]
  /\ anchor' = [anchor EXCEPT ![w] = NoAnchor]
  /\ barriers' = [barriers EXCEPT ![w] = 0]
  /\ headHolds' = [headHolds EXCEPT ![w] = FALSE]
  /\ UNCHANGED plan

Idle(w) ==
  /\ pc' = [pc EXCEPT ![w] = "idle"]
  /\ offer' = [offer EXCEPT ![w] = NoOffer]
  /\ seen' = [seen EXCEPT ![w] = NoSeen]
  /\ anchor' = [anchor EXCEPT ![w] = NoAnchor]
  /\ plan' = [plan EXCEPT ![w] = NoPlan]
  /\ barriers' = [barriers EXCEPT ![w] = 0]
  /\ headHolds' = [headHolds EXCEPT ![w] = FALSE]

Held(w) == {s \in Stats : locks[s] = w}
Released(w) == [s \in Stats |-> IF locks[s] = w THEN None ELSE locks[s]]

\* A barrier nobody waits for still runs, and tells nobody.
Forsaken(w) == [i \in DOMAIN queue |-> IF queue[i] = BarrierTask(w)
                                       THEN BarrierTask(None) ELSE queue[i]]

\* A wait for a barrier times out: it was lost, or the recorder is only busy.
Lost(w) == \A i \in DOMAIN queue : queue[i] # BarrierTask(w)
RunsOutOfTime(w) == IF Lost(w) THEN UNCHANGED used ELSE Use("timeouts")

\* The hours a replay that ends unconfirmed adds to those of others.
Unconfirmed(w) == [s \in Stats |-> unconfirmed[s] \cup Given(offer[w], s)]

Init ==
  /\ tables \in InitTables
  /\ queue = <<>>
  /\ locks = [s \in Stats |-> None]
  /\ unsettled = {}
  /\ pc = [w \in Writers |-> "idle"]
  /\ offer = [w \in Writers |-> NoOffer]
  /\ seen = [w \in Writers |-> NoSeen]
  /\ anchor = [w \in Writers |-> NoAnchor]
  /\ plan = [w \in Writers |-> NoPlan]
  /\ barriers = [w \in Writers |-> 0]
  /\ headHolds = [w \in Writers |-> FALSE]
  /\ unconfirmed = [s \in Stats |-> {}]
  /\ used = Unused

-------------------------------------------------------------------------------
(***************************************************************************)
(* Taking the locks, and waiting for unconfirmed writes.                   *)
(***************************************************************************)

\* async_replay is called with some hours: it asks for its first lock.
Begin(w) ==
  /\ pc[w] = "idle"
  /\ Use("replays")
  /\ \E o \in Offers : offer' = [offer EXCEPT ![w] = o]
  /\ pc' = [pc EXCEPT ![w] = "lock"]
  /\ UNCHANGED <<tables, queue, locks, unsettled, seen, anchor, plan, barriers,
                 headHolds, unconfirmed>>

\* Mutant: nothing waits for the unconfirmed writes of a replay before this one.
TakeLockAndRead(w) ==
  /\ pc[w] = "lock"
  /\ \E s \in Writes(offer[w]) \ Held(w) :
       /\ \A t \in Writes(offer[w]) \ Held(w) : LockRank[s] <= LockRank[t]
       /\ locks[s] = None
       /\ locks' = [locks EXCEPT ![s] = w]
       /\ pc' = [pc EXCEPT ![w] = IF Writes(offer[w]) \subseteq Held(w) \cup {s}
                                  THEN "read" ELSE "lock"]
  /\ UNCHANGED <<tables, queue, unsettled, offer, seen, anchor, plan, barriers,
                 headHolds, unconfirmed, used>>

\* Mutant: the locks are taken in any order.
TakeAnyLock(w) ==
  /\ pc[w] = "lock"
  /\ \E s \in Writes(offer[w]) \ Held(w) :
       /\ locks[s] = None
       /\ locks' = [locks EXCEPT ![s] = w]
       /\ IF Writes(offer[w]) \subseteq Held(w) \cup {s}
          THEN IF unsettled \cap Writes(offer[w]) = {}
               THEN /\ pc' = [pc EXCEPT ![w] = "read"]
                    /\ UNCHANGED <<queue, barriers>>
               ELSE /\ pc' = [pc EXCEPT ![w] = "settle"]
                    /\ queue' = Append(queue, BarrierTask(w))
                    /\ barriers' = [barriers EXCEPT ![w] = 1]
          ELSE UNCHANGED <<pc, queue, barriers>>
  /\ UNCHANGED <<tables, unsettled, offer, seen, anchor, plan, headHolds, unconfirmed, used>>

\* The next lock, in the order of the IDs.  With the last one, and no await
\* between, a replay of statistics marked unsettled queues its first barrier.
TakeLock(w) ==
  /\ pc[w] = "lock"
  /\ \E s \in Writes(offer[w]) \ Held(w) :
       /\ \A t \in Writes(offer[w]) \ Held(w) : LockRank[s] <= LockRank[t]
       /\ locks[s] = None
       /\ locks' = [locks EXCEPT ![s] = w]
       /\ IF Writes(offer[w]) \subseteq Held(w) \cup {s}
          THEN IF unsettled \cap Writes(offer[w]) = {}
               THEN /\ pc' = [pc EXCEPT ![w] = "read"]
                    /\ UNCHANGED <<queue, barriers>>
               ELSE /\ pc' = [pc EXCEPT ![w] = "settle"]
                    /\ queue' = Append(queue, BarrierTask(w))
                    /\ barriers' = [barriers EXCEPT ![w] = 1]
          ELSE UNCHANGED <<pc, queue, barriers>>
  /\ UNCHANGED <<tables, unsettled, offer, seen, anchor, plan, headHolds, unconfirmed, used>>

\* Mutant: one barrier is waited for, and not a second.
SettleOnce(w) ==
  /\ pc[w] = "settled"
  /\ pc' = [pc EXCEPT ![w] = "read"]
  /\ barriers' = [barriers EXCEPT ![w] = 0]
  /\ unsettled' = unsettled \ Writes(offer[w])
  /\ UNCHANGED <<tables, queue, locks, offer, seen, anchor, plan, headHolds, unconfirmed, used>>

\* A settle barrier has run: queue the next one, or clear the marks and read.
Settle(w) ==
  /\ pc[w] = "settled"
  /\ IF barriers[w] < SettleBarriers
     THEN /\ pc' = [pc EXCEPT ![w] = "settle"]
          /\ queue' = Append(queue, BarrierTask(w))
          /\ barriers' = [barriers EXCEPT ![w] = @ + 1]
          /\ UNCHANGED unsettled
     ELSE /\ pc' = [pc EXCEPT ![w] = "read"]
          /\ barriers' = [barriers EXCEPT ![w] = 0]
          /\ unsettled' = unsettled \ Writes(offer[w])
          /\ UNCHANGED queue
  /\ UNCHANGED <<tables, locks, offer, seen, anchor, plan, headHolds, unconfirmed, used>>

\* Mutant: the marks are cleared though the wait timed out.
SettleTimesOutCleared(w) ==
  /\ pc[w] = "settle"
  /\ RunsOutOfTime(w)
  /\ queue' = Forsaken(w)
  /\ locks' = Released(w)
  /\ unsettled' = unsettled \ Writes(offer[w])
  /\ Idle(w)
  /\ UNCHANGED <<tables, unconfirmed>>

\* A settle barrier timed out: StatisticsWriteError, and nothing was read.
SettleTimesOut(w) ==
  /\ pc[w] = "settle"
  /\ RunsOutOfTime(w)
  /\ queue' = Forsaken(w)
  /\ locks' = Released(w)
  /\ Idle(w)
  /\ UNCHANGED <<tables, unsettled, unconfirmed>>

-------------------------------------------------------------------------------
(***************************************************************************)
(* Reading, and building and queueing the rows.                            *)
(***************************************************************************)

\* Whether every statistic of a replay has a predecessor.
Anchored(w, anchors) == \A s \in Writes(offer[w]) : anchors[s] # None

\* The statistics the first read held no predecessor of: the second read's.
Searched(w) == {s \in Writes(offer[w]) :
                  Predecessor(offer[w], s, seen[w][s]) = None}

\* The first read, from 14 days before the earliest span on.
ReadNear(w) ==
  LET rows == [s \in Stats |->
                 IF s \in Writes(offer[w])
                 THEN Read(tables[s], ReadFrom(offer[w]), LastHour + 1) ELSE EmptyTable]
      anchors == [s \in Stats |-> IF s \in Writes(offer[w])
                                  THEN Predecessor(offer[w], s, rows[s]) ELSE None]
  IN /\ pc[w] = "read"
     /\ seen' = [seen EXCEPT ![w] = rows]
     /\ anchor' = [anchor EXCEPT ![w] = anchors]
     /\ pc' = [pc EXCEPT ![w] = IF Anchored(w, anchors) THEN "build" ELSE "far"]
     /\ UNCHANGED <<tables, queue, locks, unsettled, offer, plan, barriers,
                    headHolds, unconfirmed, used>>

\* StatisticsAnchorError: no running sum to continue, but rows to continue from.
Refuse(w) ==
  /\ locks' = Released(w)
  /\ Idle(w)
  /\ UNCHANGED <<tables, queue, unsettled, unconfirmed, used>>

\* The second read, back to 800 days before the spans without a predecessor.
ReadFar(w) ==
  LET o == offer[w]
      rows == [s \in Searched(w) |->
                 Read(tables[s], FarFrom(o, Searched(w)), ReadFrom(o))]
      anchors == [s \in Stats |-> IF s \in Searched(w) THEN Predecessor(o, s, rows[s])
                                  ELSE anchor[w][s]]
  IN /\ pc[w] = "far"
     /\ IF \E s \in Searched(w) :
             /\ anchors[s] = None
             /\ RowsBefore(o, s, seen[w][s]) \/ RowsBefore(o, s, rows[s])
        THEN Refuse(w)
        ELSE /\ anchor' = [anchor EXCEPT ![w] = anchors]
             /\ pc' = [pc EXCEPT ![w] = IF Anchored(w, anchors) THEN "build" ELSE "older"]
             /\ UNCHANGED <<tables, queue, locks, unsettled, offer, seen, plan,
                            barriers, headHolds, unconfirmed, used>>

\* The third read: with any older row, the sums may not start from zero.
ReadOlder(w) ==
  /\ pc[w] = "older"
  /\ IF \E s \in Searched(w) :
          /\ anchor[w][s] = None
          /\ Stored(Read(tables[s], 0, FarFrom(offer[w], Searched(w)))) # {}
     THEN Refuse(w)
     ELSE /\ pc' = [pc EXCEPT ![w] = "build"]
          /\ UNCHANGED <<tables, queue, locks, unsettled, replay, unconfirmed, used>>

\* The rows are built, the statistics marked, and every write and the first
\* barrier queued, with no await between.
BuildAndQueue(w) ==
  LET o == offer[w]
      built == [s \in Stats |-> IF s \in Writes(o)
                                THEN Built(o, s, seen[w][s], anchor[w][s]) ELSE None]
  IN /\ pc[w] = "build"
     /\ plan' = [plan EXCEPT ![w] = built]
     /\ unsettled' = unsettled \cup Writes(o)
     /\ queue' = queue \o WriteTasks(o, built) \o <<BarrierTask(w)>>
     /\ barriers' = [barriers EXCEPT ![w] = 1]
     /\ seen' = [seen EXCEPT ![w] = NoSeen]
     /\ anchor' = [anchor EXCEPT ![w] = NoAnchor]
     /\ pc' = [pc EXCEPT ![w] = "confirm"]
     /\ UNCHANGED <<tables, locks, offer, headHolds, unconfirmed, used>>

-------------------------------------------------------------------------------
(***************************************************************************)
(* Confirming the writes.                                                  *)
(***************************************************************************)

\* Another barrier, or, after the last, StatisticsWriteError: the statistics
\* stay marked, and the caller keeps the hours to offer again.
NextBarrier(w, tasks) ==
  IF barriers[w] < ConfirmBarriers
  THEN /\ queue' = Append(tasks, BarrierTask(w))
       /\ barriers' = [barriers EXCEPT ![w] = @ + 1]
       /\ pc' = [pc EXCEPT ![w] = "confirm"]
       /\ headHolds' = [headHolds EXCEPT ![w] = FALSE]
       /\ UNCHANGED <<locks, offer, seen, anchor, plan, unconfirmed>>
  ELSE /\ queue' = tasks
       /\ locks' = Released(w)
       /\ unconfirmed' = Unconfirmed(w)
       /\ Idle(w)

ConfirmTimesOut(w) ==
  /\ pc[w] = "confirm"
  /\ RunsOutOfTime(w)
  /\ NextBarrier(w, Forsaken(w))
  /\ UNCHANGED <<tables, unsettled>>

\* The first of the two reads of a confirmation: where the spans start.
ReadHead(w) ==
  /\ pc[w] = "confirmed"
  /\ headHolds' = [headHolds EXCEPT ![w] =
        \A s \in Writes(offer[w]) : HeadHolds(offer[w], s, plan[w][s], tables[s])]
  /\ pc' = [pc EXCEPT ![w] = "tail"]
  /\ UNCHANGED <<tables, queue, locks, unsettled, offer, seen, anchor, plan,
                 barriers, unconfirmed, used>>

\* The second: where they end.
JoinsHold(w) ==
  /\ headHolds[w]
  /\ \A s \in Writes(offer[w]) : TailHolds(offer[w], s, plan[w][s], tables[s])

\* Confirmed: the marks are cleared, and async_replay returns.
ReadTailHolds(w) ==
  /\ pc[w] = "tail"
  /\ JoinsHold(w)
  /\ unsettled' = unsettled \ Writes(offer[w])
  /\ locks' = Released(w)
  /\ unconfirmed' = [s \in Stats |->
                IF s \in Writes(offer[w])
                THEN unconfirmed[s] \ (First(offer[w], s) .. Last(offer[w], s)) ELSE unconfirmed[s]]
  /\ Idle(w)
  /\ UNCHANGED <<tables, queue, used>>

\* A join does not read back as written: perhaps behind another barrier.
ReadTailFails(w) ==
  /\ pc[w] = "tail"
  /\ ~ JoinsHold(w)
  /\ NextBarrier(w, queue)
  /\ UNCHANGED <<tables, unsettled, used>>

\* A closed dialog, a time limit or an unload cancels the task where it awaits.
Cancel(w) ==
  /\ pc[w] # "idle"
  /\ Use("cancels")
  /\ queue' = Forsaken(w)
  /\ locks' = Released(w)
  /\ unconfirmed' = IF pc[w] \in HasQueued THEN Unconfirmed(w) ELSE unconfirmed
  /\ Idle(w)
  /\ UNCHANGED <<tables, unsettled>>

-------------------------------------------------------------------------------
(***************************************************************************)
(* The recorder, the user and Home Assistant.                              *)
(***************************************************************************)

\* Who waits for a barrier that has run goes on, once the event loop resumes it.
Resumed(task) ==
  IF task.op = "barrier" /\ task.writer # None
  THEN [pc EXCEPT ![task.writer] = IF @ = "settle" THEN "settled" ELSE "confirmed"]
  ELSE pc

\* The recorder runs its oldest task.
RecorderRuns ==
  /\ queue # <<>>
  /\ tables' = RunTask(tables, Head(queue))
  /\ pc' = Resumed(Head(queue))
  /\ queue' = Tail(queue)
  /\ UNCHANGED <<locks, unsettled, replay, unconfirmed, used>>

\* On MySQL or MariaDB, a write that meets a lock error queues itself again.
RecorderRequeues ==
  /\ queue # <<>>
  /\ Head(queue).op # "barrier"
  /\ Use("requeues")
  /\ queue' = Append(Tail(queue), Head(queue))
  /\ UNCHANGED <<tables, locks, unsettled, pc, replay, unconfirmed>>

\* A task fails for good: a write is lost, a barrier never calls back.
RecorderDrops ==
  /\ queue # <<>>
  /\ Use("drops")
  /\ queue' = Tail(queue)
  /\ UNCHANGED <<tables, locks, unsettled, pc, replay, unconfirmed>>

\* A user makes an "Adjust sum" in the statistics tools.
UserAdjusts ==
  /\ Use("adjusts")
  /\ \E s \in Stats, h \in Hours, delta \in {-1, 1} :
       queue' = Append(queue, UserTask(s, h, delta))
  /\ UNCHANGED <<tables, locks, unsettled, pc, replay, unconfirmed>>

\* Home Assistant restarts: only what the recorder has saved remains.
Restart ==
  /\ Use("restarts")
  /\ queue' = <<>>
  /\ locks' = [s \in Stats |-> None]
  /\ unsettled' = {}
  /\ pc' = [w \in Writers |-> "idle"]
  /\ offer' = [w \in Writers |-> NoOffer]
  /\ seen' = [w \in Writers |-> NoSeen]
  /\ anchor' = [w \in Writers |-> NoAnchor]
  /\ plan' = [w \in Writers |-> NoPlan]
  /\ barriers' = [w \in Writers |-> 0]
  /\ headHolds' = [w \in Writers |-> FALSE]
  /\ unconfirmed' = [s \in Stats |-> unconfirmed[s] \cup
                      UNION {Given(offer[w], s) : w \in {v \in Writers : pc[v] \in HasQueued}}]
  /\ UNCHANGED tables

-------------------------------------------------------------------------------
Step(w) ==
  \/ TakeLock(w) \/ Settle(w)
  \/ ReadNear(w) \/ ReadFar(w) \/ ReadOlder(w) \/ BuildAndQueue(w)
  \/ ReadHead(w) \/ ReadTailHolds(w) \/ ReadTailFails(w)

TimesOut(w) == SettleTimesOut(w) \/ ConfirmTimesOut(w)

Next ==
  \/ \E w \in Writers : Begin(w) \/ Step(w) \/ TimesOut(w) \/ Cancel(w)
  \/ RecorderRuns \/ RecorderRequeues \/ RecorderDrops
  \/ UserAdjusts \/ Restart

Spec == Init /\ [][Next]_vars

\* The event loop resumes every task that can go on, the recorder thread works
\* off its queue, and a barrier that never calls back times out.
LostBarrier(w) == Lost(w) /\ TimesOut(w)

Fairness ==
  /\ WF_vars(RecorderRuns)
  /\ \A w \in Writers : WF_vars(Step(w)) /\ WF_vars(LostBarrier(w))

FairSpec == Spec /\ Fairness

-------------------------------------------------------------------------------
(***************************************************************************)
(* Properties.                                                             *)
(***************************************************************************)
Offered == [Stats -> [Hours -> Int \cup {None}]]

\* Every variable holds a value of its kind; what a replay read, found and
\* queued is there exactly where the code holds it.
TypeOK ==
  /\ tables \in [Stats -> Table]
  /\ \A i \in DOMAIN queue : queue[i].op \in {"import", "adjust", "user", "barrier"}
  /\ locks \in [Stats -> Writers \cup {None}]
  /\ unsettled \subseteq Stats
  /\ pc \in [Writers -> Locations]
  /\ offer \in [Writers -> Offered]
  /\ seen \in [Writers -> [Stats -> Table]]
  /\ \A w \in Writers, s \in Stats :
       (plan[w][s] # None) <=> (pc[w] \in HasQueued /\ s \in Writes(offer[w]))
  /\ barriers \in [Writers -> 0 .. (SettleBarriers + ConfirmBarriers)]
  /\ headHolds \in [Writers -> BOOLEAN]
  /\ unconfirmed \in [Stats -> SUBSET Hours]
  /\ \A bound \in DOMAIN Bounds : used[bound] \in 0 .. Bounds[bound]

\* The write tasks of replays queued for a statistic.
IsWrite(task, s) == task.op \in {"import", "adjust"} /\ task.stat = s
QueuedFor(s) == {i \in DOMAIN queue : IsWrite(queue[i], s)}

\* The recorder has queued no write again behind a barrier, and no user has
\* changed a running sum.
Undisturbed == used.requeues = 0 /\ used.adjusts = 0

\* A replay builds its running sums on rows that are still the stored ones:
\* nothing a replay wrote or queued has come, or can come, between its read
\* and its writes (statistics.py, async_replay and _async_settle).
ReadsStayCurrent ==
  Undisturbed => \A w \in Writers : pc[w] \in HasRead =>
    \A s \in Writes(offer[w]) :
      /\ seen[w][s] = Read(tables[s], ReadFrom(offer[w]), LastHour + 1)
      /\ QueuedFor(s) = {}

\* Every seam in a settled statistic, with no write of it under way, lies at
\* or right after an hour of a replay that was not confirmed, which the caller
\* offers again: no interleaving, timeout, cancellation or lost write leaves
\* a seam that no one knows of (the promise of statistics.py's docstring).
SeamsAreUnconfirmed ==
  \A s \in Stats :
    /\ QueuedFor(s) = {}
    /\ \A w \in Writers : pc[w] \in HasQueued => s \notin Writes(offer[w])
    => \A h \in Seams(tables[s]) :
         \E g \in unconfirmed[s] :
           g <= h /\ (Before(tables[s], h) # None => Before(tables[s], h) <= g)

\* A statistic with a replay's writes queued is held or marked unsettled, so
\* that the next replay of it waits for them before it reads (_async_settle).
QueuedIsMarked ==
  Undisturbed => \A s \in Stats : QueuedFor(s) # {} => s \in unsettled

\* A replay is confirmed only with every row of its spans stored as it built
\* it: "Its writes are confirmed before it returns" (statistics.py:12).
ConfirmedIsStored ==
  [][\A w \in Writers : ReadTailHolds(w) =>
       \A s \in Writes(offer[w]) : \A h \in First(offer[w], s) .. Last(offer[w], s) :
         tables[s][h] = plan[w][s].rows[h]]_vars

\* Once a replay is confirmed, the running sums of its spans and of the first
\* row after each follow on, whatever seams the tables held before: a replay
\* heals what it covers (statistics.py, async_replay's steps 2 and 3).
ConfirmedIsSeamless ==
  [][\A w \in Writers : ReadTailHolds(w) =>
       \A s \in Writes(offer[w]) :
         LET last == Last(offer[w], s)
             after == Oldest({h \in Numeric(tables[s]) : h > last})
         IN Seams(tables[s]) \cap
              ((First(offer[w], s) .. last) \cup {after}) = {}]_vars

\* The step a numeric row makes from the numeric row before it.
StepAt(table, hour) ==
  LET earlier == Before(table, hour)
  IN table[hour].sum - (IF earlier = None THEN 0 ELSE table[earlier].sum)

\* Steps later than the first row after a replay's span are never touched: an
\* "Adjust sum" a user made there is kept (statistics.py:8-11).
LaterStepsAreKept ==
  [][RecorderRuns /\ Head(queue).op # "user" =>
       \A s \in Stats : \A h \in Numeric(tables[s]) :
         StepAt(tables'[s], h) # StepAt(tables[s], h) =>
           \E w \in Writers :
             /\ plan[w][s] # None
             /\ First(offer[w], s) <= h
             /\ h <= Last(offer[w], s) \/ h = plan[w][s].following]_vars

\* Every replay that was begun ends: no two replays wait on each other's locks,
\* and no barrier that never calls back is waited for without end.
ReplayEnds == \A w \in Writers : pc[w] # "idle" ~> pc[w] = "idle"
===============================================================================
