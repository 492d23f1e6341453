------------------------------- MODULE Recorder -------------------------------
(***************************************************************************)
(* Home Assistant's recorder, as the integration uses it: external         *)
(* statistics stored as hourly rows, each a state and a running sum, and   *)
(* the tasks queued on the recorder thread: an import of rows, an          *)
(* adjustment of every running sum from an hour on (by a replay, or by a   *)
(* user in the statistics tools), and a removal, which the integration     *)
(* queues empty as a barrier.  The recorder itself is not part of the      *)
(* repository; it is modelled from what statistics.py and its tests rely   *)
(* on.                                                                     *)
(*                                                                         *)
(* Time is the set Hours of consecutive hours.  A stored table maps every  *)
(* hour to a row or to None; a row without a running sum, which another    *)
(* writer can store, has None for its sum.                                 *)
(***************************************************************************)
EXTENDS Integers, Sequences, FiniteSets

CONSTANTS
  LastHour,   \* the newest hour of the model
  None        \* absent row, sum, hour or writer

ASSUME LastHourAssumption == LastHour \in Nat

Hours == 0 .. LastHour

(***************************************************************************)
(* Stored tables.                                                          *)
(***************************************************************************)
Row == [state : Int, sum : Int \cup {None}]

ASSUME NoneAssumption == None \notin Int /\ None \notin Row

Table == [Hours -> Row \cup {None}]
EmptyTable == [h \in Hours |-> None]

Stored(table) == {h \in Hours : table[h] # None}

\* The hours stored with a running sum: the only ones a replay continues.
Numeric(table) == {h \in Stored(table) : table[h].sum # None}

Newest(hours) == IF hours = {} THEN None
                 ELSE CHOOSE h \in hours : \A g \in hours : g <= h
Oldest(hours) == IF hours = {} THEN None
                 ELSE CHOOSE h \in hours : \A g \in hours : h <= g

\* The newest hour with a running sum before an hour, or None.
Before(table, hour) == Newest({h \in Numeric(table) : h < hour})

\* Whether the running sum of a numeric row follows on from the row before it.
FollowsOn(table, hour) ==
  LET earlier == Before(table, hour)
  IN table[hour].sum = table[hour].state
                         + (IF earlier = None THEN 0 ELSE table[earlier].sum)

\* The hours at which a table has a seam: a running sum that does not follow on.
Seams(table) == {h \in Numeric(table) : ~ FollowsOn(table, h)}

(***************************************************************************)
(* Tasks, and what running one does to a table.                            *)
(***************************************************************************)
ImportTask(stat, rows) == [op |-> "import", stat |-> stat, rows |-> rows]
AdjustTask(stat, from, delta) ==
  [op |-> "adjust", stat |-> stat, from |-> from, delta |-> delta]
UserTask(stat, from, delta) ==
  [op |-> "user", stat |-> stat, from |-> from, delta |-> delta]
BarrierTask(writer) == [op |-> "barrier", writer |-> writer]

\* An import inserts its rows, or updates those stored at the same hours.
Imported(table, rows) == [h \in Hours |-> IF rows[h] # None THEN rows[h] ELSE table[h]]

\* An adjustment shifts every running sum from its hour on; rows without one stay.
Adjusted(table, from, delta) ==
  [h \in Hours |-> IF h >= from /\ table[h] # None /\ table[h].sum # None
                   THEN [table[h] EXCEPT !.sum = @ + delta]
                   ELSE table[h]]

\* The tables after the recorder has run a task.
RunTask(tables, task) ==
  CASE task.op = "import" ->
         [tables EXCEPT ![task.stat] = Imported(@, task.rows)]
    [] task.op \in {"adjust", "user"} ->
         [tables EXCEPT ![task.stat] = Adjusted(@, task.from, task.delta)]
    [] OTHER -> tables
===============================================================================
