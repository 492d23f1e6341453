---------------------------- MODULE SetupFlowProofs ----------------------------
(***************************************************************************)
(* That one import runs at most, shown by its dialog, one entry is created *)
(* at most, no flow makes more attempts than it may, no removal takes rows *)
(* that were there before, of a success or of the entry, and an entry      *)
(* knows of an hour half saved, for any dialogs, attempts, faults and      *)
(* passes; and, while the recorder queues one import again at most, that   *)
(* no attempt leaves anything and each starts with nothing left.           *)
(***************************************************************************)
EXTENDS SetupFlow, FiniteSetTheorems, SequenceTheorems, TLAPS

\* What holds of each flow, with n entries created, Home Assistant stopping or not.
FlowOK(fl, n, stopped) ==
  /\ fl.step = "none" => ~ fl.named /\ fl.sub = None /\ fl.task = None /\ ~ fl.created
  /\ fl.step \notin {"none", "user", "gone"} => fl.named
  /\ fl.sub # None => fl.named /\ ~ fl.created /\ fl.step \in Forms \cup {"gone"}
  /\ fl.created => fl.step \in Parked \cup {"gone"}
  /\ fl.task # None => fl.step \in {"initial_import", "gone"}
  /\ Running(fl) => fl.step = "initial_import" /\ ~ stopped
  /\ Live(fl) /\ fl.named /\ ~ fl.created => n = 0

Holds(fl) == Live(fl) /\ fl.named

IInv ==
  /\ flow \in [Flows -> FlowRecord]
  /\ entry \in EntryRecord \cup {None} /\ entries \in {0, 1} /\ stopping \in BOOLEAN
  /\ entries = 1 => entry # None
  /\ \A f \in Flows : FlowOK(flow[f], entries, stopping)
  /\ \A f, g \in Flows : Holds(flow[f]) /\ Holds(flow[g]) => f = g

\* What one flow may become while nothing else does.
Keeps(old, new, n, stopped) ==
  new \in FlowRecord /\ FlowOK(new, n, stopped) /\ (Holds(new) => Holds(old))

-------------------------------------------------------------------------------
(***************************************************************************)
(* One flow.                                                               *)
(***************************************************************************)
LEMMA AllFlows ==
  ASSUME flow' \in [Flows -> FlowRecord],
         \A f \in Flows : FlowOK(flow'[f], entries', stopping'),
         \A f, g \in Flows : Holds(flow'[f]) /\ Holds(flow'[g]) => f = g,
         entry' \in EntryRecord \cup {None}, entries' \in {0, 1}, stopping' \in BOOLEAN,
         entries' = 1 => entry' # None
  PROVE  IInv'
<1>1. \A f \in Flows : FlowOK(flow[f], entries, stopping)' <=> FlowOK(flow'[f], entries', stopping')
  BY DEF FlowOK, Running, Live
<1>2. \A f \in Flows : Holds(flow[f])' <=> Holds(flow'[f])
  BY DEF Holds, Live
<1> QED BY <1>1, <1>2 DEF IInv

LEMMA EachFlow ==
  ASSUME IInv, DOMAIN flow' = Flows, flow' = [f \in Flows |-> flow'[f]],
         \A f \in Flows : Keeps(flow[f], flow'[f], entries, stopping'),
         UNCHANGED <<entry, entries>>, stopping' \in BOOLEAN
  PROVE  IInv'
<1>1. flow' \in [Flows -> FlowRecord]
  BY DEF Keeps
<1>2. \A f \in Flows : FlowOK(flow'[f], entries', stopping')
  BY DEF Keeps
<1>3. \A f, g \in Flows : Holds(flow'[f]) /\ Holds(flow'[g]) => f = g
  BY DEF Keeps, IInv
<1> QED BY <1>1, <1>2, <1>3, AllFlows DEF IInv

LEMMA OneFlow ==
  ASSUME IInv, NEW f \in Flows, NEW fl, Keeps(flow[f], fl, entries, stopping),
         Change(f, fl), UNCHANGED <<entry, entries, stopping>>
  PROVE  IInv'
<1>1. flow' = [flow EXCEPT ![f] = fl] BY DEF Change
<1>2. \A g \in Flows : flow'[g] = IF g = f THEN fl ELSE flow[g]
  BY <1>1 DEF IInv
<1>3. DOMAIN flow' = Flows /\ flow' = [g \in Flows |-> flow'[g]]
  BY <1>1 DEF IInv
<1>4. \A g \in Flows : Keeps(flow[g], flow[g], entries, stopping)
  BY DEF IInv, Keeps
<1>5. \A g \in Flows : Keeps(flow[g], flow'[g], entries, stopping')
  BY <1>2, <1>4
<1> QED BY <1>3, <1>5, EachFlow DEF IInv

LEMMA ShowFormKeeps ==
  ASSUME NEW fl \in FlowRecord, NEW n, NEW stopped, FlowOK(fl, n, stopped),
         fl.step \in Parked \cup {"gone"}, fl.named, NEW step \in Forms
  PROVE  Keeps(fl, ShowForm(fl, step), n, stopped)
<1> DEFINE new == ShowForm(fl, step)
<1>1. new \in FlowRecord BY DEF ShowForm, Ended, FlowRecord, Steps, Forms
<1>2. /\ new.step = (IF fl.step = "gone" THEN "gone" ELSE step) /\ new.sub = None
      /\ new.named = fl.named /\ new.task = fl.task /\ new.created = fl.created
  BY DEF ShowForm, Ended, FlowRecord
<1> HIDE DEF new
<1>3. FlowOK(new, n, stopped) /\ (Holds(new) => Holds(fl))
  BY <1>2 DEF FlowOK, Holds, Live, Running, Parked, Forms
<1> QED BY <1>1, <1>3 DEF Keeps, new

LEMMA AbortKeeps ==
  ASSUME NEW fl \in FlowRecord, NEW n, NEW stopped, FlowOK(fl, n, stopped),
         fl.step # "initial_import"
  PROVE  Keeps(fl, AbortFlow(fl), n, stopped)
<1> DEFINE new == AbortFlow(fl)
<1>1. new \in FlowRecord BY DEF AbortFlow, Ended, FlowRecord, Steps
<1>2. /\ new.step = "gone" /\ new.sub = None
      /\ new.named = fl.named /\ new.task = fl.task /\ new.created = fl.created
  BY DEF AbortFlow, Ended, FlowRecord
<1> HIDE DEF new
<1>3. FlowOK(new, n, stopped) /\ (Holds(new) => Holds(fl))
  BY <1>2 DEF FlowOK, Holds, Live, Running, Parked, Forms
<1> QED BY <1>1, <1>3 DEF Keeps, new

LEMMA HandlesKeeps ==
  ASSUME NEW fl \in FlowRecord, NEW n, NEW stopped, FlowOK(fl, n, stopped),
         fl.step \in Forms \cup {"gone"}, fl.named, ~ fl.created,
         NEW name \in {"send", "check", "discover"}
  PROVE  Keeps(fl, Handles(fl, name), n, stopped)
<1> DEFINE new == Handles(fl, name)
<1>1. new \in FlowRecord BY DEF Handles, FlowRecord, Steps, Submissions
<1>2. /\ new.step = fl.step /\ new.named = fl.named /\ new.task = fl.task
      /\ new.created = fl.created
  BY DEF Handles, FlowRecord
<1> HIDE DEF new
<1>3. FlowOK(new, n, stopped) /\ (Holds(new) => Holds(fl))
  BY <1>2 DEF FlowOK, Holds, Live, Running, Parked, Forms
<1> QED BY <1>1, <1>3 DEF Keeps, new

LEMMA WaitsKeeps ==
  ASSUME NEW fl \in FlowRecord, NEW n, NEW stopped, FlowOK(fl, n, stopped),
         fl.step \in Forms \cup {"gone"}, fl.named, ~ fl.created,
         NEW goal \in {"first", "retry", "entry"}, NEW left \in Nat
  PROVE  Keeps(fl, Waits(fl, goal, left), n, stopped)
<1> DEFINE new == Waits(fl, goal, left)
<1>1. new \in FlowRecord BY DEF Waits, FlowRecord, Steps, Submissions
<1>2. /\ new.step = fl.step /\ new.named = fl.named /\ new.task = fl.task
      /\ new.created = fl.created
  BY DEF Waits, FlowRecord
<1> HIDE DEF new
<1>3. FlowOK(new, n, stopped) /\ (Holds(new) => Holds(fl))
  BY <1>2 DEF FlowOK, Holds, Live, Running, Parked, Forms
<1> QED BY <1>1, <1>3 DEF Keeps, new

\* An attempt that moves on, ends or is rolled back.
LEMMA MovesKeeps ==
  ASSUME NEW fl \in FlowRecord, NEW n, NEW stopped, FlowOK(fl, n, stopped),
         fl.task # None, Running(fl), NEW at \in {"confirming", "visible"}
  PROVE  Keeps(fl, [fl EXCEPT !.task.at = at], n, stopped)
<1> DEFINE new == [fl EXCEPT !.task.at = at]
<1>1. new \in FlowRecord BY DEF FlowRecord, Steps, Attempts
<1>2. /\ new.step = fl.step /\ new.named = fl.named /\ new.sub = fl.sub
      /\ new.created = fl.created
  BY DEF FlowRecord
<1> HIDE DEF new
<1>3. FlowOK(new, n, stopped) /\ (Holds(new) => Holds(fl))
  BY <1>2 DEF FlowOK, Holds, Live, Running, Parked, Forms
<1> QED BY <1>1, <1>3 DEF Keeps, new

LEMMA RolledBackKeeps ==
  ASSUME NEW f, NEW fl \in FlowRecord, NEW n, NEW stopped, FlowOK(fl, n, stopped),
         fl.task # None, NEW error \in Errors, NEW half \in BOOLEAN
  PROVE  /\ Keeps(fl, RolledBack(f, fl, error, half), n, stopped)
         /\ ~ Running(RolledBack(f, fl, error, half))
<1> DEFINE new == RolledBack(f, fl, error, half)
<1>1. new \in FlowRecord BY DEF RolledBack, FlowRecord, Attempts
<1>2. /\ new.step = fl.step /\ new.named = fl.named /\ new.sub = fl.sub
      /\ new.created = fl.created /\ new.task.at = "rolling back"
  BY DEF RolledBack, FlowRecord
<1> HIDE DEF new
<1>3. ~ Running(new) /\ FlowOK(new, n, stopped) /\ (Holds(new) => Holds(fl))
  BY <1>2 DEF FlowOK, Holds, Live, Running
<1> QED BY <1>1, <1>3 DEF Keeps, new

LEMMA FailedAttemptKeeps ==
  ASSUME NEW fl \in FlowRecord, NEW n, NEW stopped, FlowOK(fl, n, stopped),
         fl.task # None, NEW error \in Errors \cup {None}
  PROVE  Keeps(fl, FailedAttempt(fl, error), n, stopped)
<1> DEFINE new == FailedAttempt(fl, error)
<1>1. new \in FlowRecord
  <2>1. PICK step \in Steps : step = IF fl.step = "gone" THEN fl.step ELSE "import_failed"
    BY DEF FlowRecord, Steps, Forms
  <2>2. new = [fl EXCEPT !.task = None, !.error = error, !.own = FALSE, !.step = step]
    BY <2>1 DEF FailedAttempt
  <2> HIDE DEF new
  <2> QED BY <2>2 DEF FlowRecord
<1>2. /\ new.step = (IF fl.step = "gone" THEN "gone" ELSE "import_failed")
      /\ new.named = fl.named /\ new.task = None /\ new.sub = fl.sub
      /\ new.created = fl.created
  BY DEF FailedAttempt, FlowRecord
<1> HIDE DEF new
<1>3. FlowOK(new, n, stopped) /\ (Holds(new) => Holds(fl))
  BY <1>2 DEF FlowOK, Holds, Live, Running, Parked, Forms
<1> QED BY <1>1, <1>3 DEF Keeps, new

\* A flow without an attempt may be removed.
LEMMA GoneKeeps ==
  ASSUME NEW fl \in FlowRecord, NEW n, NEW stopped, FlowOK(fl, n, stopped), ~ Running(fl)
  PROVE  Keeps(fl, [fl EXCEPT !.step = "gone"], n, stopped)
<1> DEFINE new == [fl EXCEPT !.step = "gone"]
<1>1. new \in FlowRecord BY DEF FlowRecord, Steps
<1>2. /\ new.step = "gone" /\ new.named = fl.named /\ new.sub = fl.sub
      /\ new.task = fl.task /\ new.created = fl.created
  BY DEF FlowRecord
<1> HIDE DEF new
<1>3. FlowOK(new, n, stopped) /\ ~ Holds(new)
  BY <1>2 DEF FlowOK, Holds, Live, Running
<1> QED BY <1>1, <1>3 DEF Keeps, new

\* A cancelled flow imports nothing, and may be removed.
LEMMA CancelledKeeps ==
  ASSUME NEW f, NEW fl \in FlowRecord, NEW n, NEW stopped, FlowOK(fl, n, stopped)
  PROVE  /\ Keeps(fl, Cancelled(f, fl), n, TRUE)
         /\ Keeps(fl, [Cancelled(f, fl) EXCEPT !.step = "gone"], n, stopped)
<1> DEFINE fl2 == Cancelled(f, fl)
<1>1. fl2 \in FlowRecord /\ ~ Running(fl2) /\ FlowOK(fl2, n, stopped) /\ (Holds(fl2) => Holds(fl))
  <2>1. CASE Running(fl)
    <3>1. fl.task # None BY <2>1 DEF Running
    <3>2. fl2 = RolledBack(f, fl, "cancelled", fl.task.at = "confirming")
      BY <2>1 DEF Cancelled
    <3>3. Keeps(fl, fl2, n, stopped) /\ ~ Running(fl2)
      BY <3>1, <3>2, RolledBackKeeps, Zenon DEF Errors
    <3> QED BY <3>3 DEF Keeps
  <2>2. CASE fl.task # None /\ ~ Running(fl)
    <3>1. fl2 = FailedAttempt(fl, "cancelled") BY <2>2 DEF Cancelled
    <3>2. Keeps(fl, fl2, n, stopped) BY <2>2, <3>1, FailedAttemptKeeps DEF Errors
    <3>3. ~ Running(fl2) BY <3>1 DEF FailedAttempt, Running, FlowRecord
    <3> QED BY <3>2, <3>3 DEF Keeps
  <2>3. CASE fl.task = None
    BY <2>3 DEF Cancelled, Running
  <2> QED BY <2>1, <2>2, <2>3
<1>2. Keeps(fl, fl2, n, TRUE)
  BY <1>1 DEF Keeps, FlowOK
<1>3. Keeps(fl2, [fl2 EXCEPT !.step = "gone"], n, stopped)
  BY <1>1, GoneKeeps
<1> QED BY <1>1, <1>2, <1>3 DEF Keeps

LEMMA AttemptTyped ==
  ASSUME NEW fl \in FlowRecord, NEW task \in Attempts, NEW attempts \in Nat
  PROVE  [fl EXCEPT !.attempts = attempts, !.task = task, !.error = None, !.imported = 0,
                    !.step = IF @ = "gone" THEN @ ELSE "initial_import", !.own = FALSE]
           \in FlowRecord
<1>1. "initial_import" \in Steps /\ 0 \in Nat /\ FALSE \in BOOLEAN
      /\ None \in Errors \cup {None} /\ task \in Attempts \cup {None}
  BY DEF Steps
<1>2. (IF fl.step = "gone" THEN fl.step ELSE "initial_import") \in Steps
  BY <1>1 DEF FlowRecord
<1> QED BY <1>1, <1>2 DEF FlowRecord

LEMMA AttemptRuns ==
  ASSUME NEW fl \in FlowRecord, NEW n, NEW stopped, FlowOK(fl, n, stopped),
         fl.sub # None, fl.step # "gone", ~ stopped,
         NEW fl2 \in FlowRecord, NEW task \in Attempts, NEW attempts \in Nat,
         fl2.named = fl.named, fl2.step = fl.step, fl2.created = fl.created
  PROVE  Keeps(fl, [Ended(fl2, None) EXCEPT
                     !.attempts = attempts, !.task = task, !.error = None, !.imported = 0,
                     !.step = IF @ = "gone" THEN @ ELSE "initial_import", !.own = FALSE],
               n, stopped)
<1> DEFINE new == [Ended(fl2, None) EXCEPT
                     !.attempts = attempts, !.task = task, !.error = None, !.imported = 0,
                     !.step = IF @ = "gone" THEN @ ELSE "initial_import", !.own = FALSE]
<1>1. fl.named /\ ~ fl.created /\ fl.step \in Forms
  BY DEF FlowOK
<1>2. Live(fl) /\ n = 0
  BY <1>1 DEF FlowOK, Live, Forms
<1>3. Ended(fl2, None) \in FlowRecord /\ Ended(fl2, None).step = fl2.step
  BY DEF Ended, FlowRecord
<1>4. /\ new.step = "initial_import" /\ new.named /\ ~ new.created
      /\ new.sub = None /\ new.task = task
  BY <1>1, <1>3 DEF Ended, FlowRecord, Forms
<1>5. new \in FlowRecord
  BY <1>3, AttemptTyped
<1> HIDE DEF new
<1>6. FlowOK(new, n, stopped)
  BY <1>2, <1>4 DEF FlowOK, Forms, Parked, Running
<1>7. Keeps(fl, new, n, stopped)
  BY <1>1, <1>2, <1>5, <1>6 DEF Keeps, Holds
<1> QED BY <1>7 DEF new

LEMMA SettledTyped ==
  ASSUME NEW fl \in FlowRecord
  PROVE  /\ Settled(fl) \in FlowRecord
         /\ Settled(fl).named = fl.named /\ Settled(fl).step = fl.step
         /\ Settled(fl).created = fl.created /\ Settled(fl).attempts = fl.attempts
         /\ Settled(fl).task = fl.task /\ Settled(fl).sub = fl.sub
BY DEF Settled, FlowRecord

LEMMA GivesUpKeeps ==
  ASSUME NEW fl \in FlowRecord, NEW n, NEW stopped, FlowOK(fl, n, stopped), fl.sub # None
  PROVE  Keeps(fl, GivesUp(fl), n, stopped)
<1>1. fl.named /\ fl.step \in Forms \cup {"gone"} BY DEF FlowOK
<1>2. CASE Stops(fl)
  BY <1>1, <1>2, AbortKeeps DEF Forms, GivesUp
<1>3. CASE ~ Stops(fl)
  <2>1. FormOf(fl) \in Forms
    BY <1>1, <1>3 DEF FormOf, Forms, Stops
  <2>2. Keeps(fl, ShowForm(fl, FormOf(fl)), n, stopped)
    BY <1>1, <2>1, ShowFormKeeps DEF Parked
  <2> QED BY <1>3, <2>2 DEF GivesUp
<1> QED BY <1>2, <1>3

-------------------------------------------------------------------------------
(***************************************************************************)
(* Submissions, and what they are answered with.                           *)
(***************************************************************************)
\* What is known of a flow whose submission is handled.
LEMMA Handled ==
  ASSUME NEW fl \in FlowRecord, NEW n, NEW stopped, FlowOK(fl, n, stopped), fl.sub # None
  PROVE  fl.named /\ ~ fl.created /\ fl.step \in Forms \cup {"gone"}
BY DEF FlowOK

LEMMA KeepsAgain ==
  ASSUME NEW old, NEW fl, NEW new, NEW n, NEW stopped,
         Keeps(old, fl, n, stopped), Keeps(fl, new, n, stopped)
  PROVE  Keeps(old, new, n, stopped)
BY DEF Keeps

\* Fields no part of the invariant is about.
LEMMA AccountsKeep ==
  ASSUME NEW fl \in FlowRecord, NEW n, NEW stopped, FlowOK(fl, n, stopped),
         NEW accounts \in {1, 2}
  PROVE  Keeps(fl, [fl EXCEPT !.accounts = accounts], n, stopped)
<1>1. accounts \in 0 .. 2 OBVIOUS
<1> QED BY <1>1 DEF Keeps, FlowRecord, FlowOK, Holds, Live, Running

LEMMA RepeatsKeep ==
  ASSUME NEW fl \in FlowRecord, NEW n, NEW stopped, FlowOK(fl, n, stopped),
         NEW repeats \in {0, 1}
  PROVE  Keeps(fl, [fl EXCEPT !.repeats = repeats], n, stopped)
BY DEF Keeps, FlowRecord, FlowOK, Holds, Live, Running

LEMMA PreparesKeeps ==
  ASSUME IInv, NEW f \in Flows, NEW fl, Keeps(flow[f], fl, entries, stopping),
         fl.step \in Forms \cup {"gone"}, fl.named, ~ fl.created, Prepares(f, fl),
         UNCHANGED <<entry, entries, stopping>>
  PROVE  IInv'
<1> DEFINE new == Waits(fl, "first", Passes - 1)
<1>1. Passes - 1 \in Nat BY SetupAssumption
<1>2. Keeps(fl, new, entries, stopping) BY <1>1, WaitsKeeps DEF Keeps
<1>3. Keeps(flow[f], new, entries, stopping) BY <1>2, KeepsAgain
<1>4. Change(f, new) BY DEF Prepares
<1> QED BY <1>3, <1>4, OneFlow

LEMMA RollsBackKeeps ==
  ASSUME IInv, NEW f \in Flows, NEW goal \in {"retry", "entry"},
         flow[f].step \in Forms, flow[f].named, ~ flow[f].created,
         RollsBack(f, flow[f], goal), UNCHANGED <<entry, entries, stopping>>
  PROVE  IInv'
<1>1. PICK left \in Nat : Change(f, Waits(flow[f], goal, left))
  BY SetupAssumption DEF RollsBack
<1>2. flow[f] \in FlowRecord /\ FlowOK(flow[f], entries, stopping) BY DEF IInv
<1>3. Keeps(flow[f], Waits(flow[f], goal, left), entries, stopping)
  BY <1>2, WaitsKeeps
<1> QED BY <1>1, <1>3, OneFlow

\* The email is submitted: no flow but this one may hold it afterwards.
LEMMA EmailKeeps ==
  ASSUME IInv, NEW f \in Flows, SubmitEmail(f)
  PROVE  IInv'
<1> DEFINE refused == entry # None \/ Importers(f) # {}
           next(g) == IF g = f
                      THEN IF refused THEN AbortFlow(flow[f])
                           ELSE Handles([flow[f] EXCEPT !.named = TRUE], "send")
                      ELSE IF entry = None /\ flow[g].named /\ flow[g].step \in Parked
                           THEN [flow[g] EXCEPT !.step = "gone"]
                           ELSE flow[g]
<1>1. flow' = [g \in Flows |-> next(g)]
  BY DEF SubmitEmail
<1>2. flow[f].step = "user" /\ ~ flow[f].created /\ flow[f].sub = None
      /\ UNCHANGED <<entry, entries, stopping>>
  BY DEF SubmitEmail, Submits
<1>3. \A g \in Flows : flow[g] \in FlowRecord /\ FlowOK(flow[g], entries, stopping)
  BY DEF IInv
<1>4. ASSUME NEW g \in Flows, g # f
      PROVE  Keeps(flow[g], next(g), entries, stopping)
  <2>1. Keeps(flow[g], flow[g], entries, stopping)
    BY <1>3 DEF Keeps
  <2>2. ASSUME flow[g].step \in Parked
        PROVE  Keeps(flow[g], [flow[g] EXCEPT !.step = "gone"], entries, stopping)
    <3>1. ~ Running(flow[g]) BY <1>3, <2>2 DEF FlowOK, Parked, Forms
    <3> QED BY <1>3, <3>1, GoneKeeps
  <2> QED BY <1>4, <2>1, <2>2
<1>5. CASE refused
  <2>1. Keeps(flow[f], next(f), entries, stopping)
    BY <1>2, <1>3, <1>5, AbortKeeps
  <2>2. \A g \in Flows : Keeps(flow[g], flow'[g], entries, stopping')
    BY <1>1, <1>2, <1>4, <2>1
  <2>3. DOMAIN flow' = Flows /\ flow' = [g \in Flows |-> flow'[g]]
    BY <1>1
  <2> QED BY <1>2, <2>2, <2>3, EachFlow DEF IInv
<1>6. CASE ~ refused
  <2>1. next(f) = Handles([flow[f] EXCEPT !.named = TRUE], "send")
    BY <1>6
  <2>2. entries = 0 BY <1>6 DEF IInv
  <2>3. next(f) \in FlowRecord /\ FlowOK(next(f), entries, stopping)
    <3> DEFINE fl == [flow[f] EXCEPT !.named = TRUE]
    <3>1. fl \in FlowRecord /\ fl.step = "user" /\ fl.named /\ ~ fl.created
      <4>1. PICK old \in FlowRecord : old = flow[f] /\ old.step = "user" /\ ~ old.created
        BY <1>2, <1>3
      <4>2. /\ [old EXCEPT !.named = TRUE] \in FlowRecord
            /\ [old EXCEPT !.named = TRUE].step = old.step
            /\ [old EXCEPT !.named = TRUE].named
            /\ [old EXCEPT !.named = TRUE].created = old.created
        BY DEF FlowRecord
      <4> QED BY <4>1, <4>2
    <3>2. FlowOK(fl, entries, stopping)
      BY <1>2, <1>3, <2>2 DEF FlowOK, FlowRecord, Running, Live, Forms, Parked
    <3> HIDE DEF fl
    <3>3. Keeps(fl, Handles(fl, "send"), entries, stopping)
      BY <3>1, <3>2, HandlesKeeps DEF Forms
    <3> QED BY <2>1, <3>3 DEF Keeps, fl
  <2>4. \A g \in Flows \ {f} : ~ Holds(next(g))
    BY <1>3, <1>6 DEF Importers, Holds, Live, FlowRecord
  <2> HIDE DEF next
  <2>5. \A g \in Flows : next(g) \in FlowRecord /\ FlowOK(next(g), entries, stopping)
    BY <1>4, <2>3 DEF Keeps
  <2>6. \A g, h \in Flows : Holds(next(g)) /\ Holds(next(h)) => g = h
    BY <2>4
  <2> QED BY <1>1, <1>2, <2>5, <2>6, AllFlows DEF IInv
<1> QED BY <1>5, <1>6

-------------------------------------------------------------------------------
(***************************************************************************)
(* Attempts, the entry and Home Assistant.                                 *)
(***************************************************************************)
LEMMA StartAttemptKeeps ==
  ASSUME IInv, NEW f \in Flows, StartAttempt(f)
  PROVE  IInv'
<1>1. flow[f] \in FlowRecord /\ FlowOK(flow[f], entries, stopping)
  BY DEF IInv
<1>2. flow[f].sub # None
  BY DEF StartAttempt, Waited, Handling
<1>3. CASE ~ Ready(flow[f]) \/ Stops(flow[f])
  <2>1. Change(f, GivesUp(flow[f])) /\ UNCHANGED <<entry, entries, stopping>>
    BY <1>3 DEF StartAttempt, NotReady, Only
  <2> QED BY <1>1, <1>2, <2>1, GivesUpKeeps, OneFlow
<1>4. CASE ~ (~ Ready(flow[f]) \/ Stops(flow[f]))
  <2> DEFINE fl == Settled(flow[f])
             task == [at |-> "fetching", error |-> None]
             attempts == flow[f].attempts + 1
             new == [Ended(fl, None) EXCEPT
                       !.attempts = attempts, !.task = task, !.error = None, !.imported = 0,
                       !.step = IF @ = "gone" THEN @ ELSE "initial_import", !.own = FALSE]
  <2>1. flow[f].step # "gone" /\ ~ stopping
    BY <1>4 DEF Stops
  <2>2. /\ fl \in FlowRecord /\ fl.named = flow[f].named /\ fl.step = flow[f].step
        /\ fl.created = flow[f].created /\ fl.attempts = flow[f].attempts
    BY <1>1, SettledTyped
  <2>3. task \in Attempts /\ attempts \in Nat
    <3>1. None \in Errors \cup {None} OBVIOUS
    <3>2. flow[f].attempts \in Nat BY <1>1 DEF FlowRecord
    <3> QED BY <3>1, <3>2 DEF Attempts
  <2>4. Keeps(flow[f], new, entries, stopping)
    <3> HIDE DEF fl, task, attempts
    <3> QED BY <1>1, <1>2, <2>1, <2>2, <2>3, AttemptRuns
  <2>5. Ended(fl, None).attempts + 1 = attempts
    BY <2>2 DEF Ended, FlowRecord
  <2>6. Change(f, new) /\ UNCHANGED <<entry, entries, stopping>>
    BY <1>4, <2>5 DEF StartAttempt, Only
  <2> HIDE DEF new
  <2> QED BY <2>4, <2>6, OneFlow
<1> QED BY <1>3, <1>4

LEMMA CreateEntryKeeps ==
  ASSUME IInv, NEW f \in Flows, NEW fl \in FlowRecord,
         flow[f].step \in Parked, flow[f].named, ~ flow[f].created,
         fl.step = flow[f].step, fl.named = flow[f].named, fl.task = flow[f].task,
         CreateEntry(f, fl)
  PROVE  IInv'
<1> DEFINE new == [Ended(fl, "entry") EXCEPT !.created = TRUE]
<1>1. flow[f] \in FlowRecord /\ FlowOK(flow[f], entries, stopping)
  BY DEF IInv
<1>2. Holds(flow[f]) /\ entries = 0
  BY <1>1 DEF Holds, Live, FlowOK, Parked, Forms
<1>3. flow' = [flow EXCEPT ![f] = new] /\ entries' = 1 /\ UNCHANGED stopping
  BY <1>2 DEF CreateEntry, Change
<1>4. entry' \in EntryRecord
  <2>1. fl.unconfirmed \in BOOLEAN BY DEF FlowRecord
  <2> QED BY <2>1 DEF CreateEntry, EntryRecord
<1>5. new \in FlowRecord
  BY DEF Ended, FlowRecord
<1>6. /\ new.step = flow[f].step /\ new.named /\ new.task = flow[f].task
      /\ new.created /\ new.sub = None
  BY DEF Ended, FlowRecord
<1> HIDE DEF new
<1>7. FlowOK(new, 1, stopping)
  BY <1>1, <1>6 DEF FlowOK, Running, Live, Parked, Forms
<1>8. ASSUME NEW g \in Flows, g # f PROVE ~ Holds(flow[g]) /\ FlowOK(flow[g], 1, stopping)
  <2>1. ~ Holds(flow[g]) /\ FlowOK(flow[g], entries, stopping)
    BY <1>2, <1>8 DEF IInv
  <2> QED BY <2>1 DEF FlowOK, Holds
<1>9. \A g \in Flows : flow'[g] = IF g = f THEN new ELSE flow[g]
  BY <1>3 DEF IInv
<1>10. flow' \in [Flows -> FlowRecord]
  BY <1>3, <1>5 DEF IInv
<1>11. \A g \in Flows : FlowOK(flow'[g], entries', stopping')
  BY <1>3, <1>7, <1>8, <1>9
<1>12. \A g, h \in Flows : Holds(flow'[g]) /\ Holds(flow'[h]) => g = h
  BY <1>8, <1>9
<1>13. entry' # None
  BY <1>4, SetupAssumption
<1> QED BY <1>3, <1>4, <1>10, <1>11, <1>12, <1>13, AllFlows DEF IInv

LEMMA FinishKeeps ==
  ASSUME IInv, NEW f \in Flows, Finish(f) \/ FinishWithout(f)
  PROVE  IInv'
<1>1. flow[f] \in FlowRecord /\ FlowOK(flow[f], entries, stopping)
  BY DEF IInv
<1>2. CASE Finish(f)
  <2>1. flow[f].step = "finish" /\ ~ flow[f].created /\ CreateEntry(f, flow[f])
    BY <1>2 DEF Finish, MayFinish
  <2>2. flow[f].named BY <1>1, <2>1 DEF FlowOK
  <2> QED BY <1>1, <2>1, <2>2, CreateEntryKeeps DEF Parked
<1>3. CASE FinishWithout(f)
  <2>1. flow[f].sub # None
    BY <1>3 DEF FinishWithout, Waited, Handling
  <2>2. CASE ~ Ready(flow[f]) \/ Stops(flow[f])
    <3>1. Change(f, GivesUp(flow[f])) /\ UNCHANGED <<entry, entries, stopping>>
      BY <1>3, <2>2 DEF FinishWithout, NotReady, Only
    <3> QED BY <1>1, <2>1, <3>1, GivesUpKeeps, OneFlow
  <2>3. CASE ~ (~ Ready(flow[f]) \/ Stops(flow[f]))
    <3>1. flow[f].step \in Parked /\ flow[f].named /\ ~ flow[f].created
      BY <1>1, <2>1, <2>3, Handled DEF Stops, Parked
    <3>2. CreateEntry(f, Settled(flow[f]))
      BY <1>3, <2>3 DEF FinishWithout
    <3> QED BY <1>1, <3>1, <3>2, SettledTyped, CreateEntryKeeps
  <2> QED BY <2>2, <2>3
<1> QED BY <1>2, <1>3

LEMMA StopKeeps ==
  ASSUME IInv, Stop PROVE IInv'
<1>1. flow' = [f \in Flows |-> Cancelled(f, flow[f])] /\ stopping' = TRUE
      /\ UNCHANGED <<entry, entries>>
  BY DEF Stop
<1>2. ASSUME NEW f \in Flows PROVE Keeps(flow[f], flow'[f], entries, stopping')
  <2>1. flow[f] \in FlowRecord /\ FlowOK(flow[f], entries, stopping) BY DEF IInv
  <2>2. Keeps(flow[f], Cancelled(f, flow[f]), entries, TRUE)
    BY <2>1, CancelledKeeps
  <2> QED BY <1>1, <2>2
<1>3. DOMAIN flow' = Flows /\ flow' = [f \in Flows |-> flow'[f]]
  BY <1>1
<1> QED BY <1>1, <1>2, <1>3, EachFlow

LEMMA RestartKeeps ==
  ASSUME IInv, Restart PROVE IInv'
<1> DEFINE lost(fl) == [fl EXCEPT !.step = "gone", !.sub = None, !.task = None,
                                  !.repeats = 0]
           next(f) == IF flow[f].step = "none" THEN flow[f] ELSE lost(flow[f])
<1>1. flow' = [f \in Flows |-> next(f)] /\ stopping' = FALSE /\ UNCHANGED entries
  BY DEF Restart
<1>2. ASSUME NEW f \in Flows
      PROVE  next(f) \in FlowRecord /\ FlowOK(next(f), entries, FALSE) /\ ~ Holds(next(f))
  <2>1. flow[f] \in FlowRecord /\ FlowOK(flow[f], entries, stopping) BY DEF IInv
  <2>2. CASE flow[f].step = "none"
    BY <2>1, <2>2 DEF FlowOK, Holds, Live, Running
  <2>3. CASE flow[f].step # "none"
    <3> DEFINE fl == lost(flow[f])
    <3>1. fl \in FlowRecord BY <2>1 DEF FlowRecord, Steps
    <3>2. fl.step = "gone" /\ fl.sub = None /\ fl.task = None
      BY <2>1 DEF FlowRecord
    <3>3. next(f) = fl BY <2>3
    <3> HIDE DEF fl, next
    <3> QED BY <3>1, <3>2, <3>3 DEF FlowOK, Holds, Live, Running
  <2> QED BY <2>2, <2>3
<1>3. entry' \in EntryRecord \cup {None} /\ (entry # None => entry' # None)
  <2>1. CASE entry = None BY <2>1 DEF Restart
  <2>2. CASE entry # None
    <3>1. entry \in EntryRecord BY <2>2 DEF IInv
    <3>2. entry' = [entry EXCEPT !.unconfirmed = FALSE,
                                 !.at = IF @ = "imported" THEN @ ELSE "new"]
      BY <2>2 DEF Restart
    <3>3. entry' \in EntryRecord BY <3>1, <3>2 DEF EntryRecord
    <3> QED BY <3>3, SetupAssumption
  <2> QED BY <2>1, <2>2
<1> HIDE DEF next
<1>4. flow' \in [Flows -> FlowRecord]
      /\ (\A f \in Flows : FlowOK(flow'[f], entries', stopping') /\ ~ Holds(flow'[f]))
  BY <1>1, <1>2
<1> QED BY <1>1, <1>3, <1>4, AllFlows DEF IInv

\* The recorder and the entry's update change no flow.
LEMMA UpdateKeeps ==
  ASSUME IInv, \/ RecorderRuns \/ UpdateBegins \/ UpdateWaits \/ UpdateGivesUp
               \/ UpdateReads \/ UpdateImports
  PROVE  IInv'
<1>1. UNCHANGED <<flow, entries, stopping>>
  BY DEF RecorderRuns, UpdateBegins, UpdateWaits, UpdateGivesUp, UpdateReads, UpdateImports
<1>2. entry' \in EntryRecord \cup {None} /\ (entry # None => entry' # None)
  <2>1. CASE RecorderRuns BY <2>1 DEF RecorderRuns, IInv
  <2>2. CASE ~ RecorderRuns
    <3>1. entry # None
      BY <2>2 DEF UpdateBegins, UpdateWaits, UpdateGivesUp, UpdateReads, UpdateImports, EntryAt
    <3>2. entry \in EntryRecord BY <3>1 DEF IInv
    <3>3. Passes - 1 \in Nat BY SetupAssumption
    <3>4. entry' \in EntryRecord
      <4>1. CASE UpdateBegins BY <3>2, <3>3, <4>1 DEF UpdateBegins, EntryRecord
      <4>2. CASE UpdateWaits BY <3>2, <4>2 DEF UpdateWaits, EntryRecord
      <4>3. CASE UpdateGivesUp BY <3>2, <4>3 DEF UpdateGivesUp, EntryRecord
      <4>4. CASE UpdateReads BY <3>2, <4>4 DEF UpdateReads, EntryRecord
      <4>5. CASE UpdateImports BY <3>2, <4>5 DEF UpdateImports, EntryRecord
      <4> QED BY <2>2, <4>1, <4>2, <4>3, <4>4, <4>5
    <3> QED BY <3>4, SetupAssumption
  <2> QED BY <2>1, <2>2
<1>3. \A f \in Flows : FlowOK(flow'[f], entries', stopping')
  BY <1>1 DEF IInv
<1>4. \A f, g \in Flows : Holds(flow'[f]) /\ Holds(flow'[g]) => f = g
  BY <1>1 DEF IInv
<1> QED BY <1>1, <1>2, <1>3, <1>4, AllFlows DEF IInv

-------------------------------------------------------------------------------
(***************************************************************************)
(* Every step.                                                             *)
(***************************************************************************)
LEMMA SubmissionKeeps ==
  ASSUME IInv, NEW f \in Flows,
         \/ OpenDialog(f) \/ SubmitCode(f) \/ SubmitAccounts(f) \/ SubmitDiscovery(f)
         \/ SubmitFailed(f) \/ SubmitLast(f) \/ SubmitAgain(f) \/ AnswerRepeat(f)
  PROVE  IInv'
<1> DEFINE fl == flow[f]
<1>1. fl \in FlowRecord /\ FlowOK(fl, entries, stopping)
  BY DEF IInv
<1>2. Keeps(fl, fl, entries, stopping)
  BY <1>1 DEF Keeps
<1>3. ASSUME Submits(f), fl.step # "user"
      PROVE  fl.named /\ ~ fl.created /\ fl.step \in Forms
  BY <1>1, <1>3 DEF Submits, FlowOK, Forms
<1>4. CASE OpenDialog(f)
  <2> DEFINE new == [fl EXCEPT !.step = "user", !.own = TRUE]
  <2>1. fl.step = "none" /\ Change(f, new) /\ UNCHANGED <<entry, entries, stopping>>
    BY <1>4 DEF OpenDialog, Only
  <2>2. Keeps(fl, new, entries, stopping)
    BY <1>1, <2>1 DEF Keeps, FlowRecord, FlowOK, Holds, Live, Running, Steps, Forms
  <2> QED BY <2>1, <2>2, OneFlow
<1>5. CASE SubmitCode(f)
  <2>1. fl.step = "otp" /\ Submits(f) /\ Change(f, Handles(fl, "check"))
        /\ UNCHANGED <<entry, entries, stopping>>
    BY <1>5 DEF SubmitCode, Only
  <2>2. Keeps(fl, Handles(fl, "check"), entries, stopping)
    BY <1>1, <1>3, <2>1, HandlesKeeps
  <2> QED BY <2>1, <2>2, OneFlow
<1>6. CASE SubmitAccounts(f)
  <2>1. fl.step = "accounts" /\ Submits(f) /\ Prepares(f, fl)
        /\ UNCHANGED <<entry, entries, stopping>>
    BY <1>6 DEF SubmitAccounts
  <2> QED BY <1>2, <1>3, <2>1, PreparesKeeps
<1>7. CASE SubmitDiscovery(f)
  <2>1. fl.step = "discovery_retry" /\ Submits(f) /\ UNCHANGED <<entry, entries, stopping>>
    BY <1>7 DEF SubmitDiscovery
  <2>2. CASE Prepares(f, fl)
    BY <1>2, <1>3, <2>1, <2>2, PreparesKeeps
  <2>3. CASE Change(f, Handles(fl, "discover"))
    <3>1. Keeps(fl, Handles(fl, "discover"), entries, stopping)
      BY <1>1, <1>3, <2>1, HandlesKeeps
    <3> QED BY <2>1, <2>3, <3>1, OneFlow
  <2> QED BY <1>7, <2>2, <2>3 DEF SubmitDiscovery
<1>8. CASE SubmitFailed(f)
  <2>1. fl.step = "import_failed" /\ Submits(f) /\ UNCHANGED <<entry, entries, stopping>>
    BY <1>8 DEF SubmitFailed
  <2>2. RollsBack(f, fl, "retry") \/ RollsBack(f, fl, "entry")
    BY <1>8 DEF SubmitFailed
  <2> QED BY <1>3, <2>1, <2>2, RollsBackKeeps
<1>9. CASE SubmitLast(f)
  <2>1. fl.step = "import_failed_last" /\ Submits(f) /\ UNCHANGED <<entry, entries, stopping>>
    BY <1>9 DEF SubmitLast
  <2>2. CASE Change(f, AbortFlow(fl))
    BY <1>1, <2>1, <2>2, AbortKeeps, OneFlow
  <2>3. CASE RollsBack(f, fl, "entry")
    BY <1>3, <2>1, <2>3, RollsBackKeeps
  <2> QED BY <1>9, <2>2, <2>3 DEF SubmitLast
<1>10. CASE SubmitAgain(f)
  <2>1. Change(f, [fl EXCEPT !.repeats = 1]) /\ UNCHANGED <<entry, entries, stopping>>
    BY <1>10 DEF SubmitAgain
  <2> QED BY <1>1, <2>1, RepeatsKeep, OneFlow
<1>11. CASE AnswerRepeat(f)
  <2> DEFINE new == [fl EXCEPT !.repeats = 0]
  <2>1. RepeatAnswer(new) # "form"
    BY DEF RepeatAnswer
  <2>2. Change(f, new) /\ UNCHANGED <<entry, entries, stopping>>
    BY <1>11, <2>1 DEF AnswerRepeat
  <2> QED BY <1>1, <2>2, RepeatsKeep, OneFlow
<1> QED BY <1>4, <1>5, <1>6, <1>7, <1>8, <1>9, <1>10, <1>11

LEMMA AnswerKeeps ==
  ASSUME IInv, NEW f \in Flows,
         \/ CodeSent(f) \/ CodeChecked(f) \/ AccountsFound(f) \/ PassEnds(f)
         \/ WaitTimesOut(f)
  PROVE  IInv'
<1> DEFINE fl == flow[f]
<1>1. fl \in FlowRecord /\ FlowOK(fl, entries, stopping)
  BY DEF IInv
<1>2. fl.sub # None /\ UNCHANGED <<entry, entries, stopping>>
  BY DEF CodeSent, CodeChecked, AccountsFound, PassEnds, WaitTimesOut, Handling, Only
<1>3. /\ fl.named /\ ~ fl.created /\ fl.step \in Forms \cup {"gone"}
      /\ fl.step \in Parked \cup {"gone"}
  BY <1>1, <1>2, Handled DEF Parked
<1>4. \A step \in Forms : Keeps(fl, ShowForm(fl, step), entries, stopping)
  BY <1>1, <1>3, ShowFormKeeps
<1>5. CASE CodeSent(f)
  <2>1. PICK step \in Forms : Change(f, ShowForm(fl, step))
    BY <1>5 DEF CodeSent, Only, Forms
  <2> QED BY <1>2, <1>4, <2>1, OneFlow
<1>6. CASE CodeChecked(f)
  <2>1. Keeps(fl, Handles(fl, "discover"), entries, stopping)
    BY <1>1, <1>3, HandlesKeeps
  <2>2. Change(f, ShowForm(fl, "otp")) \/ Change(f, Handles(fl, "discover"))
    BY <1>6 DEF CodeChecked, Only
  <2> QED BY <1>2, <1>4, <2>1, <2>2, OneFlow DEF Forms
<1>7. CASE AccountsFound(f)
  <2> DEFINE one == [fl EXCEPT !.accounts = 1]
             two == [fl EXCEPT !.accounts = 2]
  <2>1. Keeps(fl, one, entries, stopping) /\ Keeps(fl, two, entries, stopping)
    BY <1>1, AccountsKeep
  <2>2. \A new \in {one, two} : new.step = fl.step /\ new.named /\ ~ new.created
    BY <1>1, <1>3 DEF FlowRecord
  <2>3. \/ Change(f, ShowForm(fl, "discovery_retry")) \/ Change(f, AbortFlow(fl))
        \/ Prepares(f, one) \/ Change(f, ShowForm(two, "accounts"))
    BY <1>7 DEF AccountsFound
  <2> HIDE DEF one, two
  <2>4. CASE Change(f, ShowForm(fl, "discovery_retry"))
    BY <1>2, <1>4, <2>4, OneFlow DEF Forms
  <2>5. CASE Change(f, AbortFlow(fl))
    <3>1. Keeps(fl, AbortFlow(fl), entries, stopping)
      BY <1>1, <1>3, AbortKeeps DEF Forms
    <3> QED BY <1>2, <2>5, <3>1, OneFlow
  <2>6. CASE Prepares(f, one)
    BY <1>2, <1>3, <2>1, <2>2, <2>6, PreparesKeeps
  <2>7. CASE Change(f, ShowForm(two, "accounts"))
    <3>1. Keeps(two, ShowForm(two, "accounts"), entries, stopping)
      BY <1>3, <2>1, <2>2, ShowFormKeeps DEF Keeps, Forms
    <3> QED BY <1>2, <2>1, <2>7, <3>1, KeepsAgain, OneFlow
  <2> QED BY <2>3, <2>4, <2>5, <2>6, <2>7
<1>8. CASE PassEnds(f)
  <2> DEFINE new == [fl EXCEPT !.sub.left = @ - 1]
  <2>1. fl.sub.name = "wait" /\ fl.sub.left > 0 /\ Change(f, new)
    BY <1>8 DEF PassEnds, Handling
  <2>2. fl.sub \in [name : {"wait"}, goal : {"first", "retry", "entry"}, left : Nat]
    BY <1>1, <1>2, <2>1 DEF FlowRecord, Submissions
  <2>3. new = [fl EXCEPT !.sub = [fl.sub EXCEPT !.left = @ - 1]]
    BY <1>1 DEF FlowRecord
  <2>4. [fl.sub EXCEPT !.left = @ - 1] \in Submissions
    BY <2>1, <2>2 DEF Submissions
  <2>5. \A sub \in Submissions : Keeps(fl, [fl EXCEPT !.sub = sub], entries, stopping)
    BY <1>1, <1>3 DEF Keeps, FlowRecord, FlowOK, Holds, Live, Running, Forms
  <2>6. Keeps(fl, new, entries, stopping)
    BY <2>3, <2>4, <2>5
  <2> QED BY <1>2, <2>1, <2>6, OneFlow
<1>9. CASE WaitTimesOut(f)
  <2>1. Change(f, GivesUp(fl)) BY <1>9 DEF WaitTimesOut
  <2> QED BY <1>1, <1>2, <2>1, GivesUpKeeps, OneFlow
<1> QED BY <1>5, <1>6, <1>7, <1>8, <1>9

LEMMA AttemptKeeps ==
  ASSUME IInv, NEW f \in Flows,
         \/ FetchFails(f) \/ QueueImport(f) \/ ImportConfirmed(f) \/ ConfirmAgain(f)
         \/ ImportUnconfirmed(f) \/ AttemptSucceeds(f) \/ RollbackEnds(f)
  PROVE  IInv'
<1> DEFINE fl == flow[f]
<1>1. fl \in FlowRecord /\ FlowOK(fl, entries, stopping)
  BY DEF IInv
<1>2. fl.task # None /\ UNCHANGED <<entry, entries, stopping>>
  BY DEF FetchFails, QueueImport, ImportConfirmed, ConfirmAgain, ImportUnconfirmed,
         AttemptSucceeds, RollbackEnds, AttemptAt, Only
<1>3. CASE FetchFails(f)
  <2>1. PICK error \in Errors : Change(f, RolledBack(f, fl, error, FALSE))
    BY <1>3 DEF FetchFails, Errors
  <2>2. Keeps(fl, RolledBack(f, fl, error, FALSE), entries, stopping)
    BY <1>1, <1>2, RolledBackKeeps
  <2> QED BY <1>2, <2>1, <2>2, OneFlow
<1>4. CASE QueueImport(f)
  <2>1. Running(fl) /\ Change(f, [fl EXCEPT !.task.at = "confirming"])
    BY <1>2, <1>4 DEF QueueImport, AttemptAt, Running, Moves
  <2>2. Keeps(fl, [fl EXCEPT !.task.at = "confirming"], entries, stopping)
    BY <1>1, <1>2, <2>1, MovesKeeps
  <2> QED BY <1>2, <2>1, <2>2, OneFlow
<1>5. CASE ImportConfirmed(f)
  <2> DEFINE moved == [fl EXCEPT !.task.at = "visible"]
             new == [moved EXCEPT !.unconfirmed = FALSE]
  <2>1. Running(fl) /\ Change(f, new)
    BY <1>2, <1>5 DEF ImportConfirmed, AttemptAt, Running, Moves, Only
  <2>2. Keeps(fl, moved, entries, stopping)
    BY <1>1, <1>2, <2>1, MovesKeeps
  <2>3. Keeps(moved, new, entries, stopping)
    <3> HIDE DEF moved
    <3> QED BY <2>2 DEF Keeps, FlowRecord, FlowOK, Holds, Live, Running
  <2> HIDE DEF moved, new
  <2> QED BY <1>2, <2>1, <2>2, <2>3, KeepsAgain, OneFlow
<1>6. CASE ConfirmAgain(f)
  <2>1. UNCHANGED <<flow, entry, entries, stopping>> BY <1>6 DEF ConfirmAgain
  <2>2. \A g \in Flows : FlowOK(flow'[g], entries', stopping')
    BY <2>1 DEF IInv
  <2>3. \A g, h \in Flows : Holds(flow'[g]) /\ Holds(flow'[h]) => g = h
    BY <2>1 DEF IInv
  <2> QED BY <2>1, <2>2, <2>3, AllFlows DEF IInv
<1>7. CASE ImportUnconfirmed(f)
  <2>1. Change(f, RolledBack(f, fl, "other", TRUE))
    BY <1>7 DEF ImportUnconfirmed
  <2>2. Keeps(fl, RolledBack(f, fl, "other", TRUE), entries, stopping)
    BY <1>1, <1>2, RolledBackKeeps DEF Errors
  <2> QED BY <1>2, <2>1, <2>2, OneFlow
<1>8. CASE AttemptSucceeds(f)
  <2> DEFINE new == [fl EXCEPT !.task = None, !.imported = fl.attempts,
                               !.step = IF @ = "gone" THEN @ ELSE "finish", !.own = FALSE]
  <2>1. Running(fl) /\ Change(f, new)
    BY <1>2, <1>8 DEF AttemptSucceeds, AttemptAt, Running, Only
  <2>2. fl.step = "initial_import" /\ fl.named /\ ~ fl.created /\ fl.sub = None /\ entries = 0
    BY <1>1, <2>1 DEF FlowOK, Forms, Parked, Live
  <2>3. new \in FlowRecord
    <3>1. PICK step \in Steps : step = IF fl.step = "gone" THEN fl.step ELSE "finish"
      BY <1>1 DEF FlowRecord, Steps
    <3>2. PICK imported \in Nat : imported = fl.attempts BY <1>1 DEF FlowRecord
    <3>3. new = [fl EXCEPT !.task = None, !.imported = imported, !.step = step, !.own = FALSE]
      BY <3>1, <3>2
    <3> HIDE DEF new
    <3> QED BY <1>1, <3>3 DEF FlowRecord
  <2>4. /\ new.step = "finish" /\ new.named /\ ~ new.created
        /\ new.sub = None /\ new.task = None
    BY <1>1, <2>2 DEF FlowRecord
  <2>5. Holds(fl) BY <2>2 DEF Holds, Live
  <2> HIDE DEF new
  <2>6. Keeps(fl, new, entries, stopping)
    BY <2>2, <2>3, <2>4, <2>5 DEF Keeps, FlowOK, Running
  <2> QED BY <1>2, <2>1, <2>6, OneFlow
<1>9. CASE RollbackEnds(f)
  <2>1. Change(f, FailedAttempt(fl, fl.task.error))
    BY <1>9 DEF RollbackEnds
  <2>2. fl.task.error \in Errors \cup {None}
    BY <1>1, <1>2 DEF FlowRecord, Attempts
  <2>3. Keeps(fl, FailedAttempt(fl, fl.task.error), entries, stopping)
    BY <1>1, <1>2, <2>2, FailedAttemptKeeps
  <2> QED BY <1>2, <2>1, <2>3, OneFlow
<1> QED BY <1>3, <1>4, <1>5, <1>6, <1>7, <1>8, <1>9

LEMMA EndKeeps ==
  ASSUME IInv, NEW f \in Flows, ShowFailure(f) \/ EntryAdded(f) \/ CloseDialog(f)
  PROVE  IInv'
<1> DEFINE fl == flow[f]
<1>1. fl \in FlowRecord /\ FlowOK(fl, entries, stopping)
  BY DEF IInv
<1>2. UNCHANGED <<entry, entries, stopping>>
  BY DEF ShowFailure, EntryAdded, CloseDialog, Only
<1>3. CASE ShowFailure(f)
  <2>1. fl.step = "import_failed" /\ Change(f, Failure(fl))
    BY <1>3 DEF ShowFailure, Only
  <2>2. fl.named BY <1>1, <2>1 DEF FlowOK
  <2>3. Keeps(fl, AbortFlow(fl), entries, stopping)
    BY <1>1, <2>1, AbortKeeps
  <2>4. \A step \in Forms : Keeps(fl, ShowForm(fl, step), entries, stopping)
    BY <1>1, <2>1, <2>2, ShowFormKeeps DEF Parked, Forms
  <2>5. Failure(fl) = AbortFlow(fl) \/ \E step \in Forms : Failure(fl) = ShowForm(fl, step)
    BY DEF Failure, Forms
  <2>6. Keeps(fl, Failure(fl), entries, stopping) BY <2>3, <2>4, <2>5
  <2> QED BY <1>2, <2>1, <2>6, OneFlow
<1>4. CASE EntryAdded(f)
  <2> DEFINE new == [fl EXCEPT !.step = "gone"]
  <2>1. fl.created /\ Change(f, new) BY <1>4 DEF EntryAdded, Only
  <2>2. fl.task = None BY <1>1, <2>1, <1>4 DEF FlowOK, Parked, Forms, EntryAdded
  <2>3. Keeps(fl, new, entries, stopping)
    BY <1>1, <2>1, <2>2 DEF Keeps, FlowRecord, FlowOK, Holds, Live, Running, Steps
  <2> QED BY <1>2, <2>1, <2>3, OneFlow
<1>5. CASE CloseDialog(f)
  <2> DEFINE new == [Cancelled(f, fl) EXCEPT !.step = "gone"]
  <2>1. Change(f, new) BY <1>5 DEF CloseDialog
  <2>2. Keeps(fl, new, entries, stopping) BY <1>1, CancelledKeeps
  <2> QED BY <1>2, <2>1, <2>2, OneFlow
<1> QED BY <1>3, <1>4, <1>5

LEMMA InitHolds == Init => IInv
<1> SUFFICES ASSUME Init PROVE IInv OBVIOUS
<1>1. NewFlow \in FlowRecord
  BY DEF NewFlow, FlowRecord, Steps
<1>2. FlowOK(NewFlow, 0, FALSE) /\ ~ Holds(NewFlow)
  BY DEF NewFlow, FlowOK, Holds, Live, Running
<1>3. flow = [f \in Flows |-> NewFlow] /\ entry = None /\ entries = 0 /\ stopping = FALSE
  BY DEF Init
<1>4. \A f \in Flows : flow[f] = NewFlow BY <1>3
<1>5. \A f \in Flows : FlowOK(flow[f], entries, stopping) /\ ~ Holds(flow[f])
  BY <1>2, <1>3, <1>4
<1>6. flow \in [Flows -> FlowRecord] BY <1>1, <1>3
<1>7. entry \in EntryRecord \cup {None} /\ stopping \in BOOLEAN
  BY <1>3, Zenon
<1>8. entries = 0 BY DEF Init
<1>9. entries \in {0, 1} /\ (entries = 1 => entry # None)
  BY <1>8
<1>10. \A f, g \in Flows : Holds(flow[f]) /\ Holds(flow[g]) => f = g
  BY <1>5
<1> QED BY <1>5, <1>6, <1>7, <1>9, <1>10 DEF IInv

LEMMA StepHolds == IInv /\ [Next]_vars => IInv'
<1> SUFFICES ASSUME IInv, [Next]_vars PROVE IInv' OBVIOUS
<1>1. CASE UNCHANGED vars
  <2>1. UNCHANGED <<flow, entry, entries, stopping>> BY <1>1 DEF vars
  <2>2. \A f \in Flows : FlowOK(flow'[f], entries', stopping')
    BY <2>1 DEF IInv
  <2>3. \A f, g \in Flows : Holds(flow'[f]) /\ Holds(flow'[g]) => f = g
    BY <2>1 DEF IInv
  <2> QED BY <2>1, <2>2, <2>3, AllFlows DEF IInv
<1>2. CASE Stop BY <1>2, StopKeeps
<1>3. CASE Restart BY <1>3, RestartKeeps
<1>4. CASE \E f \in Flows : Step(f)
  <2> SUFFICES ASSUME NEW f \in Flows, Step(f) PROVE IInv' BY <1>4
  <2>1. CASE SubmitEmail(f) BY <2>1, EmailKeeps
  <2>2. CASE StartAttempt(f) BY <2>2, StartAttemptKeeps
  <2>3. CASE Finish(f) \/ FinishWithout(f) BY <2>3, FinishKeeps
  <2> QED BY <2>1, <2>2, <2>3, SubmissionKeeps, AnswerKeeps, AttemptKeeps, EndKeeps DEF Step
<1> QED BY <1>1, <1>2, <1>3, <1>4, UpdateKeeps DEF Next

-------------------------------------------------------------------------------
\* Whatever is submitted, repeated, closed or stopped, of all flows for an email
\* at most one has passed its first step and may still create the entry, and it
\* does so once (async_set_unique_id, _submit_email, _answer_after_entry).
THEOREM Invariance == Spec => []IInv
<1> QED BY InitHolds, StepHolds, PTL DEF Spec

\* At most one import runs, and its dialog shows it, for any dialogs, attempts,
\* faults and passes (_async_start_attempt, _async_submit, _current_step).
THEOREM ImportsOwned == Spec => []ImportsAreOwned
<1>1. IInv => ImportsAreOwned
  <2> SUFFICES ASSUME IInv PROVE ImportsAreOwned OBVIOUS
  <2>1. \A f \in Flows : FlowOK(flow[f], entries, stopping) BY DEF IInv
  <2>2. \A f \in Flows : Running(flow[f]) => flow[f].step = "initial_import" /\ ~ stopping
    BY <2>1 DEF FlowOK
  <2>3. \A f \in Flows : flow[f].task # None => flow[f].step \in {"initial_import", "gone"}
    BY <2>1 DEF FlowOK
  <2>4. \A f \in Flows : Running(flow[f]) => Holds(flow[f])
    BY <2>1 DEF FlowOK, Holds, Live
  <2> QED BY <2>2, <2>3, <2>4 DEF IInv, ImportsAreOwned
<1> QED BY <1>1, Invariance, PTL

\* One entry at most is created for the email, however often its creation is
\* asked for (async_step_finish, _answer_after_entry).
THEOREM OneEntry == Spec => []EntryOnce
<1>1. IInv => EntryOnce BY DEF IInv, EntryOnce
<1> QED BY <1>1, Invariance, PTL
-------------------------------------------------------------------------------
(***************************************************************************)
(* Attempts: how many a flow has made tells which forms it may be at.      *)
(***************************************************************************)
Early == {"user", "otp", "discovery_retry", "accounts"}

Tried(fl) ==
  /\ fl.attempts <= MaxAttempts
  /\ fl.step \in Early \cup {"none"} => fl.attempts = 0
  /\ fl.step \in {"import_failed", "import_failed_last"} \/ fl.task # None => fl.attempts > 0
  /\ fl.step = "import_failed" /\ fl.own => fl.attempts < MaxAttempts
  /\ fl.sub # None /\ fl.step # "gone" =>
       /\ fl.own
       /\ fl.sub.name # "wait" => fl.step \in Early
       /\ fl.sub.name = "wait" =>
            /\ fl.sub.goal = "first" => fl.step \in Early
            /\ fl.sub.goal = "retry" => fl.step = "import_failed"
            /\ fl.sub.goal = "entry" => fl.step \in {"import_failed", "import_failed_last"}

TInv == \A f \in Flows : Tried(flow[f])

\* One flow changes.
LEMMA TriedOne ==
  ASSUME IInv, TInv, NEW f \in Flows, NEW fl, Tried(fl), Change(f, fl)
  PROVE  TInv'
<1>1. \A g \in Flows : flow'[g] = IF g = f THEN fl ELSE flow[g]
  BY DEF Change, IInv
<1>2. \A g \in Flows : Tried(flow'[g])
  BY <1>1 DEF TInv
<1> QED BY <1>2 DEF TInv, Tried

\* A form that fits the attempts made so far.
LEMMA TriedForm ==
  ASSUME NEW fl \in FlowRecord, Tried(fl), NEW step \in Forms,
         \/ fl.step = "gone"
         \/ fl.step \in Early /\ step \in Early
         \/ fl.step = step /\ fl.own
         \/ fl.step = "import_failed" /\ step = "import_failed_last"
         \/ fl.step = "import_failed" /\ step = fl.step /\ fl.attempts < MaxAttempts
  PROVE  Tried(ShowForm(fl, step))
<1>1. fl.step = "gone" => ShowForm(fl, step).step = "gone"
  BY DEF ShowForm, Ended, FlowRecord
<1>2. fl.step # "gone" => ShowForm(fl, step).step = step /\ ShowForm(fl, step).own
  BY DEF ShowForm, Ended, FlowRecord
<1>3. /\ ShowForm(fl, step).sub = None /\ ShowForm(fl, step).task = fl.task
      /\ ShowForm(fl, step).attempts = fl.attempts
  BY DEF ShowForm, Ended, FlowRecord
<1>4. fl.attempts \in Nat BY DEF FlowRecord
<1> QED BY <1>1, <1>2, <1>3, <1>4 DEF Tried, Early, Forms

LEMMA TriedAbort ==
  ASSUME NEW fl \in FlowRecord, Tried(fl)
  PROVE  Tried(AbortFlow(fl)) /\ Tried([fl EXCEPT !.step = "gone"])
BY DEF AbortFlow, Ended, FlowRecord, Tried, Early

LEMMA TriedHandles ==
  ASSUME NEW fl \in FlowRecord, Tried(fl), fl.step = "gone" \/ (fl.step \in Early /\ fl.own),
         NEW name \in {"send", "check", "discover"}
  PROVE  Tried(Handles(fl, name))
<1>1. /\ Handles(fl, name).sub.name = name /\ Handles(fl, name).step = fl.step
      /\ Handles(fl, name).attempts = fl.attempts /\ Handles(fl, name).task = fl.task
      /\ Handles(fl, name).own = fl.own
  BY DEF Handles, FlowRecord
<1> QED BY <1>1 DEF Tried, Early

LEMMA TriedWaits ==
  ASSUME NEW fl \in FlowRecord, Tried(fl), NEW goal \in {"first", "retry", "entry"}, NEW left,
         \/ fl.step = "gone"
         \/ fl.own /\ \/ fl.step \in Early /\ goal = "first"
                      \/ fl.step = "import_failed" /\ goal \in {"retry", "entry"}
                      \/ fl.step = "import_failed_last" /\ goal = "entry"
  PROVE  Tried(Waits(fl, goal, left))
<1>1. /\ Waits(fl, goal, left).sub.name = "wait" /\ Waits(fl, goal, left).sub.goal = goal
      /\ Waits(fl, goal, left).step = fl.step
      /\ Waits(fl, goal, left).attempts = fl.attempts /\ Waits(fl, goal, left).task = fl.task
      /\ Waits(fl, goal, left).own = fl.own
  BY DEF Waits, FlowRecord
<1> QED BY <1>1 DEF Tried, Early

LEMMA TriedRolledBack ==
  ASSUME NEW f, NEW fl \in FlowRecord, Tried(fl), fl.task # None,
         NEW error, NEW half
  PROVE  Tried(RolledBack(f, fl, error, half))
<1>1. /\ RolledBack(f, fl, error, half).step = fl.step
      /\ RolledBack(f, fl, error, half).sub = fl.sub
      /\ RolledBack(f, fl, error, half).own = fl.own
      /\ RolledBack(f, fl, error, half).attempts = fl.attempts
  BY DEF RolledBack, FlowRecord
<1> QED BY <1>1 DEF Tried

LEMMA TriedFailed ==
  ASSUME NEW fl \in FlowRecord, Tried(fl), fl.task # None,
         fl.sub # None => fl.step = "gone", NEW error
  PROVE  Tried(FailedAttempt(fl, error))
<1>1. /\ FailedAttempt(fl, error).step = IF fl.step = "gone" THEN "gone" ELSE "import_failed"
      /\ FailedAttempt(fl, error).sub = fl.sub /\ ~ FailedAttempt(fl, error).own
      /\ FailedAttempt(fl, error).task = None
      /\ FailedAttempt(fl, error).attempts = fl.attempts
  BY DEF FailedAttempt, FlowRecord
<1>2. fl.attempts \in Nat BY DEF FlowRecord
<1> QED BY <1>1, <1>2 DEF Tried, Early

LEMMA TriedCancelled ==
  ASSUME NEW f, NEW fl \in FlowRecord, NEW n, NEW stopped, FlowOK(fl, n, stopped), Tried(fl)
  PROVE  Tried(Cancelled(f, fl)) /\ Tried([Cancelled(f, fl) EXCEPT !.step = "gone"])
<1>1. fl.task # None /\ fl.sub # None => fl.step = "gone"
  BY DEF FlowOK, Forms
<1>2. Tried(Cancelled(f, fl))
  BY <1>1, TriedRolledBack, TriedFailed DEF Cancelled, Running
<1>3. Cancelled(f, fl) \in FlowRecord
  BY CancelledKeeps DEF Keeps
<1> QED BY <1>2, <1>3, TriedAbort

LEMMA TriedGivesUp ==
  ASSUME NEW fl \in FlowRecord, NEW n, NEW stopped, FlowOK(fl, n, stopped), Tried(fl),
         fl.sub # None, fl.sub.name = "wait"
  PROVE  Tried(GivesUp(fl))
<1>1. CASE Stops(fl) BY <1>1, TriedAbort DEF GivesUp
<1>2. CASE ~ Stops(fl)
  <2>1. fl.step # "gone" /\ fl.step \in Forms BY <1>2 DEF Stops, FlowOK
  <2>2. fl.sub \in [name : {"wait"}, goal : {"first", "retry", "entry"}, left : Nat]
    BY DEF FlowRecord, Submissions
  <2>3. CASE fl.sub.goal = "first"
    <3>1. fl.step \in Early BY <2>1, <2>3 DEF Tried
    <3>2. FormOf(fl) \in Early /\ FormOf(fl) \in Forms
      BY <2>3 DEF FormOf, Early, Forms
    <3> QED BY <1>2, <3>1, <3>2, TriedForm DEF GivesUp
  <2>4. CASE fl.sub.goal # "first"
    <3>1. FormOf(fl) = fl.step /\ fl.own BY <2>1, <2>4 DEF FormOf, Tried
    <3> QED BY <1>2, <2>1, <3>1, TriedForm DEF GivesUp
  <2> QED BY <2>3, <2>4
<1> QED BY <1>1, <1>2

\* Submissions, and what they are answered with.
LEMMA TriedSubmission ==
  ASSUME IInv, TInv, NEW f \in Flows,
         \/ OpenDialog(f) \/ SubmitEmail(f) \/ SubmitCode(f) \/ SubmitAccounts(f)
         \/ SubmitDiscovery(f) \/ SubmitFailed(f) \/ SubmitLast(f)
         \/ SubmitAgain(f) \/ AnswerRepeat(f)
  PROVE  TInv'
<1> DEFINE fl == flow[f]
<1>1. \A g \in Flows : flow[g] \in FlowRecord /\ Tried(flow[g])
  BY DEF IInv, TInv
<1>2. fl \in FlowRecord /\ Tried(fl) /\ FlowOK(fl, entries, stopping)
  BY <1>1 DEF IInv
<1>3. ASSUME Prepares(f, fl), fl.own, fl.step \in Early
      PROVE  TInv'
  <2>1. Tried(Waits(fl, "first", Passes - 1)) BY <1>2, <1>3, TriedWaits
  <2> QED BY <1>3, <2>1, TriedOne DEF Prepares
<1>4. ASSUME NEW goal \in {"retry", "entry"}, RollsBack(f, fl, goal), fl.own,
             \/ fl.step = "import_failed"
             \/ fl.step = "import_failed_last" /\ goal = "entry"
      PROVE  TInv'
  <2>1. PICK left : Change(f, Waits(fl, goal, left)) BY <1>4 DEF RollsBack
  <2>2. Tried(Waits(fl, goal, left)) BY <1>2, <1>4, TriedWaits
  <2> QED BY <2>1, <2>2, TriedOne
<1>5. CASE OpenDialog(f)
  <2> DEFINE new == [fl EXCEPT !.step = "user", !.own = TRUE]
  <2>1. fl.step = "none" /\ Change(f, new) BY <1>5 DEF OpenDialog, Only
  <2>2. /\ new.step = "user" /\ new.attempts = fl.attempts
        /\ new.task = fl.task /\ new.sub = fl.sub
    BY <1>2 DEF FlowRecord
  <2>3. fl.sub = None /\ fl.task = None BY <1>2, <2>1 DEF FlowOK
  <2> HIDE DEF new
  <2>4. Tried(new) BY <1>2, <2>1, <2>2, <2>3 DEF Tried, Early
  <2> QED BY <2>1, <2>4, TriedOne
<1>6. CASE SubmitEmail(f)
  <2>1. fl.step = "user" /\ fl.own BY <1>6 DEF SubmitEmail, Submits
  <2>2. \A g \in Flows :
          \/ flow'[g] = flow[g] \/ flow'[g] = AbortFlow(flow[g])
          \/ flow'[g] = [flow[g] EXCEPT !.step = "gone"]
          \/ flow'[g] = Handles([fl EXCEPT !.named = TRUE], "send")
    <3> DEFINE refused == entry # None \/ Importers(f) # {}
               next(g) == IF g = f
                          THEN IF refused THEN AbortFlow(fl)
                               ELSE Handles([fl EXCEPT !.named = TRUE], "send")
                          ELSE IF entry = None /\ flow[g].named /\ flow[g].step \in Parked
                               THEN [flow[g] EXCEPT !.step = "gone"]
                               ELSE flow[g]
    <3>1. flow' = [g \in Flows |-> next(g)] BY <1>6 DEF SubmitEmail
    <3> QED BY <3>1
  <2>3. Tried(Handles([fl EXCEPT !.named = TRUE], "send"))
    <3> DEFINE named == [fl EXCEPT !.named = TRUE]
    <3>1. /\ named \in FlowRecord /\ named.step = "user" /\ named.own
          /\ named.attempts = fl.attempts /\ named.task = fl.task /\ named.sub = fl.sub
      BY <1>2, <2>1 DEF FlowRecord
    <3> HIDE DEF named
    <3>2. Tried(named) BY <1>2, <2>1, <3>1 DEF Tried
    <3> QED BY <3>1, <3>2, TriedHandles DEF named, Early
  <2>4. \A g \in Flows : Tried(flow'[g])
    BY <1>1, <2>2, <2>3, TriedAbort
  <2> QED BY <2>4 DEF TInv, Tried
<1>7. CASE SubmitCode(f)
  <2>1. fl.step \in Early /\ fl.own /\ Change(f, Handles(fl, "check"))
    BY <1>7 DEF SubmitCode, Submits, Only, Early
  <2> QED BY <1>2, <2>1, TriedHandles, TriedOne
<1>8. CASE SubmitAccounts(f)
  <2>1. fl.step \in Early /\ fl.own /\ Prepares(f, fl)
    BY <1>8 DEF SubmitAccounts, Submits, Early
  <2> QED BY <1>3, <2>1
<1>9. CASE SubmitDiscovery(f)
  <2>1. fl.step \in Early /\ fl.own
    BY <1>9 DEF SubmitDiscovery, Submits, Early
  <2>2. CASE Prepares(f, fl) BY <1>3, <2>1, <2>2
  <2>3. CASE Change(f, Handles(fl, "discover"))
    BY <1>2, <2>1, <2>3, TriedHandles, TriedOne
  <2> QED BY <1>9, <2>2, <2>3 DEF SubmitDiscovery
<1>10. CASE SubmitFailed(f)
  <2>1. fl.step = "import_failed" /\ fl.own BY <1>10 DEF SubmitFailed, Submits
  <2>2. RollsBack(f, fl, "retry") \/ RollsBack(f, fl, "entry") BY <1>10 DEF SubmitFailed
  <2> QED BY <1>4, <2>1, <2>2
<1>11. CASE SubmitLast(f)
  <2>1. fl.step = "import_failed_last" /\ fl.own BY <1>11 DEF SubmitLast, Submits
  <2>2. Change(f, AbortFlow(fl)) \/ RollsBack(f, fl, "entry") BY <1>11 DEF SubmitLast
  <2>3. CASE Change(f, AbortFlow(fl)) BY <1>2, <2>3, TriedAbort, TriedOne
  <2> QED BY <1>4, <2>1, <2>2, <2>3
<1>12. CASE SubmitAgain(f) \/ AnswerRepeat(f)
  <2>1. PICK n : Change(f, [fl EXCEPT !.repeats = n])
    <3>1. CASE SubmitAgain(f) BY <3>1 DEF SubmitAgain
    <3>2. CASE AnswerRepeat(f)
      <4>1. RepeatAnswer([fl EXCEPT !.repeats = 0]) # "form" BY DEF RepeatAnswer
      <4> QED BY <3>2, <4>1 DEF AnswerRepeat
    <3> QED BY <1>12, <3>1, <3>2
  <2>2. Tried([fl EXCEPT !.repeats = n]) BY <1>2 DEF Tried, FlowRecord
  <2> QED BY <2>1, <2>2, TriedOne
<1> QED BY <1>5, <1>6, <1>7, <1>8, <1>9, <1>10, <1>11, <1>12

LEMMA TriedAnswer ==
  ASSUME IInv, TInv, NEW f \in Flows,
         \/ CodeSent(f) \/ CodeChecked(f) \/ AccountsFound(f) \/ PassEnds(f)
         \/ WaitTimesOut(f) \/ StartAttempt(f) \/ FinishWithout(f)
  PROVE  TInv'
<1> DEFINE fl == flow[f]
<1>1. fl \in FlowRecord /\ Tried(fl) /\ FlowOK(fl, entries, stopping) /\ fl.attempts \in Nat
  BY DEF IInv, TInv, FlowRecord
<1>2. fl.sub # None
  BY DEF CodeSent, CodeChecked, AccountsFound, PassEnds, WaitTimesOut, StartAttempt,
         FinishWithout, Waited, Handling
<1>3. fl.step \in Forms \cup {"gone"} BY <1>1, <1>2 DEF FlowOK
<1>4. ASSUME fl.sub.name # "wait"
      PROVE  /\ fl.step = "gone" \/ (fl.step \in Early /\ fl.own)
             /\ \A step \in Early : Tried(ShowForm(fl, step))
  <2>1. fl.step = "gone" \/ (fl.step \in Early /\ fl.own) BY <1>1, <1>2, <1>4 DEF Tried
  <2>2. Early \subseteq Forms BY DEF Early, Forms
  <2> QED BY <1>1, <2>1, <2>2, TriedForm
<1>5. CASE CodeSent(f)
  <2>1. fl.sub.name # "wait" BY <1>5 DEF CodeSent, Handling
  <2>2. PICK step \in Early : Change(f, ShowForm(fl, step))
    BY <1>5 DEF CodeSent, Only, Early
  <2> QED BY <1>4, <2>1, <2>2, TriedOne
<1>6. CASE CodeChecked(f)
  <2>1. fl.sub.name # "wait" BY <1>6 DEF CodeChecked, Handling
  <2>2. Change(f, ShowForm(fl, "otp")) \/ Change(f, Handles(fl, "discover"))
    BY <1>6 DEF CodeChecked, Only
  <2>3. Tried(ShowForm(fl, "otp")) BY <1>4, <2>1 DEF Early
  <2>4. Tried(Handles(fl, "discover")) BY <1>1, <1>4, <2>1, TriedHandles
  <2> QED BY <2>2, <2>3, <2>4, TriedOne
<1>7. CASE AccountsFound(f)
  <2> DEFINE found(n) == [fl EXCEPT !.accounts = n]
  <2>1. fl.sub.name # "wait" BY <1>7 DEF AccountsFound, Handling
  <2>2. ASSUME NEW n \in {1, 2}
        PROVE  /\ found(n) \in FlowRecord /\ Tried(found(n)) /\ found(n).step = fl.step
               /\ found(n).own = fl.own
    <3>1. n \in 0 .. 2 OBVIOUS
    <3> QED BY <1>1, <3>1 DEF FlowRecord, Tried
  <2>3. \/ Change(f, ShowForm(fl, "discovery_retry")) \/ Change(f, AbortFlow(fl))
        \/ Prepares(f, found(1)) \/ Change(f, ShowForm(found(2), "accounts"))
    BY <1>7 DEF AccountsFound
  <2>4. Tried(ShowForm(fl, "discovery_retry")) BY <1>4, <2>1 DEF Early
  <2>5. Tried(AbortFlow(fl)) BY <1>1, TriedAbort
  <2> HIDE DEF found
  <2>6. Tried(Waits(found(1), "first", Passes - 1))
    BY <1>4, <2>1, <2>2, TriedWaits
  <2>7. Tried(ShowForm(found(2), "accounts"))
    BY <1>4, <2>1, <2>2, TriedForm DEF Early, Forms
  <2> QED BY <2>3, <2>4, <2>5, <2>6, <2>7, TriedOne DEF Prepares
<1>8. CASE PassEnds(f)
  <2> DEFINE new == [fl EXCEPT !.sub.left = @ - 1]
  <2>1. fl.sub.name = "wait" /\ Change(f, new)
    BY <1>8 DEF PassEnds, Handling
  <2>2. fl.sub \in [name : {"wait"}, goal : {"first", "retry", "entry"}, left : Nat]
    BY <1>1, <1>2, <2>1 DEF FlowRecord, Submissions
  <2>3. new.sub.name = fl.sub.name /\ new.sub.goal = fl.sub.goal
    BY <1>1, <2>2 DEF FlowRecord
  <2>4. /\ new.step = fl.step /\ new.own = fl.own /\ new.attempts = fl.attempts
        /\ new.task = fl.task
    BY <1>1 DEF FlowRecord
  <2> HIDE DEF new
  <2>5. Tried(new) BY <1>1, <1>2, <2>3, <2>4 DEF Tried
  <2> QED BY <2>1, <2>5, TriedOne
<1>9. ASSUME fl.sub.name = "wait", Change(f, GivesUp(fl)) PROVE TInv'
  BY <1>1, <1>2, <1>9, TriedGivesUp, TriedOne
<1>10. CASE WaitTimesOut(f)
  BY <1>9, <1>10 DEF WaitTimesOut, Handling
<1>11. CASE StartAttempt(f)
  <2>1. fl.sub.name = "wait" /\ fl.sub.goal # "entry"
    BY <1>11 DEF StartAttempt, Waited, Handling
  <2>2. CASE ~ Ready(fl) \/ Stops(fl)
    BY <1>9, <1>11, <2>1, <2>2 DEF StartAttempt, NotReady, Only
  <2>3. CASE ~ (~ Ready(fl) \/ Stops(fl))
    <3> DEFINE ended == Ended(Settled(fl), None)
               new == [ended EXCEPT
                         !.attempts = @ + 1, !.task = [at |-> "fetching", error |-> None],
                         !.error = None, !.imported = 0,
                         !.step = IF @ = "gone" THEN @ ELSE "initial_import", !.own = FALSE]
    <3>1. fl.step # "gone" BY <2>3 DEF Stops
    <3>2. fl.sub \in [name : {"wait"}, goal : {"first", "retry", "entry"}, left : Nat]
      BY <1>1, <1>2, <2>1 DEF FlowRecord, Submissions
    <3>3. fl.attempts < MaxAttempts
      BY <1>1, <1>2, <2>1, <3>1, <3>2, SetupAssumption DEF Tried
    <3>4. Change(f, new)
      BY <1>11, <2>3 DEF StartAttempt, Only
    <3>5. Settled(fl) \in FlowRecord /\ Settled(fl).step = fl.step
          /\ Settled(fl).attempts = fl.attempts
      BY <1>1, SettledTyped
    <3>6. ended \in FlowRecord /\ ended.step = fl.step /\ ended.attempts = fl.attempts
          /\ ended.sub = None
      BY <3>5 DEF Ended, FlowRecord
    <3> HIDE DEF ended
    <3>7. /\ new.step = "initial_import" /\ new.sub = None
          /\ new.attempts = fl.attempts + 1
      BY <3>1, <3>6 DEF FlowRecord
    <3> HIDE DEF new
    <3>8. fl.attempts + 1 <= MaxAttempts /\ fl.attempts + 1 > 0
      BY <1>1, <3>3, SetupAssumption
    <3>9. Tried(new) BY <3>7, <3>8 DEF Tried, Early
    <3> QED BY <3>4, <3>9, TriedOne
  <2> QED BY <2>2, <2>3
<1>12. CASE FinishWithout(f)
  <2>1. fl.sub.name = "wait" BY <1>12 DEF FinishWithout, Waited, Handling
  <2>2. CASE ~ Ready(fl) \/ Stops(fl)
    BY <1>9, <1>12, <2>1, <2>2 DEF FinishWithout, NotReady, Only
  <2>3. CASE ~ (~ Ready(fl) \/ Stops(fl))
    <3> DEFINE settled == Settled(fl)
               new == [Ended(settled, "entry") EXCEPT !.created = TRUE]
    <3>1. settled \in FlowRecord /\ settled.step = fl.step /\ settled.attempts = fl.attempts
          /\ settled.task = fl.task
      BY <1>1, SettledTyped
    <3>2. settled.own = fl.own BY <1>1 DEF Settled, FlowRecord
    <3>3. Change(f, new) BY <1>12, <2>3 DEF FinishWithout, CreateEntry
    <3> HIDE DEF settled
    <3>4. /\ new.step = fl.step /\ new.attempts = fl.attempts /\ new.own = fl.own
          /\ new.task = fl.task /\ new.sub = None
      BY <3>1, <3>2 DEF Ended, FlowRecord
    <3> HIDE DEF new
    <3>5. Tried(new) BY <1>1, <3>4 DEF Tried
    <3> QED BY <3>3, <3>5, TriedOne
  <2> QED BY <2>2, <2>3
<1> QED BY <1>5, <1>6, <1>7, <1>8, <1>10, <1>11, <1>12

\* Attempts and their ends, and what comes after.
LEMMA TriedAttempt ==
  ASSUME IInv, TInv, NEW f \in Flows,
         \/ FetchFails(f) \/ QueueImport(f) \/ ImportConfirmed(f) \/ ConfirmAgain(f)
         \/ ImportUnconfirmed(f) \/ AttemptSucceeds(f) \/ RollbackEnds(f)
         \/ ShowFailure(f) \/ Finish(f) \/ EntryAdded(f) \/ CloseDialog(f)
  PROVE  TInv'
<1> DEFINE fl == flow[f]
<1>1. fl \in FlowRecord /\ Tried(fl) /\ FlowOK(fl, entries, stopping) /\ fl.attempts \in Nat
  BY DEF IInv, TInv, FlowRecord
<1>2. ASSUME fl.task # None PROVE fl.sub # None => fl.step = "gone"
  BY <1>1, <1>2 DEF FlowOK, Forms
<1>3. CASE FetchFails(f)
  <2>1. fl.task # None /\ \E error : Change(f, RolledBack(f, fl, error, FALSE))
    BY <1>3 DEF FetchFails, AttemptAt
  <2> QED BY <1>1, <2>1, TriedRolledBack, TriedOne
<1>4. CASE ImportUnconfirmed(f)
  <2>1. fl.task # None /\ Change(f, RolledBack(f, fl, "other", TRUE))
    BY <1>4 DEF ImportUnconfirmed, AttemptAt
  <2> QED BY <1>1, <2>1, TriedRolledBack, TriedOne
<1>5. CASE QueueImport(f) \/ ImportConfirmed(f)
  <2>1. fl.task # None /\ fl.task \in Attempts
    BY <1>1, <1>5 DEF QueueImport, ImportConfirmed, AttemptAt, FlowRecord
  <2>2. PICK at \in {"confirming", "visible"}, half \in BOOLEAN :
          Change(f, [[fl EXCEPT !.task.at = at] EXCEPT !.unconfirmed = half])
    <3>1. CASE QueueImport(f)
      <4>1. [fl EXCEPT !.task.at = "confirming"]
              = [[fl EXCEPT !.task.at = "confirming"] EXCEPT !.unconfirmed = fl.unconfirmed]
        BY <1>1 DEF FlowRecord
      <4>2. fl.unconfirmed \in BOOLEAN BY <1>1 DEF FlowRecord
      <4> QED BY <3>1, <4>1, <4>2 DEF QueueImport, Moves
    <3>2. CASE ImportConfirmed(f) BY <3>2 DEF ImportConfirmed, Moves, Only
    <3> QED BY <1>5, <3>1, <3>2
  <2> DEFINE new == [[fl EXCEPT !.task.at = at] EXCEPT !.unconfirmed = half]
  <2>3. /\ new.step = fl.step /\ new.attempts = fl.attempts /\ new.own = fl.own
        /\ new.sub = fl.sub
    BY <1>1 DEF FlowRecord
  <2> HIDE DEF new
  <2>4. Tried(new) BY <1>1, <2>1, <2>3 DEF Tried
  <2> QED BY <2>2, <2>4, TriedOne DEF new
<1>6. CASE ConfirmAgain(f)
  BY <1>6 DEF ConfirmAgain, TInv, Tried
<1>7. CASE AttemptSucceeds(f)
  <2> DEFINE new == [fl EXCEPT !.task = None, !.imported = fl.attempts,
                               !.step = IF @ = "gone" THEN @ ELSE "finish", !.own = FALSE]
  <2>1. fl.task # None /\ Change(f, new) BY <1>7 DEF AttemptSucceeds, AttemptAt, Only
  <2>2. /\ new.step \in {"gone", "finish"} /\ new.attempts = fl.attempts
        /\ new.task = None /\ new.sub = fl.sub
    BY <1>1 DEF FlowRecord
  <2>3. fl.sub # None => new.step = "gone" BY <1>1, <1>2, <2>1 DEF FlowRecord
  <2> HIDE DEF new
  <2>4. Tried(new) BY <1>1, <2>2, <2>3 DEF Tried, Early
  <2> QED BY <2>1, <2>4, TriedOne
<1>8. CASE RollbackEnds(f)
  <2>1. fl.task # None /\ Change(f, FailedAttempt(fl, fl.task.error))
    BY <1>8 DEF RollbackEnds, AttemptAt
  <2> QED BY <1>1, <1>2, <2>1, TriedFailed, TriedOne
<1>9. CASE ShowFailure(f)
  <2>1. fl.step = "import_failed" /\ Change(f, Failure(fl))
    BY <1>9 DEF ShowFailure, Only
  <2>2. Tried(AbortFlow(fl)) BY <1>1, TriedAbort
  <2>3. Tried(ShowForm(fl, "import_failed_last"))
    BY <1>1, <2>1, TriedForm DEF Forms
  <2>4. fl.attempts < MaxAttempts => Tried(ShowForm(fl, "import_failed"))
    BY <1>1, <2>1, TriedForm DEF Forms
  <2> QED BY <2>1, <2>2, <2>3, <2>4, TriedOne DEF Failure
<1>10. CASE Finish(f)
  <2> DEFINE new == [Ended(fl, "entry") EXCEPT !.created = TRUE]
  <2>1. Change(f, new) BY <1>10 DEF Finish, CreateEntry
  <2>2. /\ new.step = fl.step /\ new.attempts = fl.attempts /\ new.own = fl.own
        /\ new.task = fl.task /\ new.sub = None
    BY <1>1 DEF Ended, FlowRecord
  <2> HIDE DEF new
  <2>3. Tried(new) BY <1>1, <2>2 DEF Tried
  <2> QED BY <2>1, <2>3, TriedOne
<1>11. CASE EntryAdded(f)
  BY <1>1, <1>11, TriedAbort, TriedOne DEF EntryAdded, Only
<1>12. CASE CloseDialog(f)
  BY <1>1, <1>12, TriedCancelled, TriedOne DEF CloseDialog
<1> QED BY <1>3, <1>4, <1>5, <1>6, <1>7, <1>8, <1>9, <1>10, <1>11, <1>12

\* Every step.
LEMMA TriedSteps == IInv /\ TInv /\ [Next]_vars => TInv'
<1> SUFFICES ASSUME IInv, TInv, [Next]_vars PROVE TInv' OBVIOUS
<1>1. CASE \/ UNCHANGED vars \/ RecorderRuns \/ UpdateBegins \/ UpdateWaits \/ UpdateGivesUp
           \/ UpdateReads \/ UpdateImports
  <2>1. flow' = flow
    BY <1>1 DEF vars, RecorderRuns, UpdateBegins, UpdateWaits, UpdateGivesUp, UpdateReads,
                UpdateImports
  <2> QED BY <2>1 DEF TInv, Tried
<1>2. CASE Stop
  <2>1. \A f \in Flows : Tried(Cancelled(f, flow[f]))
    BY TriedCancelled DEF IInv, TInv
  <2>2. \A f \in Flows : Tried(flow'[f])
    BY <1>2, <2>1 DEF Stop
  <2> QED BY <2>2 DEF TInv, Tried
<1>3. CASE Restart
  <2>1. ASSUME NEW f \in Flows PROVE Tried(flow'[f])
    <3>1. CASE flow[f].step = "none"
      BY <1>3, <3>1 DEF Restart, TInv
    <3>2. CASE flow[f].step # "none"
      <4> DEFINE new == [flow[f] EXCEPT !.step = "gone", !.sub = None, !.task = None,
                                        !.repeats = 0]
      <4>1. flow'[f] = new BY <1>3, <3>2 DEF Restart
      <4>2. new.step = "gone" /\ new.task = None /\ new.attempts = flow[f].attempts
        BY DEF IInv, FlowRecord
      <4> HIDE DEF new
      <4>3. Tried(new) BY <4>2 DEF Tried, TInv, Early
      <4> QED BY <4>1, <4>3
    <3> QED BY <3>1, <3>2
  <2> QED BY <2>1 DEF TInv, Tried
<1>4. CASE \E f \in Flows : Step(f)
  BY <1>4, TriedSubmission, TriedAnswer, TriedAttempt DEF Step
<1> QED BY <1>1, <1>2, <1>3, <1>4 DEF Next

LEMMA TriedFirst == Init => TInv
<1> SUFFICES ASSUME Init, NEW f \in Flows PROVE Tried(flow[f]) BY DEF TInv
<1>1. flow[f] = NewFlow BY DEF Init
<1>2. MaxAttempts \in Nat BY SetupAssumption
<1> QED BY <1>1, <1>2 DEF NewFlow, Tried, Early

-------------------------------------------------------------------------------
(***************************************************************************)
(* The recorder's queue: what it will remove, whose imports it holds, and  *)
(* whether a wait stands behind every removal.                             *)
(***************************************************************************)
Authors == (Flows \X (Nat \ {0})) \cup {Entry}
Waiters == (Flows \X {"form", "task"}) \cup {Update}

Tasks == [kind : {"import"}, by : Authors, statistics : SUBSET Statistics]
           \cup [kind : {"removal"}, by : Waiters, statistics : SUBSET Statistics]

Erased(q) ==
  {s \in Statistics : \E k \in DOMAIN q : q[k].kind = "removal" /\ s \in q[k].statistics}
Imports(q) ==
  {by \in Authors : \E k \in DOMAIN q : q[k].kind = "import" /\ q[k].by = by}
Behind(q, by) ==
  \A i \in DOMAIN q : q[i].kind = "removal" /\ q[i].statistics # {} =>
    \E j \in DOMAIN q : j >= i /\ q[j].kind = "removal" /\ q[j].by = by

\* The places of two queues joined.
LEMMA Places ==
  ASSUME NEW q \in Seq(Tasks), NEW a \in Seq(Tasks)
  PROVE  /\ q \o a \in Seq(Tasks)
         /\ \A k \in DOMAIN q : k \in DOMAIN (q \o a) /\ (q \o a)[k] = q[k]
         /\ \A k \in DOMAIN a : Len(q) + k \in DOMAIN (q \o a) /\ (q \o a)[Len(q) + k] = a[k]
         /\ \A k \in DOMAIN (q \o a) :
              \/ k \in DOMAIN q
              \/ \E i \in DOMAIN a : k = Len(q) + i
<1>1. /\ q \o a \in Seq(Tasks) /\ Len(q \o a) = Len(q) + Len(a)
      /\ Len(q) \in Nat /\ Len(a) \in Nat
      /\ DOMAIN q = 1 .. Len(q) /\ DOMAIN a = 1 .. Len(a)
      /\ DOMAIN (q \o a) = 1 .. Len(q) + Len(a)
  BY ConcatProperties
<1>2. \A k \in 1 .. Len(q) + Len(a) :
        (q \o a)[k] = IF k <= Len(q) THEN q[k] ELSE a[k - Len(q)]
  BY ConcatProperties
<1>3. ASSUME NEW k \in DOMAIN q
      PROVE  k \in DOMAIN (q \o a) /\ (q \o a)[k] = q[k]
  BY <1>1, <1>2
<1>4. ASSUME NEW k \in DOMAIN a
      PROVE  Len(q) + k \in DOMAIN (q \o a) /\ (q \o a)[Len(q) + k] = a[k]
  <2>1. Len(q) + k \in 1 .. Len(q) + Len(a) /\ ~ (Len(q) + k <= Len(q))
        /\ Len(q) + k - Len(q) = k
    BY <1>1
  <2>2. (q \o a)[Len(q) + k] = a[Len(q) + k - Len(q)] BY <1>2, <2>1
  <2> QED BY <1>1, <2>1, <2>2
<1>5. ASSUME NEW k \in DOMAIN (q \o a), k \notin DOMAIN q
      PROVE  \E i \in DOMAIN a : k = Len(q) + i
  <2>1. k - Len(q) \in DOMAIN a /\ k = Len(q) + (k - Len(q))
    BY <1>1, <1>5
  <2> QED BY <2>1
<1> QED BY <1>1, <1>3, <1>4, <1>5

LEMMA Joined ==
  ASSUME NEW q \in Seq(Tasks), NEW a \in Seq(Tasks)
  PROVE  /\ q \o a \in Seq(Tasks)
         /\ Erased(q \o a) = Erased(q) \cup Erased(a)
         /\ Imports(q \o a) = Imports(q) \cup Imports(a)
         /\ \A by : Behind(q, by) /\ Erased(a) = {} => Behind(q \o a, by)
<1>1. \A k \in DOMAIN q : k \in DOMAIN (q \o a) /\ (q \o a)[k] = q[k]
  BY Places
<1>2. \A k \in DOMAIN a : Len(q) + k \in DOMAIN (q \o a) /\ (q \o a)[Len(q) + k] = a[k]
  BY Places
<1>3. \A k \in DOMAIN (q \o a) : k \in DOMAIN q \/ \E i \in DOMAIN a : k = Len(q) + i
  BY Places
<1> DEFINE both == q \o a
<1>4. /\ \A k \in DOMAIN q : \E i \in DOMAIN both : both[i] = q[k]
      /\ \A k \in DOMAIN a : \E i \in DOMAIN both : both[i] = a[k]
      /\ \A i \in DOMAIN both : \/ \E k \in DOMAIN q : both[i] = q[k]
                                \/ \E k \in DOMAIN a : both[i] = a[k]
  BY <1>1, <1>2, <1>3
<1>5. Erased(both) = Erased(q) \cup Erased(a) /\ Imports(both) = Imports(q) \cup Imports(a)
  <2> HIDE DEF both
  <2>1. ASSUME NEW s \in Statistics
        PROVE  s \in Erased(both) <=> s \in Erased(q) \/ s \in Erased(a)
    <3>1. s \in Erased(q) \/ s \in Erased(a) => s \in Erased(both)
      BY <1>4, ZenonT(30) DEF Erased
    <3>2. ASSUME s \in Erased(both) PROVE s \in Erased(q) \/ s \in Erased(a)
      <4>1. PICK i \in DOMAIN both : both[i].kind = "removal" /\ s \in both[i].statistics
        BY <3>2 DEF Erased
      <4>2. CASE \E k \in DOMAIN q : both[i] = q[k] BY <4>1, <4>2 DEF Erased
      <4>3. CASE \E k \in DOMAIN a : both[i] = a[k] BY <4>1, <4>3 DEF Erased
      <4> QED BY <1>4, <4>2, <4>3
    <3> QED BY <3>1, <3>2
  <2>2. ASSUME NEW by \in Authors
        PROVE  by \in Imports(both) <=> by \in Imports(q) \/ by \in Imports(a)
    <3>1. by \in Imports(q) \/ by \in Imports(a) => by \in Imports(both)
      BY <1>4, ZenonT(30) DEF Imports
    <3>2. ASSUME by \in Imports(both) PROVE by \in Imports(q) \/ by \in Imports(a)
      <4>1. PICK i \in DOMAIN both : both[i].kind = "import" /\ both[i].by = by
        BY <3>2 DEF Imports
      <4>2. CASE \E k \in DOMAIN q : both[i] = q[k] BY <4>1, <4>2 DEF Imports
      <4>3. CASE \E k \in DOMAIN a : both[i] = a[k] BY <4>1, <4>3 DEF Imports
      <4> QED BY <1>4, <4>2, <4>3
    <3> QED BY <3>1, <3>2
  <2>3. /\ Erased(both) \cup Erased(q) \cup Erased(a) \subseteq Statistics
        /\ Imports(both) \cup Imports(q) \cup Imports(a) \subseteq Authors
    BY DEF Erased, Imports
  <2> QED BY <2>1, <2>2, <2>3
<1>6. ASSUME NEW by, Behind(q, by), Erased(a) = {}
      PROVE  Behind(q \o a, by)
  <2> SUFFICES ASSUME NEW i \in DOMAIN (q \o a), (q \o a)[i].kind = "removal",
                      (q \o a)[i].statistics # {}
               PROVE  \E j \in DOMAIN (q \o a) : /\ j >= i /\ (q \o a)[j].kind = "removal"
                                                 /\ (q \o a)[j].by = by
    BY DEF Behind
  <2>1. i \in DOMAIN q
    <3> SUFFICES ASSUME NEW k \in DOMAIN a, i = Len(q) + k PROVE FALSE
      BY <1>3
    <3>1. a[k].kind = "removal" /\ a[k].statistics # {} BY <1>2
    <3>2. a[k] \in Tasks OBVIOUS
    <3>3. a[k].statistics \subseteq Statistics BY <3>2 DEF Tasks
    <3> QED BY <1>6, <3>1, <3>3 DEF Erased
  <2>2. PICK j \in DOMAIN q : j >= i /\ q[j].kind = "removal" /\ q[j].by = by
    BY <1>1, <1>6, <2>1 DEF Behind
  <2> QED BY <1>1, <2>2
<1> QED BY <1>5, <1>6, Places

\* A removal, or a barrier, queued last.
LEMMA QueuedLast ==
  ASSUME NEW q \in Seq(Tasks), NEW by \in Waiters, NEW statistics \in SUBSET Statistics
  PROVE  /\ <<Removal(by, statistics)>> \in Seq(Tasks)
         /\ Append(q, Removal(by, statistics)) = q \o <<Removal(by, statistics)>>
         /\ Erased(<<Removal(by, statistics)>>) = statistics
         /\ Imports(<<Removal(by, statistics)>>) = {}
         /\ Behind(q \o <<Removal(by, statistics)>>, by)
<1> DEFINE a == <<Removal(by, statistics)>>
<1>1. Removal(by, statistics) \in Tasks BY DEF Removal, Tasks
<1>2. a \in Seq(Tasks) /\ DOMAIN a = {1} /\ a[1] = Removal(by, statistics)
  BY <1>1
<1>3. Append(q, Removal(by, statistics)) = q \o a
  BY <1>1, AppendIsConcat
<1>4. Removal(by, statistics).kind = "removal"
      /\ Removal(by, statistics).statistics = statistics
      /\ Removal(by, statistics).by = by
  BY DEF Removal
<1> HIDE DEF a
<1>5. Erased(a) = statistics /\ Imports(a) = {}
  BY <1>2, <1>4 DEF Erased, Imports
<1>6. Behind(q \o a, by)
  <2> SUFFICES ASSUME NEW i \in DOMAIN (q \o a)
               PROVE  \E j \in DOMAIN (q \o a) : /\ j >= i /\ (q \o a)[j].kind = "removal"
                                                 /\ (q \o a)[j].by = by
    BY DEF Behind
  <2>1. /\ Len(q) + 1 \in DOMAIN (q \o a)
        /\ (q \o a)[Len(q) + 1] = Removal(by, statistics)
    BY <1>2, Places
  <2>2. Len(q) + 1 >= i
    <3>1. DOMAIN q = 1 .. Len(q) /\ Len(q) \in Nat OBVIOUS
    <3>2. i \in DOMAIN q \/ i = Len(q) + 1 BY <1>2, Places
    <3> QED BY <3>1, <3>2
  <2> QED BY <1>4, <2>1, <2>2
<1>7. a \in Seq(Tasks) BY <1>2
<1> QED BY <1>3, <1>5, <1>6, <1>7 DEF a

\* Nothing is queued.
LEMMA Nothing ==
  ASSUME NEW q \in Seq(Tasks)
  PROVE  /\ <<>> \in Seq(Tasks) /\ q \o <<>> = q /\ Erased(<<>>) = {} /\ Imports(<<>>) = {}
<1>1. DOMAIN <<>> = {} OBVIOUS
<1> QED BY <1>1, ConcatEmptySeq DEF Erased, Imports

\* The recorder is done with its oldest task, or queues an import again.
LEMMA Shorter ==
  ASSUME NEW q \in Seq(Tasks), q # <<>>, NEW r,
         \/ r = Tail(q)
         \/ Head(q).kind = "import" /\ r = Append(Tail(q), Head(q))
  PROVE  /\ r \in Seq(Tasks) /\ Erased(r) \subseteq Erased(q)
         /\ Imports(r) \subseteq Imports(q)
         /\ \A by : Behind(q, by) => Behind(r, by)
<1> DEFINE t == Tail(q)
<1>1. /\ t \in Seq(Tasks) /\ Head(q) \in Tasks /\ Head(q) = q[1]
      /\ Len(q) \in Nat \ {0} /\ DOMAIN q = 1 .. Len(q) /\ DOMAIN t = 1 .. Len(q) - 1
  BY HeadTailProperties, EmptySeq
<1>2. \A k \in DOMAIN t : k + 1 \in DOMAIN q /\ t[k] = q[k + 1]
  BY <1>1, HeadTailProperties
<1>3. Erased(t) \subseteq Erased(q) /\ Imports(t) \subseteq Imports(q)
  BY <1>2 DEF Erased, Imports
<1>4. ASSUME NEW by, Behind(q, by) PROVE Behind(t, by)
  <2> SUFFICES ASSUME NEW i \in DOMAIN t, t[i].kind = "removal", t[i].statistics # {}
               PROVE  \E j \in DOMAIN t : j >= i /\ t[j].kind = "removal" /\ t[j].by = by
    BY DEF Behind
  <2>1. PICK j \in DOMAIN q : j >= i + 1 /\ q[j].kind = "removal" /\ q[j].by = by
    BY <1>2, <1>4 DEF Behind
  <2>2. j - 1 \in DOMAIN t /\ j - 1 >= i /\ (j - 1) + 1 = j BY <1>1, <2>1
  <2>3. t[j - 1] = q[(j - 1) + 1] BY <1>2, <2>2
  <2> QED BY <2>1, <2>2, <2>3
<1>5. CASE r = t
  BY <1>1, <1>3, <1>4, <1>5
<1>6. CASE Head(q).kind = "import" /\ r = Append(t, Head(q))
  <2> DEFINE a == <<Head(q)>>
  <2>1. a \in Seq(Tasks) /\ r = t \o a
    <3>1. PICK h \in Tasks : h = Head(q) BY <1>1
    <3>2. PICK u \in Seq(Tasks) : u = t BY <1>1
    <3>3. Append(u, h) = u \o <<h>> /\ <<h>> \in Seq(Tasks) BY AppendIsConcat
    <3> QED BY <1>6, <3>1, <3>2, <3>3
  <2>2. DOMAIN a = {1} /\ a[1] = Head(q) OBVIOUS
  <2> HIDE DEF a, t
  <2>3. Erased(a) = {} BY <1>6, <2>2 DEF Erased
  <2>4. 1 \in DOMAIN q BY <1>1
  <2>5. Imports(a) \subseteq Imports(q)
    BY <1>1, <2>2, <2>4 DEF Imports
  <2> QED BY <1>1, <1>3, <1>4, <2>1, <2>3, <2>5, Joined
<1> QED BY <1>5, <1>6

\* Once a wait behind every removal is over, none is left.
LEMMA NoneLeft ==
  ASSUME queue \in Seq(Tasks), NEW by, Behind(queue, by), ~ Waiting(by)
  PROVE  Erased(queue) = {}
BY DEF Behind, Waiting, Erased

\* The imports of an attempt, or of an update.
LEMMA Written ==
  ASSUME NEW by \in Authors
  PROVE  /\ Writes(by) \in Seq(Tasks) /\ Erased(Writes(by)) = {}
         /\ Imports(Writes(by)) = {by}
<1>1. \A s \in Statistics : ImportTask(by, s) \in Tasks
  BY DEF ImportTask, Tasks
<1>2. \A s \in Statistics : ImportTask(by, s).kind = "import" /\ ImportTask(by, s).by = by
  BY DEF ImportTask
<1>3. "energy" \in Statistics /\ "cost" \in Statistics BY DEF Statistics
<1>4. /\ DOMAIN Writes(by) = {1, 2} /\ Writes(by)[1] = ImportTask(by, "energy")
      /\ Writes(by)[2] = ImportTask(by, "cost")
  BY DEF Writes
<1>5. Writes(by) \in Seq(Tasks) BY <1>1, <1>3 DEF Writes
<1> QED BY <1>2, <1>3, <1>4, <1>5 DEF Erased, Imports

-------------------------------------------------------------------------------
(***************************************************************************)
(* What a stop of Home Assistant queues: the removal of one attempt.       *)
(***************************************************************************)
\* FlattenSeq of one sequence, and of two.
LEMMA FlattenOne ==
  ASSUME NEW X, NEW q \in Seq(Seq(X)), Len(q) = 1
  PROVE  FlattenSeq(q) = q[1]
<1> DEFINE Def(g) == g = [i \in 1 .. Len(q) |-> IF i = 1 THEN q[i] ELSE g[i - 1] \o q[i]]
           F == CHOOSE g : Def(g)
<1>1. Def([i \in 1 .. 1 |-> q[1]])
  <2>1. \A i \in 1 .. 1 : i = 1 OBVIOUS
  <2> QED BY <2>1
<1>2. Def(F) BY <1>1
<1>3. FlattenSeq(q) = F[1]
  BY DEF FlattenSeq
<1> QED BY <1>2, <1>3

LEMMA FlattenTwo ==
  ASSUME NEW X, NEW q \in Seq(Seq(X)), Len(q) = 2
  PROVE  FlattenSeq(q) = q[1] \o q[2]
<1> DEFINE Def(g) == g = [i \in 1 .. Len(q) |-> IF i = 1 THEN q[i] ELSE g[i - 1] \o q[i]]
           F == CHOOSE g : Def(g)
           w == [i \in 1 .. 2 |-> IF i = 1 THEN q[1] ELSE q[1] \o q[2]]
<1>1. Def(w)
  <2>1. \A i \in 1 .. 2 : (i = 1 \/ i = 2) /\ w[1] = q[1]  OBVIOUS
  <2>2. \A i \in 1 .. 2 : w[i] = IF i = 1 THEN q[i] ELSE w[i - 1] \o q[i]
    BY <2>1
  <2> QED BY <2>2
<1>2. Def(F) /\ FlattenSeq(q) = F[2]
  <2>1. Def(F) BY <1>1
  <2>2. FlattenSeq(q) = F[2] BY DEF FlattenSeq
  <2> QED BY <2>1, <2>2
<1>3. PICK g : Def(g) /\ FlattenSeq(q) = g[2]
  <2> HIDE DEF F
  <2> QED BY <1>2
<1>4. \A i \in 1 .. 2 : g[i] = IF i = 1 THEN q[i] ELSE g[i - 1] \o q[i]
  BY <1>3
<1>5. g[1] = q[1] BY <1>4
<1>6. g[2] = g[2 - 1] \o q[2] BY <1>4
<1> QED BY <1>3, <1>5, <1>6

\* The elements of a finite set, in some order.
LEMMA InOrder ==
  ASSUME NEW S, IsFiniteSet(S)
  PROVE  SetToSeq(S) \in [1 .. Cardinality(S) -> S] /\ IsInjective(SetToSeq(S))
<1>1. PICK f \in Bijection(1 .. Cardinality(S), S) : TRUE
  BY FS_CardinalityType DEF ExistsBijection
<1>2. f \in [1 .. Cardinality(S) -> S] /\ IsInjective(f)
  BY <1>1 DEF Bijection, Injection, IsInjective
<1> QED BY <1>2 DEF SetToSeq

LEMMA TwoElements ==
  ASSUME NEW a, NEW b, a # b
  PROVE  Cardinality({a} \cup {b}) = 2
<1>1. IsFiniteSet({a}) /\ Cardinality({a}) = 1 BY FS_Singleton
<1>2. Cardinality({a} \cup {b}) = IF b \in {a} THEN Cardinality({a}) ELSE Cardinality({a}) + 1
  BY <1>1, FS_AddElement
<1>3. b \notin {a} OBVIOUS
<1>4. Cardinality({a} \cup {b}) = 1 + 1 BY <1>1, <1>2, <1>3
<1> QED BY <1>4

\* Of sequences that are all empty but one, only that one is left.
LEMMA FlatPair ==
  ASSUME NEW X, NEW t \in Seq(X), NEW S \in SUBSET {<<>>, t}
  PROVE  FlattenSeq(SetToSeq(S)) = IF t \in S THEN t ELSE <<>>
<1>1. IsFiniteSet({<<>>, t}) /\ IsFiniteSet(S)
  <2>1. IsFiniteSet({<<>>} \cup {t}) BY FS_Singleton, FS_AddElement
  <2>2. {<<>>} \cup {t} = {<<>>, t} OBVIOUS
  <2> QED BY <2>1, <2>2, FS_Subset
<1>2. PICK q \in [1 .. Cardinality(S) -> S] : q = SetToSeq(S) /\ IsInjective(q)
  BY <1>1, InOrder
<1>3. S \subseteq Seq(X)
  <2>1. <<>> \in Seq(X) OBVIOUS
  <2> QED BY <2>1
<1>4. Cardinality(S) \in Nat
  BY <1>1, FS_CardinalityType
<1>5. q \in Seq(Seq(X)) /\ Len(q) = Cardinality(S)
  <2>1. q \in [1 .. Cardinality(S) -> Seq(X)] BY <1>3
  <2> QED BY <2>1, <1>4
<1>6. CASE S = {}
  <2>1. Len(q) = 0 BY <1>5, <1>6, FS_EmptySet
  <2>2. q = <<>> BY <2>1, <1>5
  <2>3. FlattenSeq(q) = q BY <2>1 DEF FlattenSeq
  <2> QED BY <1>2, <1>6, <2>2, <2>3
<1>7. ASSUME NEW a \in S, S = {a}
      PROVE  FlattenSeq(SetToSeq(S)) = IF t \in S THEN t ELSE <<>>
  <2>1. Len(q) = 1 /\ Cardinality(S) = 1 BY <1>5, <1>7, FS_Singleton
  <2>2. q[1] = a
    <3>1. 1 \in 1 .. Cardinality(S) BY <2>1
    <3>2. q[1] \in S BY <3>1
    <3> QED BY <1>7, <3>2
  <2>3. FlattenSeq(q) = a BY <1>5, <2>1, <2>2, FlattenOne
  <2> QED BY <1>2, <1>7, <2>3
<1>8. CASE S = {<<>>, t} /\ t # <<>>
  <2>1. \A a, b : a # b => Cardinality({a} \cup {b}) = 2 BY TwoElements
  <2>2. Cardinality(S) = 2
    <3>1. PICK e : e = <<>> OBVIOUS
    <3>2. S = {e} \cup {t} /\ e # t BY <1>8, <3>1
    <3> QED BY <2>1, <3>2
  <2>3. Len(q) = 2 BY <1>5, <2>2
  <2>4. q[1] \in {<<>>, t} /\ q[2] \in {<<>>, t} /\ q[1] # q[2]
    <3>1. DOMAIN q = 1 .. 2 BY <2>2
    <3>2. 1 \in DOMAIN q /\ 2 \in DOMAIN q /\ 1 # 2 BY <3>1
    <3>3. q[1] # q[2] BY ONLY <1>2, <3>2 DEF IsInjective
    <3>4. q[1] \in S /\ q[2] \in S BY <3>2
    <3> QED BY <1>8, <3>3, <3>4
  <2>5. FlattenSeq(q) = q[1] \o q[2] BY <1>5, <2>3, FlattenTwo
  <2>6. <<>> \o t = t /\ t \o <<>> = t BY ConcatEmptySeq
  <2>7. FlattenSeq(q) = t BY <2>4, <2>5, <2>6
  <2> QED BY <1>2, <1>8, <2>7
<1>9. S = {} \/ (\E a \in S : S = {a}) \/ (S = {<<>>, t} /\ t # <<>>)
  OBVIOUS
<1> QED BY <1>6, <1>7, <1>8, <1>9

-------------------------------------------------------------------------------
(***************************************************************************)
(* What is removed.  No removal is queued while an attempt runs, or once   *)
(* it has succeeded; a flow that may still queue one knows what others     *)
(* left; and a wait stands behind every removal queued before it.          *)
(***************************************************************************)
Shown(fl) == fl.task # None /\ fl.task.at = "visible"
WaitsOn(fl) == fl.sub # None /\ fl.sub.name = "wait" /\ fl.step # "gone"

\* A flow that may have its attempts removed.
Owns(fl) == Holds(fl) /\ ~ fl.created /\ fl.attempts > 0

\* A success leaves the flow at its end.
Succeeds(fl) ==
  fl.imported > 0 => /\ fl.step \in {"finish", "gone"} /\ fl.task = None
                     /\ fl.imported = fl.attempts

FlowR(f, fl, q) ==
  /\ Succeeds(fl)
  /\ fl.imported > 0 \/ Shown(fl) => <<f, fl.attempts>> \notin Imports(q)
  /\ Running(fl) \/ fl.step = "finish" => Erased(q) = {}
  /\ WaitsOn(fl) => Behind(q, Form(f))

\* Rows the flow must not remove: those of before, and of other flows' successes.
ByOthers(f, s) ==
  \/ History \in table[s]
  \/ \E g \in Flows \ {f} : flow[g].imported > 0 /\ <<g, flow[g].imported>> \in table[s]

RInv ==
  /\ queue \in Seq(Tasks) /\ DOMAIN table = Statistics
  /\ \A f \in Flows : FlowR(f, flow[f], queue)
  /\ \A s \in Erased(queue) :
       /\ History \notin table[s]
       /\ \A f \in Flows : flow[f].imported > 0 => <<f, flow[f].imported>> \notin table[s]
  /\ entry # None => Erased(queue) = {}
  /\ entry = None => Entry \notin Imports(queue) /\ \A s \in Statistics : Entry \notin table[s]
  /\ entries = 0 => entry = None
  /\ \A f \in Flows : Owns(flow[f]) => \A s \in CreatedBy(flow[f]) : ~ ByOthers(f, s)

\* Every step but the recorder's.
LEMMA RowsStep ==
  ASSUME IInv, RInv, NEW a \in Seq(Tasks), queue' = queue \o a, table' = table,
         entry' = None => entry = None /\ Entry \notin Imports(a),
         entry' # None => Erased(queue') = {},
         entries' = 0 => entry' = None,
         \A f \in Flows : FlowR(f, flow'[f], queue'),
         \A f \in Flows : flow'[f].imported > 0 =>
           \/ flow'[f].imported = flow[f].imported
           \/ Erased(queue') = {} /\ Holds(flow[f]),
         \A f \in Flows : Owns(flow'[f]) =>
           \/ Owns(flow[f]) /\ flow'[f].existing = flow[f].existing
           \/ \A s \in CreatedBy(flow'[f]) : table[s] = {},
         \A s \in Erased(a) : \E f \in Flows : /\ Owns(flow[f]) /\ s \in CreatedBy(flow[f])
                                               /\ flow'[f].imported = 0
  PROVE  RInv'
<1>1. /\ queue' \in Seq(Tasks) /\ Erased(queue') = Erased(queue) \cup Erased(a)
      /\ Imports(queue') = Imports(queue) \cup Imports(a)
  BY Joined DEF RInv
<1>2. \A f \in Flows : FlowR(f, flow[f], queue)' <=> FlowR(f, flow'[f], queue')
  BY DEF FlowR, Succeeds, Shown, Running, WaitsOn, Form
<1>3. \A f \in Flows : (Owns(flow[f])' <=> Owns(flow'[f]))
                       /\ CreatedBy(flow[f])' = CreatedBy(flow'[f])
  BY DEF Owns, Holds, Live, CreatedBy
<1>4. ASSUME NEW s \in Erased(queue')
      PROVE  /\ History \notin table[s]
             /\ \A f \in Flows : flow'[f].imported > 0 => <<f, flow'[f].imported>> \notin table[s]
  <2>1. CASE s \in Erased(queue)
    BY <1>4, <2>1 DEF RInv
  <2>2. CASE s \in Erased(a)
    <3>1. PICK g \in Flows : Owns(flow[g]) /\ s \in CreatedBy(flow[g]) /\ flow'[g].imported = 0
      BY <2>2
    <3>2. ~ ByOthers(g, s) BY <3>1 DEF RInv
    <3>3. ASSUME NEW f \in Flows, flow'[f].imported > 0
          PROVE  <<f, flow'[f].imported>> \notin table[s]
      <4>1. flow'[f].imported = flow[f].imported BY <1>4, <3>3
      <4>2. f # g
        <5> SUFFICES ASSUME f = g PROVE FALSE OBVIOUS
        <5>1. flow'[f].imported = 0 BY <3>1
        <5> QED BY <3>3, <5>1
      <4>3. flow[f].imported > 0 BY <3>3, <4>1
      <4>4. <<f, flow[f].imported>> \notin table[s] BY <3>2, <4>2, <4>3 DEF ByOthers
      <4> QED BY <4>1, <4>4
    <3>4. History \notin table[s] BY <3>2 DEF ByOthers
    <3> QED BY <3>3, <3>4
  <2> QED BY <1>1, <2>1, <2>2
<1>5. ASSUME NEW f \in Flows, Owns(flow'[f]), NEW s \in CreatedBy(flow'[f])
      PROVE  /\ History \notin table[s]
             /\ \A g \in Flows \ {f} :
                  flow'[g].imported > 0 => <<g, flow'[g].imported>> \notin table[s]
  <2>1. CASE table[s] = {} BY <2>1
  <2>2. CASE table[s] # {}
    <3>1. Owns(flow[f]) /\ flow'[f].existing = flow[f].existing BY <1>5, <2>2
    <3>2. s \in CreatedBy(flow[f]) BY <1>5, <3>1 DEF CreatedBy
    <3>3. ~ ByOthers(f, s) BY <3>1, <3>2 DEF RInv
    <3>4. ASSUME NEW g \in Flows \ {f}, flow'[g].imported > 0
          PROVE  flow'[g].imported = flow[g].imported
      <4>1. ~ Holds(flow[g]) BY <3>1, <3>4 DEF IInv, Owns
      <4> QED BY <3>4, <4>1
    <3> QED BY <3>3, <3>4 DEF ByOthers
  <2> QED BY <2>1, <2>2
<1>6. \A f \in Flows : Owns(flow'[f]) => \A s \in CreatedBy(flow'[f]) : ~ ByOthers(f, s)'
  BY <1>5 DEF ByOthers
<1>7. \A f \in Flows : FlowR(f, flow[f], queue)'
  BY <1>2
<1>8. entry' = None => /\ Entry \notin Imports(queue')
                       /\ \A s \in Statistics : Entry \notin table[s]
  BY <1>1 DEF RInv
<1>9. DOMAIN table' = Statistics BY DEF RInv
<1> QED BY <1>1, <1>3, <1>4, <1>6, <1>7, <1>8, <1>9 DEF RInv, Erased, Imports

\* What a step that neither starts an attempt nor brings it to its end makes of a flow.
Plain(old, fl) ==
  /\ fl.imported = old.imported /\ fl.attempts = old.attempts /\ fl.existing = old.existing
  /\ old.imported > 0 => fl.step \in {"finish", "gone"} /\ fl.task = None
  /\ Running(fl) => Running(old)
  /\ fl.step = "finish" => old.step = "finish"
  /\ Shown(fl) => Shown(old)
  /\ Holds(fl) /\ ~ fl.created => (Holds(old) /\ ~ old.created) \/ fl.attempts = 0

\* A queue that grew by nothing of a flow leaves what is known of it.
LEMMA FlowStays ==
  ASSUME NEW f \in Flows, NEW fl, NEW q \in Seq(Tasks), NEW a \in Seq(Tasks), FlowR(f, fl, q),
         <<f, fl.attempts>> \notin Imports(a),
         Running(fl) \/ fl.step = "finish" \/ WaitsOn(fl) => Erased(a) = {}
  PROVE  FlowR(f, fl, q \o a)
BY Joined DEF FlowR

\* Flows change, in one step, each plainly; what is queued are a flow's removals.
LEMMA PlainSteps ==
  ASSUME IInv, RInv, NEW a \in Seq(Tasks), queue' = queue \o a, table' = table,
         Imports(a) = {}, entry' = None <=> entry = None, entries' = entries,
         \A f \in Flows : Plain(flow[f], flow'[f]),
         \A f \in Flows : Running(flow'[f]) \/ flow'[f].step = "finish" => Erased(a) = {},
         \A f \in Flows : WaitsOn(flow'[f]) => Behind(queue', Form(f)),
         \A s \in Erased(a) : \E f \in Flows : /\ Owns(flow[f]) /\ s \in CreatedBy(flow[f])
                                               /\ flow[f].imported = 0
  PROVE  RInv'
<1>1. queue \in Seq(Tasks) /\ \A f \in Flows : FlowR(f, flow[f], queue)
  BY DEF RInv
<1>2. /\ Erased(queue') = Erased(queue) \cup Erased(a)
      /\ Imports(queue') = Imports(queue)
  <2>1. /\ Erased(queue \o a) = Erased(queue) \cup Erased(a)
        /\ Imports(queue \o a) = Imports(queue) \cup Imports(a)
    BY <1>1, Joined
  <2>2. Imports(queue) \cup Imports(a) = Imports(queue) OBVIOUS
  <2> QED BY <2>1, <2>2
<1>3. ASSUME NEW f \in Flows PROVE FlowR(f, flow'[f], queue')
  <2>1. Plain(flow[f], flow'[f]) /\ FlowR(f, flow[f], queue) BY <1>1
  <2>2. Succeeds(flow'[f]) BY <2>1 DEF Plain, FlowR, Succeeds
  <2>3. flow'[f].imported > 0 \/ Shown(flow'[f]) => <<f, flow'[f].attempts>> \notin Imports(queue')
    BY <1>2, <2>1 DEF Plain, FlowR
  <2>4. Running(flow'[f]) \/ flow'[f].step = "finish" => Erased(queue') = {}
    BY <1>2, <2>1 DEF Plain, FlowR
  <2> QED BY <2>2, <2>3, <2>4 DEF FlowR
<1>4. entry' # None => Erased(queue') = {}
  <2> SUFFICES ASSUME entry # None, NEW s \in Erased(a) PROVE FALSE
    BY <1>2 DEF RInv
  <2>1. PICK f \in Flows : Owns(flow[f]) OBVIOUS
  <2>2. FlowOK(flow[f], entries, stopping) BY DEF IInv
  <2>3. entries = 0 BY <2>1, <2>2 DEF FlowOK, Owns, Holds
  <2> QED BY <2>3 DEF RInv
<1>5. \A f \in Flows : flow'[f].imported = flow[f].imported
  BY DEF Plain
<1>6. \A f \in Flows : Owns(flow'[f]) => Owns(flow[f]) /\ flow'[f].existing = flow[f].existing
  <2> SUFFICES ASSUME NEW f \in Flows, Owns(flow'[f])
               PROVE  Owns(flow[f]) /\ flow'[f].existing = flow[f].existing
    OBVIOUS
  <2>1. flow[f].attempts \in Nat BY DEF IInv, FlowRecord
  <2> QED BY <2>1 DEF Plain, Owns
<1>7. entries' = 0 => entry' = None BY DEF RInv
<1> QED BY <1>3, <1>4, <1>5, <1>6, <1>7, RowsStep

\* One flow changes plainly.
LEMMA PlainStep ==
  ASSUME IInv, RInv, NEW f \in Flows, NEW fl, Change(f, fl), Plain(flow[f], fl),
         NEW a \in Seq(Tasks), queue' = queue \o a, UNCHANGED <<table, entry, entries>>,
         Imports(a) = {}, Erased(a) \subseteq CreatedBy(flow[f]),
         Erased(a) # {} => /\ Owns(flow[f]) /\ flow[f].imported = 0
                           /\ ~ Running(fl) /\ fl.step # "finish",
         WaitsOn(fl) => \/ WaitsOn(flow[f]) /\ Erased(a) = {}
                        \/ Behind(queue', Form(f))
  PROVE  RInv'
<1>1. \A g \in Flows : flow'[g] = IF g = f THEN fl ELSE flow[g]
  BY DEF Change, IInv
<1>2. queue \in Seq(Tasks) /\ \A g \in Flows : FlowR(g, flow[g], queue)
  BY DEF RInv
<1>3. ASSUME NEW g \in Flows PROVE Plain(flow[g], flow'[g])
  <2>1. g # f => flow'[g] = flow[g] BY <1>1
  <2>2. Plain(flow[g], flow[g]) BY <1>2 DEF Plain, FlowR, Succeeds
  <2> QED BY <1>1, <2>1, <2>2
<1>4. ASSUME NEW g \in Flows, g # f, Erased(a) # {}
      PROVE  ~ Running(flow[g]) /\ flow[g].step # "finish" /\ ~ WaitsOn(flow[g])
  <2>1. ~ Holds(flow[g]) BY <1>4 DEF IInv, Owns
  <2>2. FlowOK(flow[g], entries, stopping) BY DEF IInv
  <2> QED BY <2>1, <2>2 DEF FlowOK, Holds, Live, WaitsOn, Forms
<1>5. ASSUME NEW g \in Flows
      PROVE  Running(flow'[g]) \/ flow'[g].step = "finish" => Erased(a) = {}
  BY <1>1, <1>4
<1>6. ASSUME NEW g \in Flows, WaitsOn(flow'[g]) PROVE Behind(queue', Form(g))
  <2>1. CASE Erased(a) = {} /\ WaitsOn(flow[g])
    BY <1>2, <2>1, Joined DEF FlowR
  <2>2. CASE ~ (Erased(a) = {} /\ WaitsOn(flow[g]))
    BY <1>1, <1>4, <1>6, <2>2
  <2> QED BY <2>1, <2>2
<1> QED BY <1>3, <1>5, <1>6, PlainSteps

\* What is known of one flow.
LEMMA Known ==
  ASSUME IInv, TInv, RInv, NEW f \in Flows
  PROVE  /\ flow[f] \in FlowRecord /\ FlowOK(flow[f], entries, stopping) /\ Tried(flow[f])
         /\ Succeeds(flow[f]) /\ FlowR(f, flow[f], queue) /\ queue \in Seq(Tasks)
         /\ flow[f].attempts \in Nat /\ flow[f].imported \in Nat
         /\ Form(f) \in Waiters /\ Task(f) \in Waiters
<1>1. flow[f] \in FlowRecord /\ FlowOK(flow[f], entries, stopping) /\ Tried(flow[f])
      /\ FlowR(f, flow[f], queue) /\ queue \in Seq(Tasks)
  BY DEF IInv, TInv, RInv
<1>2. Form(f) \in Waiters /\ Task(f) \in Waiters
  BY DEF Waiters, Form, Task
<1> QED BY <1>1, <1>2 DEF FlowR, FlowRecord

\* A running attempt is of the flow that may have it removed.
LEMMA RunningOwns ==
  ASSUME IInv, TInv, RInv, NEW f \in Flows, Running(flow[f])
  PROVE  /\ Owns(flow[f]) /\ flow[f].imported = 0 /\ flow[f].step = "initial_import"
         /\ flow[f].sub = None /\ flow[f].attempts > 0 /\ flow[f].task # None
<1>1. /\ FlowOK(flow[f], entries, stopping) /\ Tried(flow[f]) /\ Succeeds(flow[f])
      /\ flow[f].imported \in Nat /\ flow[f].attempts \in Nat
  BY Known
<1>2. flow[f].task # None /\ flow[f].step = "initial_import"
  BY <1>1 DEF Running, FlowOK
<1>3. /\ flow[f].named /\ ~ flow[f].created /\ flow[f].sub = None
      /\ flow[f].attempts > 0 /\ flow[f].imported = 0
  BY <1>1, <1>2 DEF FlowOK, Forms, Parked, Tried, Succeeds
<1> QED BY <1>2, <1>3 DEF Owns, Holds, Live

\* A flow that waits for the recorder holds the email and has no attempt running.
LEMMA WaitsHolds ==
  ASSUME IInv, TInv, RInv, NEW f \in Flows, flow[f].sub # None, flow[f].step # "gone"
  PROVE  /\ Holds(flow[f]) /\ ~ flow[f].created /\ flow[f].task = None
         /\ flow[f].imported = 0 /\ flow[f].step \in Forms
<1>1. /\ FlowOK(flow[f], entries, stopping) /\ Succeeds(flow[f]) /\ flow[f].imported \in Nat
  BY Known
<1>2. flow[f].named /\ ~ flow[f].created /\ flow[f].step \in Forms
  BY <1>1 DEF FlowOK
<1>3. flow[f].task = None /\ flow[f].imported = 0
  BY <1>1, <1>2 DEF FlowOK, Succeeds, Forms
<1> QED BY <1>2, <1>3 DEF Holds, Live, Forms

\* Forms shown, aborts and submissions are plain.
LEMMA PlainForms ==
  ASSUME NEW fl \in FlowRecord, Succeeds(fl), fl.step \in Forms \cup {"gone"},
         NEW step \in Forms
  PROVE  /\ Plain(fl, ShowForm(fl, step)) /\ ~ WaitsOn(ShowForm(fl, step))
         /\ Plain(fl, AbortFlow(fl)) /\ ~ WaitsOn(AbortFlow(fl))
<1>1. fl.imported \in Nat BY DEF FlowRecord
<1> DEFINE form == ShowForm(fl, step)
           abort == AbortFlow(fl)
<1>2. /\ form.imported = fl.imported /\ form.attempts = fl.attempts
      /\ form.existing = fl.existing /\ form.task = fl.task /\ form.sub = None
      /\ form.step = (IF fl.step = "gone" THEN "gone" ELSE step)
      /\ form.named = fl.named /\ form.created = fl.created
  BY DEF ShowForm, Ended, FlowRecord
<1>3. /\ abort.imported = fl.imported /\ abort.attempts = fl.attempts
      /\ abort.existing = fl.existing /\ abort.task = fl.task /\ abort.sub = None
      /\ abort.step = "gone" /\ abort.named = fl.named /\ abort.created = fl.created
  BY DEF AbortFlow, Ended, FlowRecord
<1> HIDE DEF form, abort
<1>4. Plain(fl, form) /\ ~ WaitsOn(form)
  BY <1>1, <1>2 DEF Plain, Succeeds, Forms, Running, Shown, Holds, Live, WaitsOn
<1>5. Plain(fl, abort) /\ ~ WaitsOn(abort)
  BY <1>1, <1>3 DEF Plain, Succeeds, Forms, Running, Shown, Holds, Live, WaitsOn
<1> QED BY <1>4, <1>5 DEF form, abort

LEMMA PlainSubmission ==
  ASSUME NEW fl \in FlowRecord, Succeeds(fl),
         NEW sub, NEW repeats, NEW accounts
  PROVE  /\ Plain(fl, [fl EXCEPT !.sub = sub])
         /\ Plain(fl, [fl EXCEPT !.repeats = repeats])
         /\ Plain(fl, [fl EXCEPT !.accounts = accounts])
BY DEF Plain, Succeeds, FlowRecord, Running, Shown, Holds, Live

\* A flow that is removed.
LEMMA PlainGone ==
  ASSUME NEW fl \in FlowRecord, Succeeds(fl)
  PROVE  /\ Plain(fl, [fl EXCEPT !.step = "gone"])
         /\ ~ WaitsOn([fl EXCEPT !.step = "gone"])
BY DEF Plain, Succeeds, FlowRecord, Running, Shown, Holds, Live, WaitsOn

\* An attempt rolled back, and one that failed.
LEMMA PlainRolledBack ==
  ASSUME NEW f, NEW fl \in FlowRecord, Succeeds(fl), fl.task # None, NEW error, NEW half
  PROVE  /\ Plain(fl, RolledBack(f, fl, error, half))
         /\ ~ Running(RolledBack(f, fl, error, half))
         /\ RolledBack(f, fl, error, half).step = fl.step
         /\ RolledBack(f, fl, error, half).sub = fl.sub
<1> DEFINE new == RolledBack(f, fl, error, half)
<1>1. /\ new.imported = fl.imported /\ new.attempts = fl.attempts /\ new.existing = fl.existing
      /\ new.step = fl.step /\ new.sub = fl.sub /\ new.named = fl.named
      /\ new.created = fl.created /\ new.task.at = "rolling back"
  BY DEF RolledBack, FlowRecord
<1> HIDE DEF new
<1>2. ~ Running(new) /\ ~ Shown(new)
  BY <1>1 DEF Running, Shown
<1>3. ~ (fl.imported > 0) BY DEF Succeeds
<1>4. Holds(new) /\ ~ new.created => Holds(fl) /\ ~ fl.created
  BY <1>1 DEF Holds, Live
<1>5. Plain(fl, new)
  BY <1>1, <1>2, <1>3, <1>4 DEF Plain
<1> QED BY <1>1, <1>2, <1>5 DEF new

LEMMA PlainFailed ==
  ASSUME NEW fl \in FlowRecord, Succeeds(fl), fl.task # None,
         fl.step \in {"initial_import", "gone"}, NEW error
  PROVE  /\ Plain(fl, FailedAttempt(fl, error)) /\ ~ Running(FailedAttempt(fl, error))
         /\ FailedAttempt(fl, error).sub = fl.sub
         /\ FailedAttempt(fl, error).step = IF fl.step = "gone" THEN "gone" ELSE "import_failed"
<1> DEFINE new == FailedAttempt(fl, error)
<1>1. /\ new.imported = fl.imported /\ new.attempts = fl.attempts /\ new.existing = fl.existing
      /\ new.step = (IF fl.step = "gone" THEN "gone" ELSE "import_failed")
      /\ new.sub = fl.sub /\ new.named = fl.named
      /\ new.created = fl.created /\ new.task = None
  BY DEF FailedAttempt, FlowRecord
<1> HIDE DEF new
<1>2. Plain(fl, new) /\ ~ Running(new)
  BY <1>1 DEF Plain, Succeeds, Running, Shown, Holds, Live
<1> QED BY <1>1, <1>2 DEF new

LEMMA PlainCancelled ==
  ASSUME NEW f, NEW fl \in FlowRecord, NEW n, NEW stopped, FlowOK(fl, n, stopped),
         Succeeds(fl)
  PROVE  /\ Plain(fl, Cancelled(f, fl)) /\ ~ Running(Cancelled(f, fl))
         /\ WaitsOn(Cancelled(f, fl)) => WaitsOn(fl) /\ fl.task = None
         /\ Plain(fl, [Cancelled(f, fl) EXCEPT !.step = "gone"])
<1> DEFINE new == Cancelled(f, fl)
<1>1. new \in FlowRecord
  BY CancelledKeeps DEF Keeps
<1>2. fl.task # None => fl.step \in {"initial_import", "gone"} /\ (fl.sub # None => fl.step = "gone")
  BY DEF FlowOK, Forms
<1>3. Plain(fl, new) /\ ~ Running(new) /\ (WaitsOn(new) => WaitsOn(fl) /\ fl.task = None)
  <2>1. CASE Running(fl)
    <3>1. new = RolledBack(f, fl, "cancelled", fl.task.at = "confirming") /\ fl.task # None
      BY <2>1 DEF Cancelled, Running
    <3>2. \A half : LET back == RolledBack(f, fl, "cancelled", half)
                   IN  /\ Plain(fl, back) /\ ~ Running(back) /\ back.step = fl.step
                       /\ back.sub = fl.sub
      BY <3>1, PlainRolledBack
    <3>3. Plain(fl, new) /\ ~ Running(new) /\ new.step = fl.step /\ new.sub = fl.sub
      BY <3>1, <3>2, Zenon
    <3> QED BY <1>2, <3>1, <3>3 DEF WaitsOn
  <2>2. CASE fl.task # None /\ ~ Running(fl)
    <3>1. new = FailedAttempt(fl, "cancelled") BY <2>2 DEF Cancelled
    <3>2. /\ Plain(fl, new) /\ ~ Running(new) /\ new.sub = fl.sub
          /\ fl.step = "gone" => new.step = "gone"
      BY <1>2, <2>2, <3>1, PlainFailed
    <3> QED BY <1>2, <2>2, <3>2 DEF WaitsOn
  <2>3. CASE fl.task = None
    <3>1. new = fl BY <2>3 DEF Cancelled, Running
    <3> QED BY <2>3, <3>1 DEF Plain, Succeeds, Running, WaitsOn
  <2> QED BY <2>1, <2>2, <2>3
<1>4. Plain(fl, [new EXCEPT !.step = "gone"])
  <2> DEFINE gone == [new EXCEPT !.step = "gone"]
  <2>1. /\ gone.imported = new.imported /\ gone.attempts = new.attempts
        /\ gone.existing = new.existing /\ gone.task = new.task /\ gone.step = "gone"
    BY <1>1 DEF FlowRecord
  <2> HIDE DEF new, gone
  <2>2. Plain(fl, gone)
    BY <1>3, <2>1 DEF Plain, Running, Shown, Holds, Live
  <2> QED BY <2>2 DEF gone
<1> QED BY <1>3, <1>4

-------------------------------------------------------------------------------
(***************************************************************************)
(* What each kind of step queues.                                          *)
(***************************************************************************)
\* Nothing.
LEMMA PlainQuiet ==
  ASSUME IInv, RInv, NEW f \in Flows, NEW fl, Change(f, fl), Plain(flow[f], fl),
         UNCHANGED <<table, queue, entry, entries>>,
         WaitsOn(fl) => WaitsOn(flow[f])
  PROVE  RInv'
<1>1. queue \in Seq(Tasks) BY DEF RInv
<1>2. /\ <<>> \in Seq(Tasks) /\ queue' = queue \o <<>> /\ Erased(<<>>) = {}
      /\ Imports(<<>>) = {}
  BY <1>1, Nothing
<1>3. PICK a \in Seq(Tasks) : queue' = queue \o a /\ Erased(a) = {} /\ Imports(a) = {}
  BY <1>2
<1> QED BY <1>3, PlainStep

\* A barrier, or a removal, behind which the flow's form waits.
LEMMA PlainWait ==
  ASSUME IInv, TInv, RInv, NEW f \in Flows, NEW fl, Change(f, fl), Plain(flow[f], fl),
         UNCHANGED <<table, entry, entries>>,
         NEW statistics \in SUBSET CreatedBy(flow[f]),
         queue' = Append(queue, Removal(Form(f), statistics)),
         statistics # {} => /\ Owns(flow[f]) /\ flow[f].imported = 0
                            /\ ~ Running(fl) /\ fl.step # "finish"
  PROVE  RInv'
<1>1. queue \in Seq(Tasks) /\ Form(f) \in Waiters /\ statistics \in SUBSET Statistics
  BY Known DEF CreatedBy
<1>2. /\ <<Removal(Form(f), statistics)>> \in Seq(Tasks)
      /\ queue' = queue \o <<Removal(Form(f), statistics)>>
      /\ Erased(<<Removal(Form(f), statistics)>>) = statistics
      /\ Imports(<<Removal(Form(f), statistics)>>) = {}
      /\ Behind(queue \o <<Removal(Form(f), statistics)>>, Form(f))
  BY <1>1, QueuedLast
<1>3. PICK a \in Seq(Tasks) : /\ queue' = queue \o a /\ Erased(a) = statistics
                              /\ Imports(a) = {} /\ Behind(queue', Form(f))
  BY <1>2
<1> QED BY <1>3, PlainStep

\* What a rollback queues removes what its flow created.
LEMMA RolledBackTasks ==
  ASSUME IInv, TInv, RInv, NEW f \in Flows
  PROVE  /\ RollbackTasks(f, flow[f]) \in Seq(Tasks)
         /\ Erased(RollbackTasks(f, flow[f])) \subseteq CreatedBy(flow[f])
         /\ Imports(RollbackTasks(f, flow[f])) = {}
<1>1. queue \in Seq(Tasks) /\ Task(f) \in Waiters /\ CreatedBy(flow[f]) \in SUBSET Statistics
  BY Known DEF CreatedBy
<1>2. CASE CreatedBy(flow[f]) = {}
  BY <1>1, <1>2, Nothing DEF RollbackTasks
<1>3. CASE CreatedBy(flow[f]) # {}
  BY <1>1, <1>3, QueuedLast DEF RollbackTasks
<1> QED BY <1>2, <1>3

\* A rollback.
LEMMA PlainRollback ==
  ASSUME IInv, TInv, RInv, NEW f \in Flows, NEW fl, Change(f, fl), Plain(flow[f], fl),
         UNCHANGED <<table, entry, entries>>, Running(flow[f]), ~ Running(fl),
         fl.step # "finish", ~ WaitsOn(fl),
         queue' = queue \o RollbackTasks(f, flow[f])
  PROVE  RInv'
<1>1. PICK a \in Seq(Tasks) : /\ a = RollbackTasks(f, flow[f])
                              /\ Erased(a) \subseteq CreatedBy(flow[f]) /\ Imports(a) = {}
  BY RolledBackTasks
<1>2. Owns(flow[f]) /\ flow[f].imported = 0 BY RunningOwns
<1> QED BY <1>1, <1>2, PlainStep

\* One flow changes otherwise than plainly, while nothing is removed.
LEMMA RowsOne ==
  ASSUME IInv, RInv, NEW f \in Flows, NEW fl, Change(f, fl),
         NEW a \in Seq(Tasks), queue' = queue \o a, table' = table,
         Erased(a) = {},
         Imports(a) # {} => Imports(a) = {Attempt(f)} /\ flow[f].attempts # 0,
         entry' = None => entry = None,
         entry' # None => Erased(queue) = {},
         entries' = 0 => entry' = None,
         FlowR(f, fl, queue'),
         fl.imported > 0 => \/ fl.imported = flow[f].imported
                            \/ Erased(queue) = {} /\ Holds(flow[f]),
         Owns(fl) => \/ Owns(flow[f]) /\ fl.existing = flow[f].existing
                     \/ \A s \in CreatedBy(fl) : table[s] = {}
  PROVE  RInv'
<1>1. \A g \in Flows : flow'[g] = IF g = f THEN fl ELSE flow[g]
  BY DEF Change, IInv
<1>2. queue \in Seq(Tasks) /\ \A g \in Flows : FlowR(g, flow[g], queue)
  BY DEF RInv
<1>3. Erased(queue') = Erased(queue)
  <2>1. Erased(queue \o a) = Erased(queue) \cup Erased(a) BY <1>2, Joined
  <2> QED BY <2>1
<1>4. ASSUME NEW g \in Flows PROVE FlowR(g, flow'[g], queue')
  <2>1. CASE g = f BY <1>1, <2>1
  <2>2. CASE g # f
    <3>1. flow'[g] = flow[g] BY <1>1, <2>2
    <3>2. <<g, flow[g].attempts>> \notin Imports(a) BY <2>2 DEF Attempt
    <3>3. FlowR(g, flow[g], queue \o a) BY <1>2, <3>2, FlowStays
    <3> QED BY <3>1, <3>3
  <2> QED BY <2>1, <2>2
<1>5. entry' = None => entry = None /\ Entry \notin Imports(a)
  BY DEF Attempt, Entry
<1>6. \A g \in Flows : flow'[g].imported > 0 =>
        \/ flow'[g].imported = flow[g].imported
        \/ Erased(queue') = {} /\ Holds(flow[g])
  BY <1>1, <1>3
<1>7. \A g \in Flows : Owns(flow'[g]) =>
        \/ Owns(flow[g]) /\ flow'[g].existing = flow[g].existing
        \/ \A s \in CreatedBy(flow'[g]) : table[s] = {}
  BY <1>1
<1> QED BY <1>3, <1>4, <1>5, <1>6, <1>7, RowsStep

-------------------------------------------------------------------------------
(***************************************************************************)
(* Every step keeps what is known of removals.                             *)
(***************************************************************************)
\* A wait that begins, for what earlier setups left or for a removal.
LEMMA RowsPrepares ==
  ASSUME IInv, TInv, RInv, NEW f \in Flows, NEW fl, Prepares(f, fl),
         Plain(flow[f], Waits(fl, "first", Passes - 1)), UNCHANGED <<table, entry, entries>>
  PROVE  RInv'
<1>1. PICK new : new = Waits(fl, "first", Passes - 1) OBVIOUS
<1>2. Change(f, new) /\ Plain(flow[f], new) /\ queue' = Append(queue, Removal(Form(f), {}))
  BY <1>1 DEF Prepares, Barrier
<1>3. {} \in SUBSET CreatedBy(flow[f]) OBVIOUS
<1> QED BY <1>2, <1>3, PlainWait

LEMMA RowsRollsBack ==
  ASSUME IInv, TInv, RInv, NEW f \in Flows, NEW goal,
         flow[f].step \in {"import_failed", "import_failed_last"}, ~ flow[f].created,
         RollsBack(f, flow[f], goal), UNCHANGED <<table, entry, entries>>
  PROVE  RInv'
<1> DEFINE fl == flow[f]
<1>1. /\ fl \in FlowRecord /\ FlowOK(fl, entries, stopping) /\ Tried(fl) /\ Succeeds(fl)
      /\ fl.imported \in Nat
  BY Known
<1>2. /\ fl.named /\ fl.task = None /\ fl.attempts > 0 /\ fl.imported = 0
  BY <1>1 DEF FlowOK, Tried, Succeeds
<1>3. Owns(fl) BY <1>2 DEF Owns, Holds, Live
<1>4. PICK left \in Nat, statistics \in SUBSET CreatedBy(fl) :
        /\ Change(f, Waits(fl, goal, left))
        /\ queue' = Append(queue, Removal(Form(f), statistics))
  <2>3. Passes - 1 \in Nat BY SetupAssumption
  <2>1. CASE CreatedBy(fl) # {} BY <2>1 DEF RollsBack
  <2>2. CASE CreatedBy(fl) = {}
    <3>1. Change(f, Waits(fl, goal, Passes - 1)) /\ queue' = Append(queue, Removal(Form(f), {}))
      BY <2>2 DEF RollsBack, Barrier
    <3>2. {} \in SUBSET CreatedBy(fl) OBVIOUS
    <3> QED BY <2>3, <3>1, <3>2
  <2> QED BY <2>1, <2>2
<1>5. PICK new : new = Waits(fl, goal, left) OBVIOUS
<1>6. Plain(fl, new) BY <1>1, <1>5, PlainSubmission DEF Waits
<1>7. new.task = None /\ new.step = fl.step
  BY <1>1, <1>2, <1>5 DEF Waits, FlowRecord
<1>8. ~ Running(new) /\ new.step # "finish"
  BY <1>7 DEF Running
<1>9. Change(f, new) BY <1>4, <1>5
<1> HIDE DEF fl
<1> QED BY <1>2, <1>3, <1>4, <1>6, <1>8, <1>9, PlainWait DEF fl

LEMMA RowsSubmission ==
  ASSUME IInv, TInv, RInv, NEW f \in Flows,
         \/ OpenDialog(f) \/ SubmitCode(f) \/ SubmitAccounts(f)
         \/ SubmitDiscovery(f) \/ SubmitFailed(f) \/ SubmitLast(f)
         \/ SubmitAgain(f) \/ AnswerRepeat(f)
  PROVE  RInv'
<1> DEFINE fl == flow[f]
<1>1. /\ fl \in FlowRecord /\ FlowOK(fl, entries, stopping) /\ Tried(fl) /\ Succeeds(fl)
      /\ fl.imported \in Nat
  BY Known
<1>2. UNCHANGED <<table, entry, entries>>
  BY DEF OpenDialog, SubmitCode, SubmitAccounts, SubmitDiscovery, SubmitFailed, SubmitLast,
         SubmitAgain, AnswerRepeat, Only
<1>3. CASE OpenDialog(f)
  <2> DEFINE new == [fl EXCEPT !.step = "user", !.own = TRUE]
  <2>1. Change(f, new) /\ UNCHANGED queue /\ fl.step = "none" /\ fl.task = None
        /\ ~ fl.named /\ fl.sub = None /\ fl.imported = 0
    BY <1>1, <1>3 DEF OpenDialog, Only, FlowOK, Succeeds
  <2>2. /\ new.imported = fl.imported /\ new.attempts = fl.attempts /\ new.task = fl.task
        /\ new.existing = fl.existing /\ new.step = "user" /\ new.named = fl.named
        /\ new.sub = fl.sub
    BY <1>1 DEF FlowRecord
  <2> HIDE DEF new
  <2>3. Plain(fl, new) /\ ~ WaitsOn(new)
    BY <2>1, <2>2 DEF Plain, Running, Shown, Holds, Live, WaitsOn
  <2> QED BY <1>2, <2>1, <2>3, PlainQuiet
<1>4. CASE SubmitCode(f)
  <2>1. Change(f, Handles(fl, "check")) /\ UNCHANGED queue
    BY <1>4 DEF SubmitCode, Only
  <2>2. Plain(fl, Handles(fl, "check")) /\ ~ WaitsOn(Handles(fl, "check"))
    BY <1>1, PlainSubmission DEF Handles, WaitsOn, FlowRecord
  <2> QED BY <1>2, <2>1, <2>2, PlainQuiet
<1>5. \A goal, left : Plain(fl, Waits(fl, goal, left))
  BY <1>1, PlainSubmission DEF Waits
<1>6. CASE SubmitAccounts(f)
  BY <1>2, <1>5, <1>6, RowsPrepares DEF SubmitAccounts
<1>7. CASE SubmitDiscovery(f)
  <2>1. CASE Prepares(f, fl) BY <1>2, <1>5, <2>1, RowsPrepares
  <2>2. CASE Change(f, Handles(fl, "discover")) /\ UNCHANGED queue
    <3>1. Plain(fl, Handles(fl, "discover")) /\ ~ WaitsOn(Handles(fl, "discover"))
      BY <1>1, PlainSubmission DEF Handles, WaitsOn, FlowRecord
    <3> QED BY <1>2, <2>2, <3>1, PlainQuiet
  <2> QED BY <1>7, <2>1, <2>2 DEF SubmitDiscovery
<1>8. CASE SubmitFailed(f)
  <2>1. fl.step = "import_failed" /\ ~ fl.created /\ \E goal : RollsBack(f, fl, goal)
    BY <1>8 DEF SubmitFailed, Submits
  <2> QED BY <1>2, <2>1, RowsRollsBack
<1>9. CASE SubmitLast(f)
  <2>1. fl.step = "import_failed_last" /\ ~ fl.created
    BY <1>9 DEF SubmitLast, Submits
  <2>2. CASE RollsBack(f, fl, "entry") BY <1>2, <2>1, <2>2, RowsRollsBack
  <2>3. CASE Change(f, AbortFlow(fl)) /\ UNCHANGED queue
    <3>1. Plain(fl, AbortFlow(fl)) /\ ~ WaitsOn(AbortFlow(fl))
      BY <1>1, <2>1, PlainForms DEF Forms
    <3> QED BY <1>2, <2>3, <3>1, PlainQuiet
  <2> QED BY <1>9, <2>2, <2>3 DEF SubmitLast
<1>10. CASE SubmitAgain(f) \/ AnswerRepeat(f)
  <2>1. PICK repeats \in {0, 1} : Change(f, [fl EXCEPT !.repeats = repeats]) /\ UNCHANGED queue
    BY <1>10 DEF SubmitAgain, AnswerRepeat, RepeatAnswer
  <2>2. PICK new : new = [fl EXCEPT !.repeats = repeats] OBVIOUS
  <2>3. Plain(fl, new) BY <1>1, <2>2, PlainSubmission
  <2>4. WaitsOn(new) => WaitsOn(fl) BY <1>1, <2>2 DEF WaitsOn, FlowRecord
  <2> QED BY <1>2, <2>1, <2>2, <2>3, <2>4, PlainQuiet
<1> QED BY <1>3, <1>4, <1>6, <1>7, <1>8, <1>9, <1>10

\* The email is submitted: flows it replaces go, and this one has no attempts yet.
LEMMA RowsEmail ==
  ASSUME IInv, TInv, RInv, NEW f \in Flows, SubmitEmail(f)
  PROVE  RInv'
<1>1. flow[f].step = "user" /\ UNCHANGED <<table, queue, entry, entries>>
  BY DEF SubmitEmail, Submits
<1>2. ASSUME NEW g \in Flows
      PROVE  /\ flow[g] \in FlowRecord /\ Succeeds(flow[g]) /\ Tried(flow[g])
             /\ FlowOK(flow[g], entries, stopping) /\ FlowR(g, flow[g], queue)
             /\ flow[g].imported \in Nat
  BY Known
<1>3. ASSUME NEW g \in Flows
      PROVE  Plain(flow[g], flow'[g]) /\ (WaitsOn(flow'[g]) => WaitsOn(flow[g]))
  <2> DEFINE named == [flow[f] EXCEPT !.named = TRUE]
  <2>1. \/ flow'[g] = flow[g]
        \/ g = f /\ flow'[g] = AbortFlow(flow[f])
        \/ g = f /\ flow'[g] = Handles(named, "send")
        \/ flow'[g] = [flow[g] EXCEPT !.step = "gone"]
    <3> DEFINE refused == entry # None \/ Importers(f) # {}
               next(h) == IF h = f
                          THEN IF refused THEN AbortFlow(flow[f]) ELSE Handles(named, "send")
                          ELSE IF entry = None /\ flow[h].named /\ flow[h].step \in Parked
                               THEN [flow[h] EXCEPT !.step = "gone"]
                               ELSE flow[h]
    <3>1. flow' = [h \in Flows |-> next(h)] BY DEF SubmitEmail
    <3>2. flow'[g] = next(g) BY <3>1
    <3> QED BY <3>2
  <2>2. CASE flow'[g] = flow[g]
    BY <1>2, <2>2 DEF Plain, Succeeds
  <2>3. CASE g = f /\ flow'[g] = AbortFlow(flow[f])
    BY <1>1, <1>2, <2>3, PlainForms DEF Forms
  <2>4. CASE g = f /\ flow'[g] = Handles(named, "send")
    <3>1. PICK new : new = Handles(named, "send") OBVIOUS
    <3>2. /\ new.imported = flow[f].imported /\ new.attempts = flow[f].attempts
          /\ new.task = flow[f].task /\ new.existing = flow[f].existing
          /\ new.step = "user" /\ new.sub.name = "send"
      BY <1>1, <1>2, <3>1 DEF Handles, FlowRecord
    <3>3. ~ (flow[f].imported > 0) /\ flow[f].attempts = 0
      BY <1>1, <1>2 DEF Succeeds, Tried, Early
    <3>4. Plain(flow[f], new) /\ ~ WaitsOn(new)
      BY <3>2, <3>3 DEF Plain, Running, Shown, WaitsOn
    <3> QED BY <2>4, <3>1, <3>4
  <2>5. CASE flow'[g] = [flow[g] EXCEPT !.step = "gone"]
    BY <1>2, <2>5, PlainGone
  <2> QED BY <2>1, <2>2, <2>3, <2>4, <2>5
<1>4. queue \in Seq(Tasks) BY DEF RInv
<1>5. PICK a \in Seq(Tasks) : queue' = queue \o a /\ Erased(a) = {} /\ Imports(a) = {}
                              /\ queue \o a = queue
  BY <1>1, <1>4, Nothing
<1>6. \A g \in Flows : WaitsOn(flow'[g]) => Behind(queue', Form(g))
  BY <1>1, <1>2, <1>3 DEF FlowR
<1> QED BY <1>1, <1>3, <1>5, <1>6, PlainSteps

LEMMA RowsAnswer ==
  ASSUME IInv, TInv, RInv, NEW f \in Flows,
         \/ CodeSent(f) \/ CodeChecked(f) \/ AccountsFound(f) \/ PassEnds(f)
         \/ WaitTimesOut(f)
         \/ /\ NotReady(f)
            /\ flow[f].sub # None
  PROVE  RInv'
<1> DEFINE fl == flow[f]
<1>1. /\ fl \in FlowRecord /\ FlowOK(fl, entries, stopping) /\ Tried(fl) /\ Succeeds(fl)
      /\ fl.imported \in Nat
  BY Known
<1>2. UNCHANGED <<table, entry, entries>> /\ fl.sub # None
  BY DEF CodeSent, CodeChecked, AccountsFound, PassEnds, WaitTimesOut, NotReady, Only, Handling
<1>3. fl.step \in Forms \cup {"gone"} BY <1>1, <1>2 DEF FlowOK
<1>4. ASSUME NEW new, Change(f, new), UNCHANGED queue,
             (\E step \in Forms : new = ShowForm(fl, step)) \/ new = AbortFlow(fl)
      PROVE  RInv'
  <2>1. Plain(fl, new) /\ ~ WaitsOn(new) BY <1>1, <1>3, <1>4, PlainForms DEF Forms
  <2> QED BY <1>2, <1>4, <2>1, PlainQuiet
<1>5. CASE CodeSent(f)
  <2>1. UNCHANGED queue /\ \E step \in Forms : Change(f, ShowForm(fl, step))
    BY <1>5 DEF CodeSent, Only, Forms
  <2> QED BY <1>4, <2>1
<1>6. CASE CodeChecked(f)
  <2>1. UNCHANGED queue BY <1>6 DEF CodeChecked, Only
  <2>2. CASE Change(f, ShowForm(fl, "otp")) BY <1>4, <2>1, <2>2 DEF Forms
  <2>3. CASE Change(f, Handles(fl, "discover"))
    <3>1. Plain(fl, Handles(fl, "discover")) /\ ~ WaitsOn(Handles(fl, "discover"))
      BY <1>1, PlainSubmission DEF Handles, WaitsOn, FlowRecord
    <3> QED BY <1>2, <2>1, <2>3, <3>1, PlainQuiet
  <2> QED BY <1>6, <2>2, <2>3 DEF CodeChecked, Only
<1>7. CASE AccountsFound(f)
  <2> DEFINE one == [fl EXCEPT !.accounts = 1]
             two == [fl EXCEPT !.accounts = 2]
  <2>1. \/ UNCHANGED queue /\ Change(f, ShowForm(fl, "discovery_retry"))
        \/ UNCHANGED queue /\ Change(f, AbortFlow(fl))
        \/ Prepares(f, one)
        \/ UNCHANGED queue /\ Change(f, ShowForm(two, "accounts"))
    BY <1>7 DEF AccountsFound
  <2>2. CASE UNCHANGED queue /\ Change(f, ShowForm(fl, "discovery_retry"))
    BY <1>4, <2>2 DEF Forms
  <2>3. CASE UNCHANGED queue /\ Change(f, AbortFlow(fl))
    BY <1>4, <2>3
  <2>4. /\ Plain(fl, one) /\ Plain(fl, two) /\ one \in FlowRecord /\ two \in FlowRecord
        /\ Succeeds(one) /\ Succeeds(two) /\ one.step = fl.step /\ two.step = fl.step
    <3>1. 1 \in 0 .. 2 /\ 2 \in 0 .. 2 OBVIOUS
    <3>2. Plain(fl, one) /\ Plain(fl, two) BY <1>1, PlainSubmission
    <3> QED BY <1>1, <3>1, <3>2 DEF FlowRecord, Succeeds
  <2> HIDE DEF one, two
  <2>5. ASSUME NEW mid, NEW new, Plain(fl, mid), Plain(mid, new) PROVE Plain(fl, new)
    BY <2>5 DEF Plain
  <2>6. CASE Prepares(f, one)
    <3>1. PICK new : new = Waits(one, "first", Passes - 1) OBVIOUS
    <3>2. Plain(one, new) BY <2>4, <3>1, PlainSubmission DEF Waits
    <3>3. Plain(fl, new) BY <2>4, <2>5, <3>2
    <3> QED BY <1>2, <2>6, <3>1, <3>3, RowsPrepares
  <2>7. CASE UNCHANGED queue /\ Change(f, ShowForm(two, "accounts"))
    <3>1. PICK new : new = ShowForm(two, "accounts") OBVIOUS
    <3>2. Plain(two, new) /\ ~ WaitsOn(new)
      BY <1>3, <2>4, <3>1, PlainForms DEF Forms
    <3>3. Plain(fl, new) BY <2>4, <2>5, <3>2
    <3> QED BY <1>2, <2>7, <3>1, <3>2, <3>3, PlainQuiet
  <2> QED BY <2>1, <2>2, <2>3, <2>6, <2>7
<1>8. CASE PassEnds(f)
  <2> DEFINE new == [fl EXCEPT !.sub.left = @ - 1]
  <2>1. Change(f, new) /\ queue' = Append(queue, Removal(Form(f), {}))
    BY <1>8 DEF PassEnds, Barrier
  <2>2. PICK sub : new = [fl EXCEPT !.sub = sub]
    <3>1. new = [fl EXCEPT !.sub = [fl.sub EXCEPT !.left = @ - 1]]
      BY <1>1 DEF FlowRecord
    <3> QED BY <3>1
  <2>3. Plain(fl, new) BY <1>1, <2>2, PlainSubmission
  <2>4. {} \in SUBSET CreatedBy(fl) OBVIOUS
  <2> HIDE DEF new
  <2> QED BY <1>2, <2>1, <2>3, <2>4, PlainWait
<1>9. ASSUME Change(f, GivesUp(fl)), UNCHANGED queue
      PROVE  RInv'
  <2>1. CASE Stops(fl) BY <1>4, <1>9, <2>1 DEF GivesUp
  <2>2. CASE ~ Stops(fl)
    <3>1. FormOf(fl) \in Forms BY <1>3, <2>2 DEF FormOf, Forms, Stops
    <3> QED BY <1>4, <1>9, <2>2, <3>1 DEF GivesUp
  <2> QED BY <2>1, <2>2
<1>10. CASE WaitTimesOut(f) BY <1>9, <1>10 DEF WaitTimesOut
<1>11. CASE NotReady(f) BY <1>9, <1>11 DEF NotReady, Only
<1> QED BY <1>5, <1>6, <1>7, <1>8, <1>10, <1>11

\* An attempt starts: nothing is left to remove, of what was there before or of
\* the attempt it follows.
LEMMA RowsStart ==
  ASSUME IInv, TInv, RInv, NEW f \in Flows, StartAttempt(f)
  PROVE  RInv'
<1> DEFINE fl == flow[f]
<1>1. /\ fl \in FlowRecord /\ FlowOK(fl, entries, stopping) /\ Tried(fl) /\ Succeeds(fl)
      /\ fl.imported \in Nat /\ FlowR(f, fl, queue) /\ queue \in Seq(Tasks)
      /\ fl.attempts \in Nat
  BY Known
<1>2. Waited(f) /\ fl.sub # None /\ fl.sub.name = "wait" /\ fl.sub.goal # "entry"
  BY DEF StartAttempt, Waited, Handling
<1>3. CASE ~ Ready(fl) \/ Stops(fl)
  <2>1. NotReady(f) BY <1>3 DEF StartAttempt
  <2> QED BY <1>2, <2>1, RowsAnswer
<1>4. CASE Ready(fl) /\ ~ Stops(fl)
  <2> DEFINE settled == Settled(fl)
             ended == Ended(settled, None)
             new == [ended EXCEPT
                       !.attempts = @ + 1, !.task = [at |-> "fetching", error |-> None],
                       !.error = None, !.imported = 0,
                       !.step = IF @ = "gone" THEN @ ELSE "initial_import", !.own = FALSE]
  <2>1. Change(f, new) /\ UNCHANGED <<table, queue, entry, entries>>
    BY <1>4 DEF StartAttempt, Only
  <2>2. fl.step # "gone" /\ WaitsOn(fl) BY <1>2, <1>4 DEF Stops, WaitsOn
  <2>3. Holds(fl) /\ ~ fl.created /\ fl.imported = 0 /\ fl.step \in Forms
    BY <1>2, <2>2, WaitsHolds
  <2>4. Erased(queue) = {}
    <3>1. Behind(queue, Form(f)) BY <1>1, <2>2 DEF FlowR
    <3>2. ~ Waiting(Form(f)) BY <1>2 DEF Waited
    <3> QED BY <1>1, <3>1, <3>2, NoneLeft
  <2>5. /\ settled \in FlowRecord /\ settled.step = fl.step
        /\ settled.existing = IF fl.sub.goal = "first" THEN {s \in Statistics : table[s] # {}}
                              ELSE fl.existing
    <3>1. settled \in FlowRecord /\ settled.step = fl.step BY <1>1, SettledTyped
    <3> QED BY <1>1, <3>1 DEF Settled, FlowRecord
  <2> HIDE DEF settled
  <2>6. ended \in FlowRecord /\ ended.existing = settled.existing /\ ended.step = fl.step
        /\ ended.sub = None
    BY <2>5 DEF Ended, FlowRecord
  <2> HIDE DEF ended
  <2>7. /\ new.imported = 0 /\ new.existing = settled.existing /\ new.sub = None
        /\ new.task.at = "fetching" /\ new.step = "initial_import"
    BY <2>2, <2>6 DEF FlowRecord
  <2> HIDE DEF new
  <2>8. FlowR(f, new, queue)
    BY <2>4, <2>7 DEF FlowR, Succeeds, Shown, WaitsOn
  <2>9. Owns(new) => \/ Owns(fl) /\ new.existing = fl.existing
                     \/ \A s \in CreatedBy(new) : table[s] = {}
    <3>1. CASE fl.sub.goal = "first"
      BY <2>5, <2>7, <3>1 DEF CreatedBy
    <3>2. CASE fl.sub.goal # "first"
      <4>1. fl.sub.goal = "retry"
        BY <1>1, <1>2, <3>2 DEF FlowRecord, Submissions
      <4>2. fl.attempts > 0
        BY <1>1, <1>2, <2>2, <4>1 DEF Tried
      <4> QED BY <2>3, <2>5, <2>7, <3>2, <4>2 DEF Owns
    <3> QED BY <3>1, <3>2
  <2>10. PICK a \in Seq(Tasks) : queue' = queue \o a /\ Erased(a) = {} /\ Imports(a) = {}
    BY <1>1, <2>1, Nothing
  <2>11. entries' = 0 => entry' = None BY <2>1 DEF RInv
  <2>12. queue' = queue /\ ~ (new.imported > 0) BY <2>1, <2>7
  <2> QED BY <2>1, <2>4, <2>8, <2>9, <2>10, <2>11, <2>12, RowsOne
<1> QED BY <1>3, <1>4

\* Attempts, and how they end.
LEMMA RowsAttempt ==
  ASSUME IInv, TInv, RInv, NEW f \in Flows,
         \/ FetchFails(f) \/ QueueImport(f) \/ ImportConfirmed(f) \/ ConfirmAgain(f)
         \/ ImportUnconfirmed(f) \/ AttemptSucceeds(f) \/ RollbackEnds(f)
  PROVE  RInv'
<1> DEFINE fl == flow[f]
<1>1. /\ fl \in FlowRecord /\ FlowOK(fl, entries, stopping) /\ Tried(fl) /\ Succeeds(fl)
      /\ fl.imported \in Nat /\ FlowR(f, fl, queue) /\ queue \in Seq(Tasks)
      /\ fl.attempts \in Nat
  BY Known
<1>2. fl.task # None /\ UNCHANGED <<table, entry, entries>>
  BY DEF FetchFails, QueueImport, ImportConfirmed, ConfirmAgain, ImportUnconfirmed,
         AttemptSucceeds, RollbackEnds, AttemptAt, Only
<1>3. fl.step \in {"initial_import", "gone"} /\ ~ WaitsOn(fl)
  BY <1>1, <1>2 DEF FlowOK, Forms, WaitsOn
<1>4. Running(fl) => /\ Owns(fl) /\ ~ (fl.imported > 0) /\ fl.step = "initial_import"
                     /\ fl.sub = None /\ fl.attempts # 0 /\ Erased(queue) = {} /\ Holds(fl)
  BY <1>1, RunningOwns DEF FlowR, Owns
<1>5. \A error, half : LET back == RolledBack(f, fl, error, half)
                       IN  /\ Plain(fl, back) /\ ~ Running(back)
                           /\ back.step = fl.step /\ back.sub = fl.sub
  BY <1>1, <1>2, PlainRolledBack
<1>6. ASSUME NEW error, NEW half, Running(fl), Change(f, RolledBack(f, fl, error, half)),
             queue' = queue \o RollbackTasks(f, fl)
      PROVE  RInv'
  <2>1. PICK new : new = RolledBack(f, fl, error, half) OBVIOUS
  <2>2. Plain(fl, new) /\ ~ Running(new) /\ new.step = fl.step /\ new.sub = fl.sub
    BY <1>5, <2>1
  <2>3. new.step # "finish" /\ ~ WaitsOn(new)
    BY <1>4, <1>6, <2>2 DEF WaitsOn
  <2> QED BY <1>2, <1>6, <2>1, <2>2, <2>3, PlainRollback
<1>7. CASE FetchFails(f)
  <2>1. Running(fl) /\ queue' = queue \o RollbackTasks(f, fl)
        /\ \E error : Change(f, RolledBack(f, fl, error, FALSE))
    BY <1>7 DEF FetchFails, AttemptAt, Running
  <2> QED BY <1>6, <2>1
<1>8. CASE ImportUnconfirmed(f)
  <2>1. Running(fl) /\ queue' = queue \o RollbackTasks(f, fl)
        /\ Change(f, RolledBack(f, fl, "other", TRUE))
    BY <1>8 DEF ImportUnconfirmed, AttemptAt, Running
  <2> QED BY <1>6, <2>1
<1>9. PICK b \in Seq(Tasks) : /\ b = <<Removal(Task(f), {})>> /\ Erased(b) = {} /\ Imports(b) = {}
                              /\ \A q \in Seq(Tasks) : Append(q, Removal(Task(f), {})) = q \o b
  <2> DEFINE last == <<Removal(Task(f), {})>>
  <2>1. ASSUME NEW q \in Seq(Tasks)
        PROVE  /\ last \in Seq(Tasks) /\ Append(q, Removal(Task(f), {})) = q \o last
               /\ Erased(last) = {} /\ Imports(last) = {}
    <3>1. Task(f) \in Waiters /\ {} \in SUBSET Statistics BY Known
    <3> QED BY <3>1, QueuedLast
  <2>2. last \in Seq(Tasks) /\ Erased(last) = {} /\ Imports(last) = {}
    BY <1>1, <2>1
  <2> QED BY <2>1, <2>2
<1>10. CASE QueueImport(f)
  <2> DEFINE new == [fl EXCEPT !.task.at = "confirming"]
  <2>1. Running(fl) /\ Change(f, new) /\ UNCHANGED <<entry, entries>>
        /\ queue' = queue \o Append(Writes(Attempt(f)), Barrier(Task(f)))
    BY <1>2, <1>10 DEF QueueImport, AttemptAt, Running, Moves
  <2>2. Attempt(f) \in Authors
    BY <1>1, <1>4, <2>1 DEF Attempt, Authors
  <2>3. PICK w \in Seq(Tasks) : w = Writes(Attempt(f)) /\ Erased(w) = {}
                                /\ Imports(w) = {Attempt(f)}
    BY <2>2, Written
  <2>4. PICK a \in Seq(Tasks) : a = w \o b /\ Erased(a) = {} /\ Imports(a) = {Attempt(f)}
    <3>1. /\ w \o b \in Seq(Tasks) /\ Erased(w \o b) = Erased(w) \cup Erased(b)
          /\ Imports(w \o b) = Imports(w) \cup Imports(b)
      BY Joined
    <3>2. Erased(w) \cup Erased(b) = {} /\ Imports(w) \cup Imports(b) = {Attempt(f)}
      BY <1>9, <2>3
    <3> QED BY <3>1, <3>2
  <2>5. queue' = queue \o a
    BY <1>9, <2>1, <2>3, <2>4 DEF Barrier
  <2>6. /\ new.imported = fl.imported /\ new.existing = fl.existing /\ new.sub = fl.sub
        /\ new.task.at = "confirming" /\ new.step = fl.step
    BY <1>1, <1>2 DEF FlowRecord, Attempts
  <2>7. Owns(new) => Owns(fl) BY <1>4, <2>1
  <2> HIDE DEF new
  <2>8. Erased(queue') = {}
    <3>1. Erased(queue \o a) = Erased(queue) \cup Erased(a) BY <1>1, Joined
    <3> QED BY <1>4, <2>1, <2>4, <2>5, <3>1
  <2>9. FlowR(f, new, queue')
    BY <1>4, <2>1, <2>6, <2>8 DEF FlowR, Succeeds, Shown, WaitsOn
  <2>10. entries' = 0 => entry' = None BY <2>1 DEF RInv
  <2> QED BY <1>2, <1>4, <2>1, <2>4, <2>5, <2>6, <2>7, <2>9, <2>10, RowsOne
<1>11. PICK n \in Seq(Tasks) : n = <<>> /\ queue \o n = queue /\ Erased(n) = {} /\ Imports(n) = {}
  BY <1>1, Nothing
<1>12. CASE ImportConfirmed(f)
  <2> DEFINE moved == [fl EXCEPT !.task.at = "visible"]
             new == [moved EXCEPT !.unconfirmed = FALSE]
  <2>1. Running(fl) /\ Change(f, new) /\ queue' = queue \o n /\ ~ Importing(Attempt(f))
    BY <1>2, <1>11, <1>12 DEF ImportConfirmed, AttemptAt, Running, Moves, Only, Saved
  <2>2. moved \in FlowRecord /\ moved.imported = fl.imported /\ moved.existing = fl.existing
        /\ moved.step = fl.step /\ moved.sub = fl.sub /\ moved.attempts = fl.attempts
    BY <1>1, <1>2 DEF FlowRecord, Attempts
  <2> HIDE DEF moved
  <2>3. /\ new.imported = fl.imported /\ new.existing = fl.existing /\ new.sub = fl.sub
        /\ new.step = fl.step /\ new.attempts = fl.attempts
    BY <2>2 DEF FlowRecord
  <2> HIDE DEF new
  <2>4. <<f, fl.attempts>> \notin Imports(queue)
    BY <2>1 DEF Importing, Imports, Attempt
  <2>5. FlowR(f, new, queue')
    BY <1>4, <1>11, <2>1, <2>3, <2>4 DEF FlowR, Succeeds, WaitsOn
  <2>6. Owns(new) => Owns(fl) BY <1>4, <2>1
  <2>7. entries' = 0 => entry' = None BY <1>2 DEF RInv
  <2> QED BY <1>2, <1>4, <1>11, <2>1, <2>3, <2>5, <2>6, <2>7, RowsOne
<1>13. CASE ConfirmAgain(f)
  <2>1. flow' = flow /\ queue' = queue \o b
    BY <1>1, <1>9, <1>13 DEF ConfirmAgain, Barrier
  <2>2. Change(f, fl) BY <2>1 DEF Change, IInv
  <2>3. Plain(fl, fl) BY <1>1 DEF Plain, Succeeds
  <2> QED BY <1>2, <1>3, <1>9, <2>1, <2>2, <2>3, PlainStep
<1>14. CASE AttemptSucceeds(f)
  <2> DEFINE new == [fl EXCEPT !.task = None, !.imported = fl.attempts,
                               !.step = IF @ = "gone" THEN @ ELSE "finish", !.own = FALSE]
  <2>1. Running(fl) /\ Shown(fl) /\ Change(f, new) /\ queue' = queue \o n
    BY <1>2, <1>11, <1>14 DEF AttemptSucceeds, AttemptAt, Running, Shown, Only
  <2>2. /\ new.imported = fl.attempts /\ new.attempts = fl.attempts /\ new.task = None
        /\ new.existing = fl.existing /\ new.step = "finish" /\ new.sub = None
    BY <1>1, <1>4, <2>1 DEF FlowRecord
  <2> HIDE DEF new
  <2>3. FlowR(f, new, queue')
    BY <1>1, <1>4, <1>11, <2>1, <2>2 DEF FlowR, Succeeds, WaitsOn, Shown, Running
  <2>4. Owns(new) => Owns(fl) BY <1>4, <2>1
  <2>5. entries' = 0 => entry' = None BY <1>2 DEF RInv
  <2> QED BY <1>2, <1>4, <1>11, <2>1, <2>2, <2>3, <2>4, <2>5, RowsOne
<1>15. CASE RollbackEnds(f)
  <2>1. Change(f, FailedAttempt(fl, fl.task.error)) /\ UNCHANGED queue
    BY <1>15 DEF RollbackEnds
  <2>2. PICK new : new = FailedAttempt(fl, fl.task.error) OBVIOUS
  <2>3. Plain(fl, new) /\ new.sub = fl.sub /\ (fl.step = "gone" => new.step = "gone")
    BY <1>1, <1>2, <1>3, <2>2, PlainFailed
  <2>4. ~ WaitsOn(new)
    BY <1>1, <1>2, <1>3, <2>3 DEF FlowOK, Forms, WaitsOn
  <2> QED BY <1>2, <2>1, <2>2, <2>3, <2>4, PlainQuiet
<1> QED BY <1>7, <1>8, <1>10, <1>12, <1>13, <1>14, <1>15

\* The entry is created once nothing is left to remove.
LEMMA RowsCreate ==
  ASSUME IInv, TInv, RInv, NEW f \in Flows, NEW fl \in FlowRecord, CreateEntry(f, fl),
         Erased(queue) = {}, flow[f].step # "gone",
         fl.step = flow[f].step, fl.task = flow[f].task, fl.imported = flow[f].imported,
         fl.attempts = flow[f].attempts
  PROVE  RInv'
<1> DEFINE new == [Ended(fl, "entry") EXCEPT !.created = TRUE]
<1>1. /\ Succeeds(flow[f]) /\ FlowR(f, flow[f], queue) /\ queue \in Seq(Tasks)
  BY Known
<1>2. /\ Change(f, new) /\ UNCHANGED <<table, queue>> /\ entries' = entries + 1
  BY DEF CreateEntry
<1>3. entry' \in EntryRecord
  <2>1. fl.unconfirmed \in BOOLEAN BY DEF FlowRecord
  <2> QED BY <2>1 DEF CreateEntry, EntryRecord
<1>4. entry' # None /\ entries' # 0
  BY <1>2, <1>3, SetupAssumption DEF IInv
<1>5. /\ new.imported = fl.imported /\ new.attempts = fl.attempts /\ new.task = fl.task
      /\ new.step = fl.step /\ new.sub = None /\ new.created
  BY DEF Ended, FlowRecord
<1> HIDE DEF new
<1>6. FlowR(f, new, queue)
  BY <1>1, <1>5 DEF FlowR, Succeeds, Shown, Running, WaitsOn
<1>7. PICK n \in Seq(Tasks) : queue' = queue \o n /\ Erased(n) = {} /\ Imports(n) = {}
  BY <1>1, <1>2, Nothing
<1>8. ~ Owns(new) /\ queue' = queue BY <1>2, <1>5 DEF Owns
<1> QED BY <1>2, <1>4, <1>5, <1>6, <1>7, <1>8, RowsOne

LEMMA RowsEnd ==
  ASSUME IInv, TInv, RInv, NEW f \in Flows,
         \/ ShowFailure(f) \/ Finish(f) \/ FinishWithout(f) \/ EntryAdded(f) \/ CloseDialog(f)
  PROVE  RInv'
<1> DEFINE fl == flow[f]
<1>1. /\ fl \in FlowRecord /\ FlowOK(fl, entries, stopping) /\ Tried(fl) /\ Succeeds(fl)
      /\ FlowR(f, fl, queue) /\ queue \in Seq(Tasks)
  BY Known
<1>2. CASE ShowFailure(f)
  <2>1. /\ fl.step = "import_failed" /\ Change(f, Failure(fl))
        /\ UNCHANGED <<table, queue, entry, entries>>
    BY <1>2 DEF ShowFailure, Only
  <2>2. Failure(fl) = AbortFlow(fl) \/ \E step \in Forms : Failure(fl) = ShowForm(fl, step)
    BY DEF Failure, Forms
  <2>3. PICK new : new = Failure(fl) OBVIOUS
  <2>4. Plain(fl, new) /\ ~ WaitsOn(new)
    BY <1>1, <2>1, <2>2, <2>3, PlainForms DEF Forms
  <2> QED BY <2>1, <2>3, <2>4, PlainQuiet
<1>3. CASE Finish(f)
  <2>1. fl.step = "finish" /\ CreateEntry(f, fl) BY <1>3 DEF Finish
  <2>2. Erased(queue) = {} BY <1>1, <2>1 DEF FlowR
  <2> QED BY <1>1, <2>1, <2>2, RowsCreate
<1>4. CASE FinishWithout(f)
  <2>1. fl.sub # None /\ Waited(f) BY <1>4 DEF FinishWithout, Waited, Handling
  <2>2. CASE ~ Ready(fl) \/ Stops(fl)
    BY <1>4, <2>1, <2>2, RowsAnswer DEF FinishWithout
  <2>3. CASE Ready(fl) /\ ~ Stops(fl)
    <3>1. fl.step # "gone" /\ WaitsOn(fl) /\ ~ Waiting(Form(f))
      BY <2>1, <2>3 DEF Stops, WaitsOn, Waited, Handling
    <3>2. Erased(queue) = {} BY <1>1, <3>1, NoneLeft DEF FlowR
    <3>3. PICK settled : settled = Settled(fl) OBVIOUS
    <3>4. /\ settled \in FlowRecord /\ settled.step = fl.step /\ settled.task = fl.task
          /\ settled.attempts = fl.attempts
      BY <1>1, <3>3, SettledTyped
    <3>5. settled.imported = fl.imported
      BY <1>1, <3>3 DEF Settled, FlowRecord
    <3>6. CreateEntry(f, settled) BY <1>4, <2>3, <3>3 DEF FinishWithout
    <3> QED BY <3>1, <3>2, <3>4, <3>5, <3>6, RowsCreate
  <2> QED BY <2>2, <2>3
<1>5. CASE EntryAdded(f)
  <2>1. Change(f, [fl EXCEPT !.step = "gone"]) /\ UNCHANGED <<table, queue, entry, entries>>
    BY <1>5 DEF EntryAdded, Only
  <2>2. PICK new : new = [fl EXCEPT !.step = "gone"] OBVIOUS
  <2>3. Plain(fl, new) /\ ~ WaitsOn(new) BY <1>1, <2>2, PlainGone
  <2> QED BY <2>1, <2>2, <2>3, PlainQuiet
<1>6. CASE CloseDialog(f)
  <2> DEFINE new == [Cancelled(f, fl) EXCEPT !.step = "gone"]
  <2>1. Change(f, new) /\ queue' = queue \o CancelTasks(f, fl)
        /\ UNCHANGED <<table, entry, entries>>
    BY <1>6 DEF CloseDialog
  <2>2. Plain(fl, new) BY <1>1, PlainCancelled
  <2>3. new.step = "gone" /\ ~ Running(new)
    <3>1. Cancelled(f, fl) \in FlowRecord /\ ~ Running(Cancelled(f, fl))
      BY <1>1, CancelledKeeps, PlainCancelled DEF Keeps
    <3> QED BY <3>1 DEF FlowRecord, Running
  <2> HIDE DEF new
  <2>4. CASE Running(fl)
    BY <2>1, <2>2, <2>3, <2>4, PlainRollback DEF CancelTasks, WaitsOn
  <2>5. CASE ~ Running(fl)
    <3>1. queue' = queue BY <1>1, <2>1, <2>5, Nothing DEF CancelTasks
    <3> QED BY <2>1, <2>2, <2>3, <3>1, PlainQuiet DEF WaitsOn
  <2> QED BY <2>4, <2>5
<1> QED BY <1>2, <1>3, <1>4, <1>5, <1>6

\* At most one attempt runs when Home Assistant stops, whose removal is queued.
LEMMA StopQueues ==
  ASSUME IInv, TInv, RInv, Stop
  PROVE  \E a \in Seq(Tasks) :
           /\ queue' = queue \o a /\ Imports(a) = {}
           /\ \/ Erased(a) = {}
              \/ \E f \in Flows : Running(flow[f]) /\ Erased(a) \subseteq CreatedBy(flow[f])
<1> DEFINE S == {CancelTasks(f, flow[f]) : f \in Flows}
<1>1. /\ queue \in Seq(Tasks)
      /\ queue' = queue \o FlattenSeq(SetToSeq(S))
  BY DEF Stop, RInv
<1>2. CASE \E f \in Flows : Running(flow[f])
  <2>1. PICK f \in Flows : Running(flow[f]) BY <1>2
  <2>2. \A g \in Flows : Running(flow[g]) => g = f
    BY <2>1, RunningOwns DEF Owns, IInv
  <2>3. PICK t \in Seq(Tasks) : /\ t = RollbackTasks(f, flow[f]) /\ Imports(t) = {}
                                /\ Erased(t) \subseteq CreatedBy(flow[f])
    BY RolledBackTasks
  <2>4. \A g \in Flows : CancelTasks(g, flow[g]) = IF g = f THEN t ELSE <<>>
    BY <2>1, <2>2, <2>3 DEF CancelTasks
  <2>5. S \in SUBSET {<<>>, t} /\ t \in S
    BY <2>4
  <2>6. FlattenSeq(SetToSeq(S)) = t BY <2>5, FlatPair
  <2> QED BY <1>1, <2>1, <2>3, <2>6
<1>3. CASE \A f \in Flows : ~ Running(flow[f])
  <2>1. <<>> \in Seq(Tasks) /\ Erased(<<>>) = {} /\ Imports(<<>>) = {}
    BY <1>1, Nothing
  <2>2. S \in SUBSET {<<>>, <<>>}
    BY <1>3 DEF CancelTasks
  <2>3. FlattenSeq(SetToSeq(S)) = <<>> BY <2>1, <2>2, FlatPair
  <2> QED BY <1>1, <2>1, <2>3
<1> QED BY <1>2, <1>3

\* The flow whose attempt runs when Home Assistant stops is the only one, and has
\* it removed.
LEMMA RowsStop ==
  ASSUME IInv, TInv, RInv, Stop
  PROVE  RInv'
<1>1. /\ flow' = [f \in Flows |-> Cancelled(f, flow[f])]
      /\ queue' = queue \o FlattenSeq(SetToSeq({CancelTasks(f, flow[f]) : f \in Flows}))
      /\ UNCHANGED <<table, entry, entries>>
  BY DEF Stop
<1>2. queue \in Seq(Tasks) BY DEF RInv
<1>3. ASSUME NEW f \in Flows
      PROVE  /\ Plain(flow[f], flow'[f]) /\ ~ Running(flow'[f])
             /\ WaitsOn(flow'[f]) => WaitsOn(flow[f]) /\ flow[f].task = None
  <2>1. flow'[f] = Cancelled(f, flow[f]) BY <1>1
  <2>2. flow[f] \in FlowRecord /\ FlowOK(flow[f], entries, stopping) /\ Succeeds(flow[f])
    BY Known
  <2>3. PICK old \in FlowRecord : old = flow[f] BY <2>2
  <2>4. PICK new : new = Cancelled(f, old) OBVIOUS
  <2>5. Plain(old, new) /\ ~ Running(new) /\ (WaitsOn(new) => WaitsOn(old) /\ old.task = None)
    BY <2>2, <2>3, <2>4, PlainCancelled
  <2> QED BY <2>1, <2>3, <2>4, <2>5
<1>4. PICK a \in Seq(Tasks) :
        /\ queue' = queue \o a /\ Imports(a) = {}
        /\ \/ Erased(a) = {}
           \/ \E f \in Flows : Running(flow[f]) /\ Erased(a) \subseteq CreatedBy(flow[f])
  BY StopQueues
<1>5. ASSUME Erased(a) # {}
      PROVE  \E f \in Flows : /\ Running(flow[f]) /\ Owns(flow[f]) /\ flow[f].imported = 0
                              /\ flow[f].task # None /\ flow[f].step = "initial_import"
                              /\ Erased(a) \subseteq CreatedBy(flow[f])
  <2>1. PICK f \in Flows : Running(flow[f]) /\ Erased(a) \subseteq CreatedBy(flow[f])
    BY <1>4, <1>5
  <2> QED BY <2>1, RunningOwns
<1>6. ASSUME NEW f \in Flows, WaitsOn(flow'[f]) PROVE Behind(queue', Form(f))
  <2>1. WaitsOn(flow[f]) /\ flow[f].task = None BY <1>3, <1>6
  <2>2. Holds(flow[f]) BY <2>1, WaitsHolds DEF WaitsOn
  <2>3. Erased(a) = {} BY <1>5, <2>1, <2>2 DEF Owns, IInv
  <2>4. FlowR(f, flow[f], queue) BY Known
  <2>5. Behind(queue, Form(f)) BY <2>1, <2>4 DEF FlowR
  <2> QED BY <1>2, <1>4, <2>3, <2>5, Joined
<1>7. ASSUME NEW f \in Flows, Running(flow'[f]) \/ flow'[f].step = "finish"
      PROVE  Erased(a) = {}
  <2>1. flow[f].step = "finish" BY <1>3, <1>7 DEF Plain
  <2>2. FlowOK(flow[f], entries, stopping) BY Known
  <2>3. Holds(flow[f]) BY <2>1, <2>2 DEF FlowOK, Holds, Live
  <2> QED BY <1>5, <2>1, <2>3 DEF Owns, IInv
<1>8. \A s \in Erased(a) : \E f \in Flows : /\ Owns(flow[f]) /\ s \in CreatedBy(flow[f])
                                            /\ flow[f].imported = 0
  BY <1>5
<1> QED BY <1>1, <1>3, <1>4, <1>6, <1>7, <1>8, PlainSteps

\* A restart, which begins with nothing queued.
LEMMA RowsRestart ==
  ASSUME IInv, TInv, RInv, Restart
  PROVE  RInv'
<1>1. UNCHANGED <<table, queue, entries>> /\ queue \in Seq(Tasks)
  BY DEF Restart, RInv
<1>2. ASSUME NEW f \in Flows
      PROVE  Plain(flow[f], flow'[f]) /\ ~ WaitsOn(flow'[f])
  <2> DEFINE lost == [flow[f] EXCEPT !.step = "gone", !.sub = None, !.task = None,
                                     !.repeats = 0]
  <2>1. flow[f] \in FlowRecord /\ FlowOK(flow[f], entries, stopping) /\ Succeeds(flow[f])
    BY Known
  <2>2. flow'[f] = IF flow[f].step = "none" THEN flow[f] ELSE lost
    BY DEF Restart
  <2>3. CASE flow[f].step = "none"
    BY <2>1, <2>2, <2>3 DEF Plain, Succeeds, WaitsOn, FlowOK
  <2>4. CASE flow[f].step # "none"
    <3>1. /\ lost.imported = flow[f].imported /\ lost.attempts = flow[f].attempts
          /\ lost.task = None /\ lost.existing = flow[f].existing
          /\ lost.step = "gone" /\ lost.sub = None
      BY <2>1 DEF FlowRecord
    <3> HIDE DEF lost
    <3>2. Plain(flow[f], lost) /\ ~ WaitsOn(lost)
      BY <3>1 DEF Plain, Running, Shown, Holds, Live, WaitsOn
    <3> QED BY <2>2, <2>4, <3>2
  <2> QED BY <2>3, <2>4
<1>3. PICK n \in Seq(Tasks) : queue' = queue \o n /\ Erased(n) = {} /\ Imports(n) = {}
  BY <1>1, Nothing
<1>4. entry' = None <=> entry = None
  <2>1. entry # None => entry' \in EntryRecord
    BY DEF Restart, IInv, EntryRecord
  <2>2. entry = None => entry' = None BY DEF Restart
  <2> QED BY <2>1, <2>2, SetupAssumption
<1> QED BY <1>1, <1>2, <1>3, <1>4, PlainSteps

\* The entry's first update queues no removal, and no import of an attempt.
LEMMA UpdateQueues ==
  ASSUME IInv, TInv, RInv,
         UpdateBegins \/ UpdateWaits \/ UpdateGivesUp \/ UpdateReads \/ UpdateImports
  PROVE  \E a \in Seq(Tasks) :
           /\ queue' = queue \o a /\ Erased(a) = {}
           /\ \A f \in Flows, k \in Nat \ {0} : <<f, k>> \notin Imports(a)
<1>1. queue \in Seq(Tasks) BY DEF RInv
<1>2. PICK b \in Seq(Tasks) : /\ queue \o b = Append(queue, Barrier(Update))
                              /\ Erased(b) = {} /\ Imports(b) = {}
  <2> DEFINE last == <<Removal(Update, {})>>
  <2>1. Update \in Waiters /\ {} \in SUBSET Statistics BY DEF Waiters
  <2>2. /\ last \in Seq(Tasks) /\ Append(queue, Removal(Update, {})) = queue \o last
        /\ Erased(last) = {} /\ Imports(last) = {}
    BY <1>1, <2>1, QueuedLast
  <2> QED BY <2>2 DEF Barrier
<1>3. PICK n \in Seq(Tasks) : queue \o n = queue /\ Erased(n) = {} /\ Imports(n) = {}
  BY <1>1, Nothing
<1>4. PICK w \in Seq(Tasks) : w = Writes(Entry) /\ Erased(w) = {} /\ Imports(w) = {Entry}
  BY Written DEF Authors
<1>5. PICK a \in {b, n, w} : queue' = queue \o a
  BY <1>2, <1>3, <1>4
     DEF UpdateBegins, UpdateWaits, UpdateGivesUp, UpdateReads, UpdateImports
<1>6. /\ a \in Seq(Tasks) /\ Erased(a) = {}
      /\ \A f \in Flows, k \in Nat \ {0} : <<f, k>> \notin Imports(a)
  BY <1>2, <1>3, <1>4, <1>5 DEF Entry
<1> QED BY <1>5, <1>6

\* The entry's first update.
LEMMA RowsUpdate ==
  ASSUME IInv, TInv, RInv,
         UpdateBegins \/ UpdateWaits \/ UpdateGivesUp \/ UpdateReads \/ UpdateImports
  PROVE  RInv'
<1>1. UNCHANGED <<table, flow, entries>> /\ entry # None /\ queue \in Seq(Tasks)
  BY DEF UpdateBegins, UpdateWaits, UpdateGivesUp, UpdateReads, UpdateImports, EntryAt, RInv
<1>2. entry' # None
  <2>1. entry \in EntryRecord /\ Passes - 1 \in Nat BY <1>1, SetupAssumption DEF IInv
  <2>2. CASE UpdateBegins BY <2>1, <2>2, SetupAssumption DEF UpdateBegins, EntryRecord
  <2>3. CASE UpdateWaits
    <3>1. entry.left - 1 \in Nat BY <2>1, <2>3 DEF UpdateWaits, EntryRecord
    <3> QED BY <2>1, <2>3, <3>1, SetupAssumption DEF UpdateWaits, EntryRecord
  <2>4. CASE UpdateGivesUp BY <2>1, <2>4, SetupAssumption DEF UpdateGivesUp, EntryRecord
  <2>5. CASE UpdateReads BY <2>1, <2>5, SetupAssumption DEF UpdateReads, EntryRecord
  <2>6. CASE UpdateImports BY <2>1, <2>6, SetupAssumption DEF UpdateImports, EntryRecord
  <2> QED BY <2>2, <2>3, <2>4, <2>5, <2>6
<1>3. Erased(queue) = {} BY <1>1 DEF RInv
<1>4. PICK a \in Seq(Tasks) :
        /\ queue' = queue \o a /\ Erased(a) = {}
        /\ \A f \in Flows, k \in Nat \ {0} : <<f, k>> \notin Imports(a)
  BY UpdateQueues
<1>5. Erased(queue') = {}
  <2>1. Erased(queue \o a) = Erased(queue) \cup Erased(a) BY <1>1, <1>4, Joined
  <2> QED BY <1>3, <1>4, <2>1
<1>6. ASSUME NEW f \in Flows PROVE FlowR(f, flow'[f], queue')
  <2>1. FlowR(f, flow[f], queue) /\ flow[f].attempts \in Nat /\ Tried(flow[f])
        /\ flow[f].imported \in Nat
    BY Known
  <2>2. flow[f].imported > 0 \/ Shown(flow[f]) => flow[f].attempts # 0
    BY <2>1 DEF FlowR, Succeeds, Shown, Tried
  <2>3. CASE flow[f].attempts # 0
    BY <1>1, <1>4, <2>1, <2>3, FlowStays
  <2>4. CASE flow[f].attempts = 0
    <3>1. \A by : Behind(queue, by) => Behind(queue \o a, by) BY <1>1, <1>4, Joined
    <3> QED BY <1>1, <1>4, <1>5, <2>1, <2>2, <2>4, <3>1 DEF FlowR
  <2> QED BY <2>3, <2>4
<1>7. \A f \in Flows : Owns(flow'[f]) => Owns(flow[f]) /\ flow'[f].existing = flow[f].existing
  BY <1>1
<1>8. entries' = 0 => entry' = None BY <1>1 DEF RInv
<1>9. \A f \in Flows : flow'[f].imported = flow[f].imported BY <1>1
<1>10. table' = table /\ \A s \in Erased(a) : FALSE BY <1>1, <1>4
<1> QED BY <1>2, <1>4, <1>5, <1>6, <1>7, <1>8, <1>9, <1>10, RowsStep

\* The recorder: what it removes is of no success, and what it writes is queued.
LEMMA RecorderWrites ==
  ASSUME RInv, RecorderRuns
  PROVE  /\ UNCHANGED <<flow, entry, entries>> /\ DOMAIN table' = Statistics
         /\ queue' \in Seq(Tasks) /\ Erased(queue') \subseteq Erased(queue)
         /\ Imports(queue') \subseteq Imports(queue)
         /\ \A by : Behind(queue, by) => Behind(queue', by)
         /\ \A s \in Statistics : table'[s] \subseteq table[s] \cup Imports(queue)
         /\ \A s \in Statistics : s \notin Erased(queue) => table[s] \subseteq table'[s]
<1> DEFINE task == Head(queue)
<1>1. /\ queue \in Seq(Tasks) /\ queue # <<>> /\ UNCHANGED <<flow, entry, entries>>
      /\ DOMAIN table = Statistics
  BY DEF RInv, RecorderRuns
<1>2. task \in Tasks /\ 1 \in DOMAIN queue /\ task = queue[1]
  <2>1. Len(queue) \in Nat \ {0} /\ DOMAIN queue = 1 .. Len(queue)
        /\ task \in Tasks /\ task = queue[1]
    BY <1>1, HeadTailProperties, EmptySeq
  <2> QED BY <2>1
<1>3. /\ task.kind = "import" => task.by \in Imports(queue)
      /\ task.kind # "import" => task.statistics \cap Statistics \subseteq Erased(queue)
  BY <1>2 DEF Tasks, Imports, Erased
<1>4. \/ queue' = Tail(queue)
      \/ task.kind = "import" /\ queue' = Append(Tail(queue), task)
  BY DEF RecorderRuns
<1>5. \/ table' = table
      \/ table' = [s \in Statistics |->
                     CASE s \notin task.statistics -> table[s]
                       [] task.kind = "import" -> table[s] \cup {task.by}
                       [] OTHER -> {}]
  BY DEF RecorderRuns
<1>6. /\ queue' \in Seq(Tasks) /\ Erased(queue') \subseteq Erased(queue)
      /\ Imports(queue') \subseteq Imports(queue)
      /\ \A by : Behind(queue, by) => Behind(queue', by)
  BY <1>1, <1>4, Shorter
<1> HIDE DEF task
<1>7. ASSUME NEW s \in Statistics
      PROVE  \/ table'[s] = table[s]
             \/ task.kind = "import" /\ table'[s] = table[s] \cup {task.by}
             \/ task.kind # "import" /\ s \in task.statistics /\ table'[s] = {}
  BY <1>5
<1>8. DOMAIN table' = Statistics BY <1>1, <1>5
<1>9. \A s \in Statistics : table'[s] \subseteq table[s] \cup Imports(queue)
  BY <1>3, <1>7
<1>10. \A s \in Statistics : s \notin Erased(queue) => table[s] \subseteq table'[s]
  BY <1>3, <1>7
<1> QED BY <1>1, <1>6, <1>8, <1>9, <1>10

LEMMA RowsRecorder ==
  ASSUME IInv, TInv, RInv, RecorderRuns
  PROVE  RInv'
<1>1. /\ UNCHANGED <<flow, entry, entries>> /\ DOMAIN table' = Statistics
      /\ queue' \in Seq(Tasks) /\ Erased(queue') \subseteq Erased(queue)
      /\ Imports(queue') \subseteq Imports(queue)
      /\ \A by : Behind(queue, by) => Behind(queue', by)
      /\ \A s \in Statistics : table'[s] \subseteq table[s] \cup Imports(queue)
  BY RecorderWrites
<1>2. ASSUME NEW f \in Flows PROVE FlowR(f, flow[f], queue')
  <2>1. FlowR(f, flow[f], queue) BY DEF RInv
  <2> QED BY <1>1, <2>1 DEF FlowR
<1>3. History \notin Imports(queue)
  BY DEF Imports, Authors, History, Entry
<1>4. ASSUME NEW f \in Flows, flow[f].imported > 0
      PROVE  <<f, flow[f].imported>> \notin Imports(queue)
  BY <1>4 DEF RInv, FlowR, Succeeds
<1>5. ASSUME NEW s \in Erased(queue')
      PROVE  /\ History \notin table'[s]
             /\ \A f \in Flows : flow[f].imported > 0 => <<f, flow[f].imported>> \notin table'[s]
  <2>1. s \in Erased(queue) /\ s \in Statistics BY <1>1, <1>5 DEF Erased
  <2>2. /\ History \notin table[s]
        /\ \A f \in Flows : flow[f].imported > 0 => <<f, flow[f].imported>> \notin table[s]
    BY <2>1 DEF RInv
  <2>3. table'[s] \subseteq table[s] \cup Imports(queue) BY <1>1, <2>1
  <2> QED BY <1>3, <1>4, <2>2, <2>3
<1>6. entry = None => Entry \notin Imports(queue') /\ \A s \in Statistics : Entry \notin table'[s]
  <2> SUFFICES ASSUME entry = None
               PROVE  Entry \notin Imports(queue') /\ \A s \in Statistics : Entry \notin table'[s]
    OBVIOUS
  <2>1. Entry \notin Imports(queue) /\ \A s \in Statistics : Entry \notin table[s]
    BY DEF RInv
  <2> QED BY <1>1, <2>1
<1>7. ASSUME NEW f \in Flows, Owns(flow[f]), NEW s \in CreatedBy(flow[f])
      PROVE  /\ History \notin table'[s]
             /\ \A g \in Flows \ {f} :
                  flow[g].imported > 0 => <<g, flow[g].imported>> \notin table'[s]
  <2>1. ~ ByOthers(f, s) BY <1>7 DEF RInv
  <2>2. s \in Statistics BY <1>7 DEF CreatedBy
  <2>3. table'[s] \subseteq table[s] \cup Imports(queue) BY <1>1, <2>2
  <2> QED BY <1>3, <1>4, <2>1, <2>3 DEF ByOthers
<1>8. entry # None => Erased(queue') = {} BY <1>1 DEF RInv
<1>9. entries = 0 => entry = None BY DEF RInv
<1>10. \A f \in Flows : FlowR(f, flow[f], queue)' <=> FlowR(f, flow[f], queue')
  BY <1>1 DEF FlowR, Succeeds, Shown, Running, WaitsOn, Form
<1>11. \A f \in Flows : (Owns(flow[f])' <=> Owns(flow[f]))
                        /\ CreatedBy(flow[f])' = CreatedBy(flow[f])
  BY <1>1 DEF Owns, Holds, Live, CreatedBy
<1>12. \A f \in Flows : Owns(flow[f])' => \A s \in CreatedBy(flow[f])' : ~ ByOthers(f, s)'
  BY <1>1, <1>7, <1>11 DEF ByOthers
<1> QED BY <1>1, <1>2, <1>5, <1>6, <1>8, <1>9, <1>10, <1>12 DEF RInv, Erased, Imports

LEMMA RowsStutter ==
  ASSUME IInv, RInv, UNCHANGED <<table, queue, flow, entry, entries>>
  PROVE  RInv'
BY DEF RInv, FlowR, Succeeds, Shown, Running, WaitsOn, Form, Owns, Holds, Live,
       CreatedBy, ByOthers, Erased, Imports, Behind

LEMMA RowsSteps == IInv /\ TInv /\ RInv /\ [Next]_vars => RInv'
<1> SUFFICES ASSUME IInv, TInv, RInv, [Next]_vars PROVE RInv' OBVIOUS
<1>1. CASE UNCHANGED vars BY <1>1, RowsStutter DEF vars
<1>2. CASE Stop BY <1>2, RowsStop
<1>3. CASE Restart BY <1>3, RowsRestart
<1>4. CASE RecorderRuns BY <1>4, RowsRecorder
<1>5. CASE UpdateBegins \/ UpdateWaits \/ UpdateGivesUp \/ UpdateReads \/ UpdateImports
  BY <1>5, RowsUpdate
<1>6. CASE \E f \in Flows : Step(f)
  <2> SUFFICES ASSUME NEW f \in Flows, Step(f) PROVE RInv' BY <1>6
  <2>1. CASE SubmitEmail(f) BY <2>1, RowsEmail
  <2>2. CASE StartAttempt(f) BY <2>2, RowsStart
  <2>3. CASE \/ OpenDialog(f) \/ SubmitCode(f) \/ SubmitAccounts(f) \/ SubmitDiscovery(f)
             \/ SubmitFailed(f) \/ SubmitLast(f) \/ SubmitAgain(f) \/ AnswerRepeat(f)
    BY <2>3, RowsSubmission
  <2>4. CASE \/ CodeSent(f) \/ CodeChecked(f) \/ AccountsFound(f) \/ PassEnds(f)
             \/ WaitTimesOut(f)
    BY <2>4, RowsAnswer
  <2>5. CASE \/ FetchFails(f) \/ QueueImport(f) \/ ImportConfirmed(f) \/ ConfirmAgain(f)
             \/ ImportUnconfirmed(f) \/ AttemptSucceeds(f) \/ RollbackEnds(f)
    BY <2>5, RowsAttempt
  <2>6. CASE \/ ShowFailure(f) \/ Finish(f) \/ FinishWithout(f) \/ EntryAdded(f)
             \/ CloseDialog(f)
    BY <2>6, RowsEnd
  <2> QED BY <2>1, <2>2, <2>3, <2>4, <2>5, <2>6 DEF Step
<1> QED BY <1>1, <1>2, <1>3, <1>4, <1>5, <1>6 DEF Next

LEMMA RowsFirst == Init => RInv
<1> SUFFICES ASSUME Init PROVE RInv OBVIOUS
<1>1. /\ queue = <<>> /\ entry = None /\ entries = 0
      /\ \A f \in Flows : flow[f] = NewFlow
  BY DEF Init
<1>2. queue \in Seq(Tasks) /\ Erased(queue) = {} /\ Imports(queue) = {}
  <2>1. <<>> \in Seq(Tasks) OBVIOUS
  <2> QED BY <1>1, <2>1, Nothing
<1>3. /\ ~ (NewFlow.imported > 0) /\ ~ (NewFlow.attempts > 0) /\ NewFlow.task = None
      /\ NewFlow.sub = None /\ NewFlow.step = "none"
  BY DEF NewFlow
<1>4. \A f \in Flows : FlowR(f, flow[f], queue) /\ ~ Owns(flow[f])
  BY <1>1, <1>2, <1>3 DEF FlowR, Succeeds, Running, Shown, WaitsOn, Owns, Holds, Live
<1>5. DOMAIN table = Statistics /\ \A s \in Statistics : table[s] \subseteq {History}
  BY DEF Init
<1>6. Entry # History BY DEF Entry, History
<1> QED BY <1>1, <1>2, <1>4, <1>5, <1>6 DEF RInv

-------------------------------------------------------------------------------
(***************************************************************************)
(* The bounds: each fault uses up one of what its trial grants.            *)
(***************************************************************************)
LEMMA SpareFirst == Init => spare \in [Faults -> Nat]
BY SetupAssumption DEF Init

\* What a fault uses is never given back.
Less == spare' \in [Faults -> Nat] /\ \A fault \in Faults : spare'[fault] <= spare[fault]

LEMMA Used ==
  ASSUME spare \in [Faults -> Nat], NEW fault \in Faults, Use(fault)
  PROVE  Less
<1>1. spare[fault] - 1 \in Nat BY DEF Use
<1>2. spare' = [spare EXCEPT ![fault] = spare[fault] - 1] BY DEF Use
<1>3. \A other \in Faults : spare'[other] = IF other = fault THEN spare[fault] - 1 ELSE spare[other]
  BY <1>2
<1>4. \A other \in Faults : spare'[other] <= spare[other]
  BY <1>1, <1>3
<1> QED BY <1>1, <1>2, <1>4 DEF Less

LEMMA SpareSteps == spare \in [Faults -> Nat] /\ [Next]_vars => Less
<1> SUFFICES ASSUME spare \in [Faults -> Nat], [Next]_vars PROVE Less
  OBVIOUS
<1>1. CASE UNCHANGED spare BY <1>1 DEF Less
<1>2. CASE \E fault \in Faults : Use(fault) BY <1>2, Used
<1>3. CASE UNCHANGED vars BY <1>1, <1>3 DEF vars
<1>4. CASE Next
  <2>1. CASE \/ RecorderRuns \/ UpdateBegins \/ UpdateWaits \/ UpdateGivesUp \/ UpdateReads
             \/ UpdateImports \/ Stop \/ Restart
    BY <1>1, <1>2, <2>1
       DEF RecorderRuns, UpdateBegins, UpdateWaits, UpdateGivesUp, UpdateReads,
           UpdateImports, Stop, Restart, Faults
  <2>2. CASE \E f \in Flows : Step(f)
    <3> SUFFICES ASSUME NEW f \in Flows, Step(f) PROVE Less
      BY <2>2
    <3>1. CASE \/ SubmitAgain(f) \/ WaitTimesOut(f) \/ ImportUnconfirmed(f)
               \/ RollbackEnds(f) \/ CloseDialog(f)
      BY <1>1, <1>2, <3>1
         DEF SubmitAgain, WaitTimesOut, ImportUnconfirmed, RollbackEnds, CloseDialog, Faults
    <3>2. CASE \/ OpenDialog(f) \/ SubmitEmail(f) \/ SubmitCode(f) \/ SubmitAccounts(f)
               \/ SubmitDiscovery(f) \/ SubmitFailed(f) \/ SubmitLast(f) \/ AnswerRepeat(f)
      BY <1>1, <3>2
         DEF OpenDialog, SubmitEmail, SubmitCode, SubmitAccounts, SubmitDiscovery,
             SubmitFailed, SubmitLast, AnswerRepeat, Only
    <3>3. CASE \/ CodeSent(f) \/ CodeChecked(f) \/ AccountsFound(f) \/ PassEnds(f)
               \/ FetchFails(f) \/ QueueImport(f) \/ ImportConfirmed(f) \/ ConfirmAgain(f)
               \/ AttemptSucceeds(f) \/ ShowFailure(f) \/ EntryAdded(f)
      BY <1>1, <3>3
         DEF CodeSent, CodeChecked, AccountsFound, PassEnds, FetchFails, QueueImport,
             ImportConfirmed, ConfirmAgain, AttemptSucceeds, ShowFailure, EntryAdded, Only
    <3>4. CASE StartAttempt(f) \/ Finish(f) \/ FinishWithout(f)
      BY <1>1, <3>4 DEF StartAttempt, Finish, FinishWithout, NotReady, CreateEntry, Only
    <3> QED BY <3>1, <3>2, <3>3, <3>4 DEF Step
  <2> QED BY <1>4, <2>1, <2>2 DEF Next
<1> QED BY <1>3, <1>4

-------------------------------------------------------------------------------
\* Whatever dialogs, attempts and faults there are, no flow makes more attempts
\* than SETUP_IMPORT_MAX_ATTEMPTS, each flow, entry and task keeps to its values,
\* and no bound is used beyond what it grants (async_step_import_failed).
THEOREM TypeCorrect == Spec => []TypeOK
<1> DEFINE All == IInv /\ TInv /\ RInv /\ spare \in [Faults -> Nat]
<1>1. Init => All BY InitHolds, TriedFirst, RowsFirst, SpareFirst
<1>2. All /\ [Next]_vars => All'
  BY StepHolds, TriedSteps, RowsSteps, SpareSteps DEF Less
<1>3. All => TypeOK
  <2> SUFFICES ASSUME All PROVE TypeOK OBVIOUS
  <2>1. \A k \in DOMAIN queue : /\ queue[k].kind \in {"import", "removal"}
                                /\ queue[k].statistics \subseteq Statistics
    <3> SUFFICES ASSUME NEW k \in DOMAIN queue
                 PROVE  /\ queue[k].kind \in {"import", "removal"}
                        /\ queue[k].statistics \subseteq Statistics
      OBVIOUS
    <3>1. queue[k] \in Tasks BY DEF RInv
    <3> QED BY <3>1 DEF Tasks
  <2>2. \A f \in Flows : flow[f].attempts <= MaxAttempts BY DEF TInv, Tried
  <2>3. entries \in Nat BY DEF IInv
  <2> QED BY <2>1, <2>2, <2>3 DEF TypeOK, IInv, RInv
<1> QED BY <1>1, <1>2, <1>3, PTL DEF Spec

\* A removal never takes what was stored before every flow, what an import that
\* succeeded wrote, or what the entry wrote, however dialogs, attempts, stops
\* and a late recorder fall together (_flow_created_statistic_ids,
\* _async_roll_back_import).
THEOREM RowsKept == Spec => RowsAreKept
<1> DEFINE All == IInv /\ TInv /\ RInv
<1>1. Init => All BY InitHolds, TriedFirst, RowsFirst
<1>2. All /\ [Next]_vars => All' BY StepHolds, TriedSteps, RowsSteps
<1>3. All /\ [Next]_vars =>
        [\A s \in Statistics :
           (table[s] \ table'[s]) \cap ({History, Entry} \cup Succeeded) = {}]_vars
  <2> SUFFICES ASSUME IInv, TInv, RInv, Next, NEW s \in Statistics,
                      NEW by \in table[s] \ table'[s], by \in {History, Entry} \cup Succeeded
               PROVE  FALSE
    OBVIOUS
  <2>1. CASE RecorderRuns
    <3>1. s \in Erased(queue) BY <2>1, RecorderWrites
    <3>2. /\ History \notin table[s]
          /\ \A f \in Flows : flow[f].imported > 0 => <<f, flow[f].imported>> \notin table[s]
      BY <3>1 DEF RInv
    <3>3. Entry \notin table[s]
      <4>1. entry = None BY <3>1 DEF RInv
      <4> QED BY <4>1 DEF RInv
    <3>4. by \notin Succeeded BY <3>2 DEF Succeeded
    <3> QED BY <3>2, <3>3, <3>4
  <2>2. CASE ~ RecorderRuns
    <3>1. table' = table
      <4>1. CASE \/ UpdateBegins \/ UpdateWaits \/ UpdateGivesUp \/ UpdateReads
                 \/ UpdateImports \/ Stop \/ Restart
        BY <4>1 DEF UpdateBegins, UpdateWaits, UpdateGivesUp, UpdateReads, UpdateImports,
                    Stop, Restart
      <4>2. CASE \E f \in Flows : Step(f)
        BY <4>2 DEF Step, OpenDialog, SubmitEmail, SubmitCode, SubmitAccounts,
             SubmitDiscovery, SubmitFailed, SubmitLast, SubmitAgain, AnswerRepeat, CodeSent,
             CodeChecked, AccountsFound, PassEnds, WaitTimesOut, StartAttempt, FetchFails,
             QueueImport, ImportConfirmed, ConfirmAgain, ImportUnconfirmed, AttemptSucceeds,
             RollbackEnds, ShowFailure, Finish, FinishWithout, EntryAdded, CloseDialog,
             NotReady, CreateEntry, Only
      <4> QED BY <2>2, <4>1, <4>2 DEF Next
    <3> QED BY <3>1
  <2> QED BY <2>1, <2>2
<1> QED BY <1>1, <1>2, <1>3, PTL DEF Spec, RowsAreKept
-------------------------------------------------------------------------------
(***************************************************************************)
(* What is half saved.  Only the import of an attempt can leave an hour in *)
(* one statistic of the two; the flow then knows, or the import went on to *)
(* be confirmed, or nothing of the flow is left to create an entry.        *)
(***************************************************************************)
Sent(fl) == fl.task # None /\ fl.task.at \in {"confirming", "visible"}

\* A flow that keeps a statistic it did not create, and knows of nothing left.
Quiet(fl) ==
  /\ fl.step # "gone" /\ CreatedBy(fl) # Statistics /\ ~ fl.unconfirmed
  /\ ~ (fl.imported > 0) /\ ~ Sent(fl)

Absent(f, q, t) ==
  \A k \in Nat \ {0} : <<f, k>> \notin Imports(q) /\ \A s \in Statistics : <<f, k>> \notin t[s]

Calm(fl, stopped) == fl.attempts = 0 \/ (Quiet(fl) /\ ~ stopped)
Wrote(fl) == Shown(fl) \/ fl.step = "finish"

LeftOK(f, fl, q, t, stopped) ==
  /\ Calm(fl, stopped) => Absent(f, q, t)
  /\ Wrote(fl) => \A s \in Statistics : <<f, fl.attempts>> \in t[s]

HInv == \A f \in Flows : LeftOK(f, flow[f], queue, table, stopping)

\* Every step but the recorder's.
LEMMA HalfStep ==
  ASSUME HInv, table' = table,
         \A f \in Flows : Calm(flow'[f], stopping') =>
           /\ Calm(flow[f], stopping)
           /\ \A k \in Nat \ {0} : <<f, k>> \in Imports(queue') => <<f, k>> \in Imports(queue),
         \A f \in Flows : Wrote(flow'[f]) =>
           \/ Wrote(flow[f]) /\ flow'[f].attempts = flow[f].attempts
           \/ \A s \in Statistics : <<f, flow'[f].attempts>> \in table[s]
  PROVE  HInv'
<1>1. ASSUME NEW f \in Flows PROVE LeftOK(f, flow'[f], queue', table', stopping')
  <2>1. LeftOK(f, flow[f], queue, table, stopping) BY DEF HInv
  <2>2. Calm(flow'[f], stopping') => Absent(f, queue', table')
    BY <2>1 DEF LeftOK, Absent
  <2>3. Wrote(flow'[f]) => \A s \in Statistics : <<f, flow'[f].attempts>> \in table'[s]
    BY <2>1 DEF LeftOK
  <2> QED BY <2>2, <2>3 DEF LeftOK
<1>2. \A f \in Flows : LeftOK(f, flow[f], queue, table, stopping)'
                       <=> LeftOK(f, flow'[f], queue', table', stopping')
  BY DEF LeftOK, Calm, Wrote, Quiet, Sent, Shown, CreatedBy, Absent, Imports
<1> QED BY <1>1, <1>2 DEF HInv

\* One flow changes.
LEMMA HalfOne ==
  ASSUME IInv, HInv, NEW f \in Flows, NEW fl, Change(f, fl), UNCHANGED <<table, stopping>>,
         \A g \in Flows \ {f}, k \in Nat \ {0} :
           <<g, k>> \in Imports(queue') => <<g, k>> \in Imports(queue),
         Calm(fl, stopping) => Calm(flow[f], stopping) /\ Imports(queue') = Imports(queue),
         Wrote(fl) => \/ Wrote(flow[f]) /\ fl.attempts = flow[f].attempts
                      \/ \A s \in Statistics : <<f, fl.attempts>> \in table[s]
  PROVE  HInv'
<1>1. \A g \in Flows : flow'[g] = IF g = f THEN fl ELSE flow[g]
  BY DEF Change, IInv
<1>2. ASSUME NEW g \in Flows, Calm(flow'[g], stopping')
      PROVE  /\ Calm(flow[g], stopping)
             /\ \A k \in Nat \ {0} : <<g, k>> \in Imports(queue') => <<g, k>> \in Imports(queue)
  <2>1. CASE g = f BY <1>1, <1>2, <2>1
  <2>2. CASE g # f BY <1>1, <1>2, <2>2
  <2> QED BY <2>1, <2>2
<1>3. \A g \in Flows : Wrote(flow'[g]) =>
        \/ Wrote(flow[g]) /\ flow'[g].attempts = flow[g].attempts
        \/ \A s \in Statistics : <<g, flow'[g].attempts>> \in table[s]
  BY <1>1
<1> QED BY <1>2, <1>3, HalfStep

\* A flow whose attempts stay as they are.
Alike(old, fl) ==
  /\ fl.attempts = old.attempts /\ fl.existing = old.existing
  /\ fl.unconfirmed = old.unconfirmed /\ fl.imported = old.imported /\ fl.task = old.task
  /\ \/ fl.step \in {old.step, "gone"}
     \/ old.step # "gone" /\ fl.step # "finish"

LEMMA AlikeStays ==
  ASSUME NEW old, NEW fl, NEW stopped, Alike(old, fl)
  PROVE  (Calm(fl, stopped) => Calm(old, stopped)) /\ (Wrote(fl) => Wrote(old))
BY DEF Alike, Calm, Wrote, Quiet, Sent, Shown, CreatedBy

LEMMA HalfAlike ==
  ASSUME IInv, HInv, NEW f \in Flows, NEW fl, Change(f, fl), Alike(flow[f], fl),
         UNCHANGED <<table, stopping>>, Imports(queue') = Imports(queue)
  PROVE  HInv'
<1>1. (Calm(fl, stopping) => Calm(flow[f], stopping)) /\ (Wrote(fl) => Wrote(flow[f]))
      /\ fl.attempts = flow[f].attempts
  BY AlikeStays DEF Alike
<1> QED BY <1>1, HalfOne

LEMMA Alikes ==
  ASSUME NEW fl \in FlowRecord, NEW step \in Forms, NEW sub, NEW repeats, NEW accounts
  PROVE  /\ Alike(fl, fl) /\ Alike(fl, AbortFlow(fl)) /\ Alike(fl, ShowForm(fl, step))
         /\ Alike(fl, [fl EXCEPT !.step = "gone"]) /\ Alike(fl, [fl EXCEPT !.sub = sub])
         /\ Alike(fl, [fl EXCEPT !.repeats = repeats])
         /\ Alike(fl, [fl EXCEPT !.accounts = accounts])
<1>1. Alike(fl, fl) BY DEF Alike
<1>2. Alike(fl, AbortFlow(fl)) BY DEF Alike, AbortFlow, Ended, FlowRecord
<1>3. Alike(fl, ShowForm(fl, step))
  <2> DEFINE new == ShowForm(fl, step)
  <2>1. /\ new.attempts = fl.attempts /\ new.existing = fl.existing
        /\ new.unconfirmed = fl.unconfirmed /\ new.imported = fl.imported
        /\ new.task = fl.task /\ new.step = (IF fl.step = "gone" THEN "gone" ELSE step)
    BY DEF ShowForm, Ended, FlowRecord
  <2> HIDE DEF new
  <2> QED BY <2>1 DEF Alike, Forms, new
<1>4. /\ Alike(fl, [fl EXCEPT !.step = "gone"]) /\ Alike(fl, [fl EXCEPT !.sub = sub])
      /\ Alike(fl, [fl EXCEPT !.repeats = repeats])
      /\ Alike(fl, [fl EXCEPT !.accounts = accounts])
  BY DEF Alike, FlowRecord
<1> QED BY <1>1, <1>2, <1>3, <1>4

\* What is queued without an import.
LEMMA Appended ==
  ASSUME RInv, NEW by \in Waiters, NEW statistics \in SUBSET Statistics
  PROVE  Imports(Append(queue, Removal(by, statistics))) = Imports(queue)
<1> DEFINE last == <<Removal(by, statistics)>>
<1>1. queue \in Seq(Tasks) BY DEF RInv
<1>2. /\ last \in Seq(Tasks) /\ Append(queue, Removal(by, statistics)) = queue \o last
      /\ Imports(last) = {}
  BY <1>1, QueuedLast
<1>3. Imports(queue \o last) = Imports(queue) \cup Imports(last) BY <1>1, <1>2, Joined
<1> QED BY <1>2, <1>3

LEMMA RemovalQueued ==
  ASSUME IInv, TInv, RInv, NEW f \in Flows, queue' = queue \o RollbackTasks(f, flow[f])
  PROVE  Imports(queue') = Imports(queue)
<1>1. PICK a \in Seq(Tasks) : a = RollbackTasks(f, flow[f]) /\ Imports(a) = {}
  BY RolledBackTasks
<1>2. queue \in Seq(Tasks) BY DEF RInv
<1>3. Imports(queue \o a) = Imports(queue) \cup Imports(a) BY <1>2, Joined
<1> QED BY <1>1, <1>3

LEMMA HalfWaits ==
  ASSUME IInv, TInv, RInv, HInv, NEW f \in Flows, NEW fl \in FlowRecord, Alike(flow[f], fl),
         NEW goal, NEW left, Change(f, Waits(fl, goal, left)),
         NEW statistics \in SUBSET Statistics,
         queue' = Append(queue, Removal(Form(f), statistics)), UNCHANGED <<table, stopping>>
  PROVE  HInv'
<1>1. PICK new : new = Waits(fl, goal, left) OBVIOUS
<1>2. Alike(fl, new) BY <1>1, Alikes DEF Waits, Forms
<1>3. Alike(flow[f], new) BY <1>2 DEF Alike
<1>4. Form(f) \in Waiters BY DEF Form, Waiters
<1>5. Imports(queue') = Imports(queue) BY <1>4, Appended
<1> QED BY <1>1, <1>3, <1>5, HalfAlike

LEMMA HalfSubmission ==
  ASSUME IInv, TInv, RInv, HInv, NEW f \in Flows,
         \/ OpenDialog(f) \/ SubmitCode(f) \/ SubmitAccounts(f)
         \/ SubmitDiscovery(f) \/ SubmitFailed(f) \/ SubmitLast(f)
         \/ SubmitAgain(f) \/ AnswerRepeat(f)
  PROVE  HInv'
<1> DEFINE fl == flow[f]
<1>1. fl \in FlowRecord BY Known
<1>2. UNCHANGED <<table, stopping>>
  BY DEF OpenDialog, SubmitCode, SubmitAccounts, SubmitDiscovery, SubmitFailed, SubmitLast,
         SubmitAgain, AnswerRepeat, Only
<1>3. Alike(fl, fl) /\ Alike(fl, AbortFlow(fl)) BY <1>1, Alikes DEF Forms
<1>4. ASSUME Prepares(f, fl) PROVE HInv'
  <2>1. {} \in SUBSET Statistics OBVIOUS
  <2> QED BY <1>1, <1>2, <1>3, <1>4, <2>1, HalfWaits DEF Prepares, Barrier
<1>5. ASSUME NEW goal, RollsBack(f, fl, goal) PROVE HInv'
  <2>1. {} \in SUBSET Statistics /\ CreatedBy(fl) \in SUBSET Statistics BY DEF CreatedBy
  <2>2. PICK left : Change(f, Waits(fl, goal, left)) BY <1>5 DEF RollsBack
  <2>3. PICK statistics \in SUBSET Statistics :
          queue' = Append(queue, Removal(Form(f), statistics))
    BY <1>5, <2>1 DEF RollsBack, Barrier
  <2> QED BY <1>1, <1>2, <1>3, <2>2, <2>3, HalfWaits
<1>6. CASE OpenDialog(f)
  <2> DEFINE new == [fl EXCEPT !.step = "user", !.own = TRUE]
  <2>1. Change(f, new) /\ UNCHANGED queue /\ fl.step = "none"
    BY <1>6 DEF OpenDialog, Only
  <2>2. Alike(fl, new) BY <1>1, <2>1 DEF Alike, FlowRecord
  <2>3. Imports(queue') = Imports(queue) BY <2>1
  <2> QED BY <1>2, <2>1, <2>2, <2>3, HalfAlike
<1>7. CASE SubmitCode(f)
  <2>1. Change(f, Handles(fl, "check")) /\ UNCHANGED queue BY <1>7 DEF SubmitCode, Only
  <2>2. Alike(fl, Handles(fl, "check")) BY <1>1, Alikes DEF Handles, Forms
  <2>3. Imports(queue') = Imports(queue) BY <2>1
  <2> QED BY <1>2, <2>1, <2>2, <2>3, HalfAlike
<1>8. CASE SubmitAccounts(f) BY <1>4, <1>8 DEF SubmitAccounts
<1>9. CASE SubmitDiscovery(f)
  <2>1. CASE Prepares(f, fl) BY <1>4, <2>1
  <2>2. CASE Change(f, Handles(fl, "discover")) /\ UNCHANGED queue
    <3>1. Alike(fl, Handles(fl, "discover")) BY <1>1, Alikes DEF Handles, Forms
    <3>2. Imports(queue') = Imports(queue) BY <2>2
    <3> QED BY <1>2, <2>2, <3>1, <3>2, HalfAlike
  <2> QED BY <1>9, <2>1, <2>2 DEF SubmitDiscovery
<1>10. CASE SubmitFailed(f) BY <1>5, <1>10 DEF SubmitFailed
<1>11. CASE SubmitLast(f)
  <2>1. CASE Change(f, AbortFlow(fl)) /\ UNCHANGED queue
    <3>1. Imports(queue') = Imports(queue) BY <2>1
    <3> QED BY <1>2, <1>3, <2>1, <3>1, HalfAlike
  <2>2. CASE RollsBack(f, fl, "entry") BY <1>5, <2>2
  <2> QED BY <1>11, <2>1, <2>2 DEF SubmitLast
<1>12. CASE SubmitAgain(f) \/ AnswerRepeat(f)
  <2>1. PICK repeats \in {0, 1} : Change(f, [fl EXCEPT !.repeats = repeats]) /\ UNCHANGED queue
    BY <1>12 DEF SubmitAgain, AnswerRepeat, RepeatAnswer
  <2>2. Alike(fl, [fl EXCEPT !.repeats = repeats]) BY <1>1, Alikes DEF Forms
  <2>3. Imports(queue') = Imports(queue) BY <2>1
  <2> QED BY <1>2, <2>1, <2>2, <2>3, HalfAlike
<1> QED BY <1>6, <1>7, <1>8, <1>9, <1>10, <1>11, <1>12

LEMMA HalfEmail ==
  ASSUME IInv, TInv, RInv, HInv, NEW f \in Flows, SubmitEmail(f)
  PROVE  HInv'
<1>1. UNCHANGED <<table, queue, stopping>> BY DEF SubmitEmail
<1>2. ASSUME NEW g \in Flows PROVE Alike(flow[g], flow'[g])
  <2> DEFINE named == [flow[f] EXCEPT !.named = TRUE]
             refused == entry # None \/ Importers(f) # {}
             next(h) == IF h = f
                        THEN IF refused THEN AbortFlow(flow[f]) ELSE Handles(named, "send")
                        ELSE IF entry = None /\ flow[h].named /\ flow[h].step \in Parked
                             THEN [flow[h] EXCEPT !.step = "gone"]
                             ELSE flow[h]
  <2>1. flow' = [h \in Flows |-> next(h)] BY DEF SubmitEmail
  <2>2. flow'[g] = next(g) BY <2>1
  <2>3. /\ Alike(flow[g], flow[g]) /\ Alike(flow[g], AbortFlow(flow[g]))
        /\ Alike(flow[g], [flow[g] EXCEPT !.step = "gone"])
    BY Known, Alikes DEF Forms
  <2>4. Alike(flow[f], Handles(named, "send"))
    <3>1. flow[f] \in FlowRecord BY Known
    <3> QED BY <3>1 DEF Alike, Handles, FlowRecord
  <2> QED BY <2>2, <2>3, <2>4
<1>3. ASSUME NEW g \in Flows
      PROVE  /\ Calm(flow'[g], stopping') => Calm(flow[g], stopping)
             /\ Wrote(flow'[g]) => Wrote(flow[g]) /\ flow'[g].attempts = flow[g].attempts
  BY <1>1, <1>2, AlikeStays DEF Alike
<1>4. Imports(queue') = Imports(queue) BY <1>1
<1> QED BY <1>1, <1>3, <1>4, HalfStep

LEMMA HalfAnswer ==
  ASSUME IInv, TInv, RInv, HInv, NEW f \in Flows,
         \/ CodeSent(f) \/ CodeChecked(f) \/ AccountsFound(f) \/ PassEnds(f)
         \/ WaitTimesOut(f)
         \/ /\ NotReady(f)
            /\ flow[f].sub # None
  PROVE  HInv'
<1> DEFINE fl == flow[f]
<1>1. fl \in FlowRecord /\ FlowOK(fl, entries, stopping) BY Known
<1>2. UNCHANGED <<table, stopping>> /\ fl.sub # None
  BY DEF CodeSent, CodeChecked, AccountsFound, PassEnds, WaitTimesOut, NotReady, Only, Handling
<1>3. fl.step \in Forms \cup {"gone"} BY <1>1, <1>2 DEF FlowOK
<1>4. ASSUME NEW new, Change(f, new), UNCHANGED queue,
             (\E step \in Forms : new = ShowForm(fl, step)) \/ new = AbortFlow(fl)
      PROVE  HInv'
  <2>1. Alike(fl, new) BY <1>1, <1>4, Alikes DEF Forms
  <2>2. Imports(queue') = Imports(queue) BY <1>4
  <2> QED BY <1>2, <1>4, <2>1, <2>2, HalfAlike
<1>5. CASE CodeSent(f)
  <2>1. UNCHANGED queue /\ \E step \in Forms : Change(f, ShowForm(fl, step))
    BY <1>5 DEF CodeSent, Only, Forms
  <2> QED BY <1>4, <2>1
<1>6. CASE CodeChecked(f)
  <2>1. UNCHANGED queue BY <1>6 DEF CodeChecked, Only
  <2>2. CASE Change(f, ShowForm(fl, "otp")) BY <1>4, <2>1, <2>2 DEF Forms
  <2>3. CASE Change(f, Handles(fl, "discover"))
    <3>1. Alike(fl, Handles(fl, "discover")) BY <1>1, Alikes DEF Handles, Forms
    <3>2. Imports(queue') = Imports(queue) BY <2>1
    <3> QED BY <1>2, <2>3, <3>1, <3>2, HalfAlike
  <2> QED BY <1>6, <2>2, <2>3 DEF CodeChecked, Only
<1>7. CASE AccountsFound(f)
  <2> DEFINE one == [fl EXCEPT !.accounts = 1]
             two == [fl EXCEPT !.accounts = 2]
  <2>1. \/ UNCHANGED queue /\ Change(f, ShowForm(fl, "discovery_retry"))
        \/ UNCHANGED queue /\ Change(f, AbortFlow(fl))
        \/ Prepares(f, one)
        \/ UNCHANGED queue /\ Change(f, ShowForm(two, "accounts"))
    BY <1>7 DEF AccountsFound
  <2>2. CASE UNCHANGED queue /\ Change(f, ShowForm(fl, "discovery_retry"))
    BY <1>4, <2>2 DEF Forms
  <2>3. CASE UNCHANGED queue /\ Change(f, AbortFlow(fl))
    BY <1>4, <2>3
  <2>4. /\ Alike(fl, one) /\ Alike(fl, two) /\ one \in FlowRecord /\ two \in FlowRecord
        /\ one.step = fl.step /\ two.step = fl.step
    <3>1. 1 \in 0 .. 2 /\ 2 \in 0 .. 2 OBVIOUS
    <3>2. Alike(fl, one) /\ Alike(fl, two) BY <1>1, Alikes DEF Forms
    <3> QED BY <1>1, <3>1, <3>2 DEF FlowRecord
  <2> HIDE DEF one, two
  <2>5. CASE Prepares(f, one)
    <3>1. {} \in SUBSET Statistics OBVIOUS
    <3> QED BY <1>2, <2>4, <2>5, <3>1, HalfWaits DEF Prepares, Barrier
  <2>6. CASE UNCHANGED queue /\ Change(f, ShowForm(two, "accounts"))
    <3>1. PICK new : new = ShowForm(two, "accounts") OBVIOUS
    <3>2. Alike(two, new) BY <2>4, <3>1, Alikes DEF Forms
    <3>3. Alike(fl, new) BY <2>4, <3>2 DEF Alike
    <3>4. Imports(queue') = Imports(queue) BY <2>6
    <3> QED BY <1>2, <2>6, <3>1, <3>3, <3>4, HalfAlike
  <2> QED BY <2>1, <2>2, <2>3, <2>5, <2>6
<1>8. CASE PassEnds(f)
  <2> DEFINE new == [fl EXCEPT !.sub.left = @ - 1]
  <2>1. Change(f, new) /\ queue' = Append(queue, Removal(Form(f), {}))
    BY <1>8 DEF PassEnds, Barrier
  <2>2. Alike(fl, new) BY <1>1 DEF Alike, FlowRecord
  <2>3. Form(f) \in Waiters /\ {} \in SUBSET Statistics BY Known
  <2>4. Imports(queue') = Imports(queue) BY <2>1, <2>3, Appended
  <2> HIDE DEF new
  <2> QED BY <1>2, <2>1, <2>2, <2>4, HalfAlike
<1>9. ASSUME Change(f, GivesUp(fl)), UNCHANGED queue
      PROVE  HInv'
  <2>1. CASE Stops(fl) BY <1>4, <1>9, <2>1 DEF GivesUp
  <2>2. CASE ~ Stops(fl)
    <3>1. FormOf(fl) \in Forms BY <1>3, <2>2 DEF FormOf, Forms, Stops
    <3> QED BY <1>4, <1>9, <2>2, <3>1 DEF GivesUp
  <2> QED BY <2>1, <2>2
<1>10. CASE WaitTimesOut(f) BY <1>9, <1>10 DEF WaitTimesOut
<1>11. CASE NotReady(f) BY <1>9, <1>11 DEF NotReady, Only
<1> QED BY <1>5, <1>6, <1>7, <1>8, <1>10, <1>11

\* An attempt starts: it keeps what it knows, unless all it may have left is gone.
LEMMA HalfStart ==
  ASSUME IInv, TInv, RInv, HInv, NEW f \in Flows, StartAttempt(f)
  PROVE  HInv'
<1> DEFINE fl == flow[f]
<1>1. /\ fl \in FlowRecord /\ FlowOK(fl, entries, stopping) /\ Tried(fl) /\ fl.attempts \in Nat
  BY Known
<1>2. fl.sub # None /\ fl.sub.name = "wait" BY DEF StartAttempt, Waited, Handling
<1>3. CASE ~ Ready(fl) \/ Stops(fl)
  <2>1. NotReady(f) BY <1>3 DEF StartAttempt
  <2> QED BY <1>2, <2>1, HalfAnswer
<1>4. CASE Ready(fl) /\ ~ Stops(fl)
  <2> DEFINE settled == Settled(fl)
             ended == Ended(settled, None)
             new == [ended EXCEPT
                       !.attempts = @ + 1, !.task = [at |-> "fetching", error |-> None],
                       !.error = None, !.imported = 0,
                       !.step = IF @ = "gone" THEN @ ELSE "initial_import", !.own = FALSE]
  <2>1. Change(f, new) /\ UNCHANGED <<table, queue, stopping>>
    BY <1>4 DEF StartAttempt, Only
  <2>2. fl.step # "gone" /\ ~ stopping BY <1>4 DEF Stops
  <2>3. fl.task = None /\ ~ (fl.imported > 0) BY <1>2, <2>2, WaitsHolds
  <2>4. settled \in FlowRecord /\ settled.step = fl.step /\ settled.attempts = fl.attempts
    BY <1>1, SettledTyped
  <2>5. fl.sub.goal # "first" =>
          /\ settled.existing = fl.existing
          /\ CreatedBy(fl) # Statistics => settled.unconfirmed = fl.unconfirmed
    BY <1>1 DEF Settled, FlowRecord
  <2> HIDE DEF settled
  <2>6. /\ ended \in FlowRecord /\ ended.existing = settled.existing /\ ended.step = fl.step
        /\ ended.unconfirmed = settled.unconfirmed /\ ended.attempts = fl.attempts
    BY <2>4 DEF Ended, FlowRecord
  <2> HIDE DEF ended
  <2>7. /\ new.attempts = fl.attempts + 1 /\ new.existing = settled.existing
        /\ new.unconfirmed = settled.unconfirmed /\ new.task.at = "fetching"
        /\ new.step = "initial_import"
    BY <2>2, <2>6 DEF FlowRecord
  <2> HIDE DEF new
  <2>8. ~ Wrote(new) BY <2>7 DEF Wrote, Shown
  <2>9. ASSUME Calm(new, stopping) PROVE Calm(fl, stopping)
    <3>1. Quiet(new) BY <1>1, <2>7, <2>9 DEF Calm
    <3>2. CASE fl.sub.goal = "first"
      <4>1. fl.attempts = 0 BY <1>1, <1>2, <2>2, <3>2 DEF Tried
      <4> QED BY <4>1 DEF Calm
    <3>3. CASE fl.sub.goal # "first"
      <4>1. CreatedBy(fl) # Statistics /\ ~ fl.unconfirmed
        BY <2>5, <2>7, <3>1, <3>3 DEF Quiet, CreatedBy
      <4> QED BY <2>2, <2>3, <4>1 DEF Calm, Quiet, Sent
    <3> QED BY <3>2, <3>3
  <2>10. Imports(queue') = Imports(queue) BY <2>1
  <2> QED BY <2>1, <2>8, <2>9, <2>10, HalfOne
<1> QED BY <1>3, <1>4

\* What a cancellation, or a failure, makes of an attempt.
LEMMA HalfRolledBack ==
  ASSUME NEW f, NEW fl \in FlowRecord, fl.task # None, NEW error, NEW half \in BOOLEAN,
         Sent(fl) => half, NEW stopped, NEW new, new = RolledBack(f, fl, error, half)
  PROVE  /\ Calm(new, stopped) => Calm(fl, stopped)
         /\ Wrote(new) => Wrote(fl)
         /\ new.attempts = fl.attempts /\ new.step = fl.step
<1>1. /\ new.attempts = fl.attempts /\ new.existing = fl.existing /\ new.imported = fl.imported
      /\ new.step = fl.step /\ new.unconfirmed = (fl.unconfirmed \/ half)
      /\ new.task.at = "rolling back"
  BY DEF RolledBack, FlowRecord
<1>2. ~ Shown(new) BY <1>1 DEF Shown
<1>3. Wrote(new) => Wrote(fl) BY <1>1, <1>2 DEF Wrote
<1>4. Calm(new, stopped) => Calm(fl, stopped) BY <1>1 DEF Calm, Quiet, CreatedBy
<1> QED BY <1>1, <1>3, <1>4

LEMMA HalfFailed ==
  ASSUME NEW fl \in FlowRecord, ~ Sent(fl), NEW error, NEW stopped
  PROVE  LET new == FailedAttempt(fl, error)
         IN  /\ Calm(new, stopped) => Calm(fl, stopped)
             /\ ~ Wrote(new) /\ new.attempts = fl.attempts
<1> DEFINE new == FailedAttempt(fl, error)
<1>1. /\ new.attempts = fl.attempts /\ new.existing = fl.existing /\ new.imported = fl.imported
      /\ new.step = (IF fl.step = "gone" THEN "gone" ELSE "import_failed")
      /\ new.unconfirmed = fl.unconfirmed /\ new.task = None
  BY DEF FailedAttempt, FlowRecord
<1> HIDE DEF new
<1>2. ~ Wrote(new) BY <1>1 DEF Wrote, Shown
<1>3. Calm(new, stopped) => Calm(fl, stopped) BY <1>1 DEF Calm, Quiet, CreatedBy
<1> QED BY <1>1, <1>2, <1>3 DEF new

LEMMA HalfAttempt ==
  ASSUME IInv, TInv, RInv, HInv, NEW f \in Flows,
         \/ FetchFails(f) \/ QueueImport(f) \/ ImportConfirmed(f) \/ ConfirmAgain(f)
         \/ ImportUnconfirmed(f) \/ AttemptSucceeds(f) \/ RollbackEnds(f)
  PROVE  HInv'
<1> DEFINE fl == flow[f]
<1>1. /\ fl \in FlowRecord /\ FlowOK(fl, entries, stopping) /\ Tried(fl)
      /\ fl.attempts \in Nat /\ Task(f) \in Waiters /\ queue \in Seq(Tasks)
  BY Known
<1>2. fl.task # None /\ UNCHANGED <<table, stopping>>
  BY DEF FetchFails, QueueImport, ImportConfirmed, ConfirmAgain, ImportUnconfirmed,
         AttemptSucceeds, RollbackEnds, AttemptAt, Only
<1>3. fl.attempts # 0 BY <1>1, <1>2 DEF Tried
<1>4. ASSUME NEW error, NEW half \in BOOLEAN, Sent(fl) => half,
             Change(f, RolledBack(f, fl, error, half)), queue' = queue \o RollbackTasks(f, fl)
      PROVE  HInv'
  <2>1. PICK new : new = RolledBack(f, fl, error, half) OBVIOUS
  <2>2. /\ Calm(new, stopping) => Calm(fl, stopping)
        /\ Wrote(new) => Wrote(fl)
        /\ new.attempts = fl.attempts
    BY <1>1, <1>2, <1>4, <2>1, HalfRolledBack
  <2>3. Imports(queue') = Imports(queue) BY <1>4, RemovalQueued
  <2> QED BY <1>2, <1>4, <2>1, <2>2, <2>3, HalfOne
<1>5. CASE FetchFails(f)
  <2>1. ~ Sent(fl) /\ queue' = queue \o RollbackTasks(f, fl)
        /\ \E error : Change(f, RolledBack(f, fl, error, FALSE))
    BY <1>5 DEF FetchFails, AttemptAt, Sent
  <2> QED BY <1>4, <2>1
<1>6. CASE ImportUnconfirmed(f)
  <2>1. queue' = queue \o RollbackTasks(f, fl) /\ Change(f, RolledBack(f, fl, "other", TRUE))
    BY <1>6 DEF ImportUnconfirmed
  <2> QED BY <1>4, <2>1
<1>7. CASE QueueImport(f)
  <2> DEFINE new == [fl EXCEPT !.task.at = "confirming"]
  <2>1. Change(f, new) /\ fl.step = "initial_import"
        /\ queue' = queue \o Append(Writes(Attempt(f)), Barrier(Task(f)))
    BY <1>1, <1>7 DEF QueueImport, AttemptAt, Running, Moves, FlowOK
  <2>2. new.step = fl.step /\ new.attempts = fl.attempts /\ Sent(new) /\ ~ Shown(new)
    <3>1. fl.task \in Attempts BY <1>1, <1>2 DEF FlowRecord
    <3>2. [fl.task EXCEPT !.at = "confirming"] \in Attempts BY <3>1 DEF Attempts
    <3>3. /\ new.step = fl.step /\ new.attempts = fl.attempts
          /\ new.task = [fl.task EXCEPT !.at = "confirming"]
      BY <1>1 DEF FlowRecord
    <3>4. new.task.at = "confirming" BY <3>1, <3>3 DEF Attempts
    <3>5. new.task # None BY <3>2, <3>3, AttemptAssumption
    <3> HIDE DEF new
    <3> QED BY <3>3, <3>4, <3>5 DEF Sent, Shown
  <2> HIDE DEF new
  <2>3. ~ Calm(new, stopping) /\ ~ Wrote(new)
    BY <1>3, <2>1, <2>2 DEF Calm, Quiet, Wrote
  <2>4. Imports(queue') = Imports(queue) \cup {Attempt(f)}
    <3>1. Attempt(f) \in Authors BY <1>1, <1>3 DEF Attempt, Authors
    <3>2. PICK w \in Seq(Tasks) : w = Writes(Attempt(f)) /\ Imports(w) = {Attempt(f)}
      BY <3>1, Written
    <3>3. {} \in SUBSET Statistics OBVIOUS
    <3>4. PICK b \in Seq(Tasks) : b = <<Removal(Task(f), {})>> /\ Imports(b) = {}
                                  /\ Append(w, Removal(Task(f), {})) = w \o b
      <4> DEFINE last == <<Removal(Task(f), {})>>
      <4>1. last \in Seq(Tasks) /\ Imports(last) = {}
            /\ Append(w, Removal(Task(f), {})) = w \o last
        BY <1>1, <3>3, QueuedLast
      <4> QED BY <4>1
    <3>5. w \o b \in Seq(Tasks) /\ Imports(w \o b) = Imports(w) \cup Imports(b) BY Joined
    <3>6. PICK a \in Seq(Tasks) : a = w \o b /\ Imports(a) = {Attempt(f)}
      BY <3>2, <3>4, <3>5
    <3>7. queue' = queue \o a BY <2>1, <3>2, <3>4, <3>6 DEF Barrier
    <3>8. Imports(queue \o a) = Imports(queue) \cup Imports(a) BY <1>1, Joined
    <3> QED BY <3>6, <3>7, <3>8
  <2>5. \A g \in Flows \ {f}, k \in Nat \ {0} : <<g, k>> # Attempt(f) BY DEF Attempt
  <2> QED BY <1>2, <2>1, <2>3, <2>4, <2>5, HalfOne
<1>8. CASE ImportConfirmed(f)
  <2> DEFINE moved == [fl EXCEPT !.task.at = "visible"]
             new == [moved EXCEPT !.unconfirmed = FALSE]
  <2>1. Change(f, new) /\ UNCHANGED queue /\ Saved(Attempt(f)) /\ fl.step = "initial_import"
    BY <1>1, <1>8 DEF ImportConfirmed, AttemptAt, Running, Moves, Only, FlowOK
  <2>2. moved \in FlowRecord /\ moved.attempts = fl.attempts /\ Sent(moved)
    <3>1. fl.task \in Attempts BY <1>1, <1>2 DEF FlowRecord
    <3>2. [fl.task EXCEPT !.at = "visible"] \in Attempts BY <3>1 DEF Attempts
    <3>3. /\ moved \in FlowRecord /\ moved.attempts = fl.attempts
          /\ moved.task = [fl.task EXCEPT !.at = "visible"]
      BY <1>1, <3>2 DEF FlowRecord
    <3>4. moved.task.at = "visible" BY <3>1, <3>3 DEF Attempts
    <3>5. moved.task # None BY <3>2, <3>3, AttemptAssumption
    <3> HIDE DEF moved
    <3> QED BY <3>3, <3>4, <3>5 DEF Sent
  <2> HIDE DEF moved
  <2>3. new.attempts = fl.attempts /\ Sent(new)
    BY <2>2 DEF FlowRecord, Sent
  <2> HIDE DEF new
  <2>4. ~ Calm(new, stopping) BY <1>3, <2>3 DEF Calm, Quiet
  <2>5. \A s \in Statistics : <<f, new.attempts>> \in table[s]
    BY <2>1, <2>3 DEF Saved, Attempt
  <2>6. Imports(queue') = Imports(queue) BY <2>1
  <2> QED BY <1>2, <2>1, <2>4, <2>5, <2>6, HalfOne
<1>9. CASE ConfirmAgain(f)
  <2>1. flow' = flow /\ queue' = Append(queue, Removal(Task(f), {}))
    BY <1>9 DEF ConfirmAgain, Barrier
  <2>2. {} \in SUBSET Statistics OBVIOUS
  <2>3. Imports(queue') = Imports(queue) BY <1>1, <2>1, <2>2, Appended
  <2> QED BY <1>2, <2>1, <2>3, HalfStep
<1>10. CASE AttemptSucceeds(f)
  <2> DEFINE new == [fl EXCEPT !.task = None, !.imported = fl.attempts,
                               !.step = IF @ = "gone" THEN @ ELSE "finish", !.own = FALSE]
  <2>1. Shown(fl) /\ Change(f, new) /\ UNCHANGED queue
    BY <1>10 DEF AttemptSucceeds, AttemptAt, Shown, Only
  <2>2. new.attempts = fl.attempts /\ new.imported = fl.attempts
    BY <1>1 DEF FlowRecord
  <2> HIDE DEF new
  <2>3. ~ Calm(new, stopping) BY <1>1, <1>3, <2>2 DEF Calm, Quiet
  <2>4. Wrote(fl) /\ Imports(queue') = Imports(queue) BY <2>1 DEF Wrote
  <2> QED BY <1>2, <2>1, <2>2, <2>3, <2>4, HalfOne
<1>11. CASE RollbackEnds(f)
  <2>1. Change(f, FailedAttempt(fl, fl.task.error)) /\ UNCHANGED queue /\ ~ Sent(fl)
    BY <1>11 DEF RollbackEnds, AttemptAt, Sent
  <2>2. PICK new : new = FailedAttempt(fl, fl.task.error) OBVIOUS
  <2>3. (Calm(new, stopping) => Calm(fl, stopping)) /\ ~ Wrote(new)
    BY <1>1, <2>1, <2>2, HalfFailed
  <2>4. Imports(queue') = Imports(queue) BY <2>1
  <2> QED BY <1>2, <2>1, <2>2, <2>3, <2>4, HalfOne
<1> QED BY <1>5, <1>6, <1>7, <1>8, <1>9, <1>10, <1>11

LEMMA PlainWrote ==
  ASSUME NEW old, NEW fl, NEW stopped, Plain(old, fl)
  PROVE  /\ fl.attempts = old.attempts
         /\ Wrote(fl) => Wrote(old)
         /\ fl.attempts = 0 => Calm(old, stopped)
BY DEF Plain, Wrote, Calm

\* An entry created without the history.
LEMMA HalfWithout ==
  ASSUME IInv, TInv, RInv, HInv, NEW f \in Flows, FinishWithout(f),
         Ready(flow[f]), ~ Stops(flow[f])
  PROVE  HInv'
<1> DEFINE fl == flow[f]
<1>1. fl \in FlowRecord /\ fl.sub # None /\ fl.sub.goal = "entry" /\ fl.step # "gone"
  BY Known DEF FinishWithout, Waited, Handling, Stops
<1>2. PICK settled : settled = Settled(fl) OBVIOUS
<1>3. CreateEntry(f, settled) BY <1>2 DEF FinishWithout
<1>4. /\ settled \in FlowRecord /\ settled.attempts = fl.attempts /\ settled.step = fl.step
      /\ settled.task = fl.task
  BY <1>1, <1>2, SettledTyped
<1>5. /\ settled.existing = fl.existing
      /\ CreatedBy(fl) # Statistics => settled.unconfirmed = fl.unconfirmed
  BY <1>1, <1>2 DEF Settled, FlowRecord
<1> DEFINE new == [Ended(settled, "entry") EXCEPT !.created = TRUE]
<1>6. Change(f, new) /\ UNCHANGED <<table, queue, stopping>> BY <1>3 DEF CreateEntry
<1>7. /\ new.attempts = fl.attempts /\ new.existing = fl.existing /\ new.step = fl.step
      /\ new.unconfirmed = settled.unconfirmed /\ new.task = fl.task
  BY <1>4, <1>5 DEF Ended, FlowRecord
<1> HIDE DEF new
<1>8. fl.task = None /\ ~ (fl.imported > 0) BY <1>1, WaitsHolds
<1>9. Calm(new, stopping) => Calm(fl, stopping)
  BY <1>1, <1>5, <1>7, <1>8 DEF Calm, Quiet, CreatedBy, Sent
<1>10. Wrote(new) => Wrote(fl) BY <1>7 DEF Wrote, Shown
<1>11. Imports(queue') = Imports(queue) BY <1>6
<1> QED BY <1>6, <1>7, <1>9, <1>10, <1>11, HalfOne

LEMMA HalfEnd ==
  ASSUME IInv, TInv, RInv, HInv, NEW f \in Flows,
         \/ ShowFailure(f) \/ Finish(f) \/ FinishWithout(f) \/ EntryAdded(f) \/ CloseDialog(f)
  PROVE  HInv'
<1> DEFINE fl == flow[f]
<1>1. /\ fl \in FlowRecord /\ FlowOK(fl, entries, stopping) /\ Succeeds(fl)
      /\ queue \in Seq(Tasks)
  BY Known
<1>2. UNCHANGED <<table, stopping>>
  BY DEF ShowFailure, Finish, FinishWithout, EntryAdded, CloseDialog, NotReady, CreateEntry, Only
<1>3. CASE ShowFailure(f)
  <2>1. Change(f, Failure(fl)) /\ UNCHANGED queue BY <1>3 DEF ShowFailure, Only
  <2>2. Failure(fl) = AbortFlow(fl) \/ \E step \in Forms : Failure(fl) = ShowForm(fl, step)
    BY DEF Failure, Forms
  <2>3. PICK new : new = Failure(fl) OBVIOUS
  <2>4. Alike(fl, new) BY <1>1, <2>2, <2>3, Alikes DEF Forms
  <2>5. Imports(queue') = Imports(queue) BY <2>1
  <2> QED BY <1>2, <2>1, <2>3, <2>4, <2>5, HalfAlike
<1>4. CASE Finish(f)
  <2> DEFINE new == [Ended(fl, "entry") EXCEPT !.created = TRUE]
  <2>1. Change(f, new) /\ UNCHANGED queue BY <1>4 DEF Finish, CreateEntry
  <2>2. Alike(fl, new) BY <1>1 DEF Alike, Ended, FlowRecord
  <2>3. Imports(queue') = Imports(queue) BY <2>1
  <2> HIDE DEF new
  <2> QED BY <1>2, <2>1, <2>2, <2>3, HalfAlike
<1>5. CASE FinishWithout(f)
  <2>1. CASE ~ Ready(fl) \/ Stops(fl)
    <3>1. NotReady(f) /\ fl.sub # None
      BY <1>5, <2>1 DEF FinishWithout, Waited, Handling
    <3> QED BY <3>1, HalfAnswer
  <2>2. CASE Ready(fl) /\ ~ Stops(fl) BY <1>5, <2>2, HalfWithout
  <2> QED BY <2>1, <2>2
<1>6. CASE EntryAdded(f)
  <2>1. Change(f, [fl EXCEPT !.step = "gone"]) /\ UNCHANGED queue
    BY <1>6 DEF EntryAdded, Only
  <2>2. Alike(fl, [fl EXCEPT !.step = "gone"]) BY <1>1, Alikes DEF Forms
  <2>3. Imports(queue') = Imports(queue) BY <2>1
  <2> QED BY <1>2, <2>1, <2>2, <2>3, HalfAlike
<1>7. CASE CloseDialog(f)
  <2>1. PICK new : new = [Cancelled(f, fl) EXCEPT !.step = "gone"] OBVIOUS
  <2>2. Change(f, new) /\ queue' = queue \o CancelTasks(f, fl)
    BY <1>7, <2>1 DEF CloseDialog
  <2>3. Plain(fl, new) BY <1>1, <2>1, PlainCancelled
  <2>4. new.step = "gone"
    <3>1. Cancelled(f, fl) \in FlowRecord BY <1>1, CancelledKeeps DEF Keeps
    <3> QED BY <2>1, <3>1 DEF FlowRecord
  <2>5. Imports(queue') = Imports(queue)
    <3>1. CASE Running(fl) BY <2>2, <3>1, RemovalQueued DEF CancelTasks
    <3>2. CASE ~ Running(fl)
      <4>1. queue' = queue BY <1>1, <2>2, <3>2, Nothing DEF CancelTasks
      <4> QED BY <4>1
    <3> QED BY <3>1, <3>2
  <2>6. /\ new.attempts = fl.attempts
        /\ Wrote(new) => Wrote(fl)
        /\ new.attempts = 0 => Calm(fl, stopping)
    BY <2>3, PlainWrote
  <2>7. Calm(new, stopping) => Calm(fl, stopping) BY <2>4, <2>6 DEF Calm, Quiet
  <2> QED BY <1>2, <2>2, <2>5, <2>6, <2>7, HalfOne
<1> QED BY <1>3, <1>4, <1>5, <1>6, <1>7

LEMMA HalfStop ==
  ASSUME IInv, TInv, RInv, HInv, Stop
  PROVE  HInv'
<1>1. flow' = [f \in Flows |-> Cancelled(f, flow[f])] /\ table' = table /\ stopping'
  BY DEF Stop
<1>2. Imports(queue') = Imports(queue)
  <2>1. PICK a \in Seq(Tasks) : queue' = queue \o a /\ Imports(a) = {} BY StopQueues
  <2>2. queue \in Seq(Tasks) BY DEF RInv
  <2>3. Imports(queue \o a) = Imports(queue) \cup Imports(a) BY <2>2, Joined
  <2> QED BY <2>1, <2>3
<1>3. ASSUME NEW f \in Flows
      PROVE  /\ Calm(flow'[f], stopping') => Calm(flow[f], stopping)
             /\ Wrote(flow'[f]) => Wrote(flow[f])
             /\ flow'[f].attempts = flow[f].attempts
  <2>1. flow'[f] = Cancelled(f, flow[f]) BY <1>1
  <2>2. flow[f] \in FlowRecord /\ FlowOK(flow[f], entries, stopping) /\ Succeeds(flow[f])
    BY Known
  <2>3. PICK old \in FlowRecord : old = flow[f] BY <2>2
  <2>4. PICK new : new = Cancelled(f, old) OBVIOUS
  <2>5. Plain(old, new) BY <2>2, <2>3, <2>4, PlainCancelled
  <2>6. /\ new.attempts = old.attempts
        /\ Wrote(new) => Wrote(old)
        /\ new.attempts = 0 => Calm(old, stopping)
    BY <2>5, PlainWrote
  <2>7. flow'[f] = new BY <2>1, <2>3, <2>4
  <2> QED BY <1>1, <2>3, <2>6, <2>7 DEF Calm
<1> QED BY <1>1, <1>2, <1>3, HalfStep

\* A restart loses the flows, but those not begun, which made no attempt.
LEMMA HalfRestart ==
  ASSUME IInv, TInv, RInv, HInv, Restart
  PROVE  HInv'
<1>1. table' = table /\ queue' = queue BY DEF Restart
<1>2. ASSUME NEW f \in Flows
      PROVE  /\ Calm(flow'[f], stopping') => Calm(flow[f], stopping)
             /\ Wrote(flow'[f]) => Wrote(flow[f])
             /\ flow'[f].attempts = flow[f].attempts
  <2> DEFINE lost == [flow[f] EXCEPT !.step = "gone", !.sub = None, !.task = None,
                                     !.repeats = 0]
  <2>1. flow[f] \in FlowRecord /\ Tried(flow[f]) BY Known
  <2>2. flow'[f] = IF flow[f].step = "none" THEN flow[f] ELSE lost
    BY DEF Restart
  <2>3. CASE flow[f].step = "none"
    BY <2>1, <2>2, <2>3 DEF Tried, Calm
  <2>4. CASE flow[f].step # "none"
    <3>1. /\ lost.attempts = flow[f].attempts /\ lost.task = None /\ lost.step = "gone"
      BY <2>1 DEF FlowRecord
    <3> HIDE DEF lost
    <3> QED BY <2>2, <2>4, <3>1 DEF Calm, Quiet, Wrote, Shown
  <2> QED BY <2>3, <2>4
<1>3. Imports(queue') = Imports(queue) BY <1>1
<1> QED BY <1>1, <1>2, <1>3, HalfStep

LEMMA HalfUpdate ==
  ASSUME IInv, TInv, RInv, HInv,
         UpdateBegins \/ UpdateWaits \/ UpdateGivesUp \/ UpdateReads \/ UpdateImports
  PROVE  HInv'
<1>1. UNCHANGED <<table, flow, stopping>>
  BY DEF UpdateBegins, UpdateWaits, UpdateGivesUp, UpdateReads, UpdateImports
<1>2. PICK a \in Seq(Tasks) :
        /\ queue' = queue \o a
        /\ \A f \in Flows, k \in Nat \ {0} : <<f, k>> \notin Imports(a)
  BY UpdateQueues
<1>3. queue \in Seq(Tasks) BY DEF RInv
<1>4. Imports(queue \o a) = Imports(queue) \cup Imports(a) BY <1>3, Joined
<1> QED BY <1>1, <1>2, <1>4, HalfStep

\* What the recorder writes was queued; it removes nothing of an import confirmed.
LEMMA HalfRecorder ==
  ASSUME IInv, TInv, RInv, HInv, RecorderRuns
  PROVE  HInv'
<1>1. /\ flow' = flow /\ Imports(queue') \subseteq Imports(queue)
      /\ \A s \in Statistics : table'[s] \subseteq table[s] \cup Imports(queue)
      /\ \A s \in Statistics : s \notin Erased(queue) => table[s] \subseteq table'[s]
  BY RecorderWrites
<1>2. stopping' = stopping BY DEF RecorderRuns
<1>3. ASSUME NEW f \in Flows PROVE LeftOK(f, flow[f], queue', table', stopping)
  <2>1. LeftOK(f, flow[f], queue, table, stopping) /\ FlowR(f, flow[f], queue)
    BY Known DEF HInv
  <2>2. Calm(flow[f], stopping) => Absent(f, queue', table')
    BY <1>1, <2>1 DEF LeftOK, Absent
  <2>3. ASSUME Wrote(flow[f]) PROVE \A s \in Statistics : <<f, flow[f].attempts>> \in table'[s]
    <3>1. Erased(queue) = {} BY <2>1, <2>3 DEF FlowR, Wrote, Shown, Running
    <3> QED BY <1>1, <2>1, <2>3, <3>1 DEF LeftOK
  <2> QED BY <2>2, <2>3 DEF LeftOK
<1>4. \A f \in Flows : LeftOK(f, flow[f], queue, table, stopping)'
                       <=> LeftOK(f, flow[f], queue', table', stopping)
  BY <1>1, <1>2 DEF LeftOK, Calm, Wrote, Quiet, Sent, Shown, CreatedBy, Absent, Imports
<1> QED BY <1>3, <1>4 DEF HInv

LEMMA HalfStutter ==
  ASSUME HInv, UNCHANGED <<table, queue, flow, stopping>>
  PROVE  HInv'
<1>1. Imports(queue') = Imports(queue) OBVIOUS
<1> QED BY <1>1, HalfStep

LEMMA HalfSteps == IInv /\ TInv /\ RInv /\ HInv /\ [Next]_vars => HInv'
<1> SUFFICES ASSUME IInv, TInv, RInv, HInv, [Next]_vars PROVE HInv' OBVIOUS
<1>1. CASE UNCHANGED vars BY <1>1, HalfStutter DEF vars
<1>2. CASE Stop BY <1>2, HalfStop
<1>3. CASE Restart BY <1>3, HalfRestart
<1>4. CASE RecorderRuns BY <1>4, HalfRecorder
<1>5. CASE UpdateBegins \/ UpdateWaits \/ UpdateGivesUp \/ UpdateReads \/ UpdateImports
  BY <1>5, HalfUpdate
<1>6. CASE \E f \in Flows : Step(f)
  <2> SUFFICES ASSUME NEW f \in Flows, Step(f) PROVE HInv' BY <1>6
  <2>1. CASE SubmitEmail(f) BY <2>1, HalfEmail
  <2>2. CASE StartAttempt(f) BY <2>2, HalfStart
  <2>3. CASE \/ OpenDialog(f) \/ SubmitCode(f) \/ SubmitAccounts(f) \/ SubmitDiscovery(f)
             \/ SubmitFailed(f) \/ SubmitLast(f) \/ SubmitAgain(f) \/ AnswerRepeat(f)
    BY <2>3, HalfSubmission
  <2>4. CASE \/ CodeSent(f) \/ CodeChecked(f) \/ AccountsFound(f) \/ PassEnds(f)
             \/ WaitTimesOut(f)
    BY <2>4, HalfAnswer
  <2>5. CASE \/ FetchFails(f) \/ QueueImport(f) \/ ImportConfirmed(f) \/ ConfirmAgain(f)
             \/ ImportUnconfirmed(f) \/ AttemptSucceeds(f) \/ RollbackEnds(f)
    BY <2>5, HalfAttempt
  <2>6. CASE \/ ShowFailure(f) \/ Finish(f) \/ FinishWithout(f) \/ EntryAdded(f)
             \/ CloseDialog(f)
    BY <2>6, HalfEnd
  <2> QED BY <2>1, <2>2, <2>3, <2>4, <2>5, <2>6 DEF Step
<1> QED BY <1>1, <1>2, <1>3, <1>4, <1>5, <1>6 DEF Next

LEMMA HalfFirst == Init => HInv
<1> SUFFICES ASSUME Init PROVE HInv OBVIOUS
<1>1. /\ queue = <<>> /\ \A f \in Flows : flow[f] = NewFlow
      /\ \A s \in Statistics : table[s] \subseteq {History}
  BY DEF Init
<1>2. Imports(queue) = {}
  <2>1. <<>> \in Seq(Tasks) OBVIOUS
  <2> QED BY <1>1, <2>1, Nothing
<1>3. \A f \in Flows : Absent(f, queue, table)
  BY <1>1, <1>2 DEF Absent, History
<1>4. \A f \in Flows : ~ Wrote(flow[f])
  BY <1>1 DEF Wrote, Shown, NewFlow
<1> QED BY <1>3, <1>4 DEF HInv, LeftOK

\* An entry created while one statistic of the two holds an hour of a failed or
\* cancelled attempt remembers that, for its first update to import the unit
\* again; whatever dialogs, attempts, stops, late and repeated imports there are
\* (_flow_unconfirmed_units, _async_import_history, async_step_finish).
THEOREM HalfSavedKnown == Spec => HalfSavedIsKnown
<1> DEFINE All == IInv /\ TInv /\ RInv /\ HInv
<1>1. Init => All BY InitHolds, TriedFirst, RowsFirst, HalfFirst
<1>2. All /\ [Next]_vars => All' BY StepHolds, TriedSteps, RowsSteps, HalfSteps
<1>3. All /\ [Next]_vars =>
        [entries' > entries => (HalfSaved(entry'.by) => entry'.unconfirmed)]_vars
  <2> SUFFICES ASSUME IInv, TInv, RInv, HInv, Next, entries' > entries
               PROVE  HalfSaved(entry'.by) => entry'.unconfirmed
    OBVIOUS
  <2>1. PICK f \in Flows : Finish(f) \/ (FinishWithout(f) /\ ~ NotReady(f))
    <3>1. entries \in {0, 1} BY DEF IInv
    <3>2. entries' # entries BY <3>1
    <3>3. ~ (\/ RecorderRuns \/ UpdateBegins \/ UpdateWaits \/ UpdateGivesUp \/ UpdateReads
             \/ UpdateImports \/ Stop \/ Restart)
      BY <3>2 DEF RecorderRuns, UpdateBegins, UpdateWaits, UpdateGivesUp, UpdateReads,
                  UpdateImports, Stop, Restart
    <3>4. PICK f \in Flows : Step(f) BY <3>3 DEF Next
    <3>5. Finish(f) \/ FinishWithout(f)
      BY <3>2, <3>4 DEF Step, OpenDialog, SubmitEmail, SubmitCode, SubmitAccounts,
           SubmitDiscovery, SubmitFailed, SubmitLast, SubmitAgain, AnswerRepeat, CodeSent,
           CodeChecked, AccountsFound, PassEnds, WaitTimesOut, StartAttempt, FetchFails,
           QueueImport, ImportConfirmed, ConfirmAgain, ImportUnconfirmed, AttemptSucceeds,
           RollbackEnds, ShowFailure, EntryAdded, CloseDialog, NotReady, Only
    <3>6. ~ NotReady(f) BY <3>2 DEF NotReady, Only
    <3> QED BY <3>5, <3>6
  <2> DEFINE fl == flow[f]
  <2>2. /\ fl \in FlowRecord /\ fl.attempts \in Nat /\ Tried(fl)
        /\ LeftOK(f, fl, queue, table, stopping)
    BY Known DEF HInv
  <2>3. CASE Finish(f)
    <3>1. entry'.by = f BY <2>3 DEF Finish, CreateEntry
    <3>2. \A s \in Statistics : <<f, fl.attempts>> \in table[s]
      BY <2>2, <2>3 DEF Finish, LeftOK, Wrote
    <3>3. ASSUME NEW k \in 1 .. fl.attempts, \E s \in Statistics : <<f, k>> \notin table[s]
          PROVE  ~ \A j \in k + 1 .. fl.attempts : \E s \in Statistics : <<f, j>> \notin table[s]
      <4>1. k # fl.attempts BY <3>2, <3>3
      <4>2. fl.attempts \in k + 1 .. fl.attempts BY <2>2, <4>1
      <4> QED BY <3>2, <4>2
    <3>4. ~ HalfSaved(f) BY <3>3 DEF HalfSaved
    <3> QED BY <3>1, <3>4
  <2>4. CASE FinishWithout(f) /\ ~ NotReady(f)
    <3>1. Ready(fl) /\ ~ Stops(fl) /\ CreateEntry(f, Settled(fl))
      BY <2>4 DEF FinishWithout
    <3>2. fl.sub # None /\ fl.sub.goal = "entry" /\ fl.step # "gone" /\ ~ stopping
      BY <2>4, <3>1 DEF FinishWithout, Waited, Handling, Stops
    <3>3. fl.task = None /\ ~ (fl.imported > 0) BY <3>2, WaitsHolds
    <3>4. entry'.by = f /\ entry'.unconfirmed = Settled(fl).unconfirmed
      BY <3>1 DEF CreateEntry
    <3>5. CASE CreatedBy(fl) = Statistics
      <4>1. \A s \in Statistics : table[s] = {} BY <3>1, <3>2, <3>5 DEF Ready
      <4>2. ~ HalfSaved(f) BY <4>1 DEF HalfSaved
      <4> QED BY <3>4, <4>2
    <3>6. CASE CreatedBy(fl) # Statistics
      <4>1. Settled(fl) = fl BY <3>2, <3>6 DEF Settled
      <4>2. CASE fl.unconfirmed BY <3>4, <4>1, <4>2
      <4>3. CASE ~ fl.unconfirmed
        <5>1. Quiet(fl) BY <3>2, <3>3, <3>6, <4>3 DEF Quiet, Sent
        <5>2. Absent(f, queue, table) BY <2>2, <3>2, <5>1 DEF LeftOK, Calm
        <5>3. \A k \in 1 .. fl.attempts : k \in Nat \ {0} BY <2>2
        <5>4. ~ HalfSaved(f) BY <5>2, <5>3 DEF HalfSaved, Absent
        <5> QED BY <3>4, <5>4
      <4> QED BY <4>2, <4>3
    <3> QED BY <3>5, <3>6
  <2> QED BY <2>1, <2>3, <2>4
<1> QED BY <1>1, <1>2, <1>3, PTL DEF Spec, HalfSavedIsKnown
-------------------------------------------------------------------------------
(***************************************************************************)
(* Which imports of attempts are queued: those a removal of a statistic    *)
(* stands behind, and those a wait does not stand behind.                  *)
(***************************************************************************)
Import(task) == task.kind = "import" /\ task.by # Entry

Pending(q) == \E i \in DOMAIN q : Import(q[i])

\* Some import is queued behind every task of a wait.
Late(q, by) ==
  \E i \in DOMAIN q : /\ Import(q[i])
                      /\ \A j \in DOMAIN q : q[j].kind = "removal" /\ q[j].by = by => j < i

\* An attempt has left nothing in a statistic, nor will it.
Absence(q, t, by, s) == by \notin t[s] /\ by \notin Imports(q)

\* What an attempt left in a statistic, and will, is removed.
Doomed(q, by, s) ==
  \E j \in DOMAIN q : /\ q[j].kind = "removal" /\ s \in q[j].statistics
                      /\ \A i \in DOMAIN q : q[i].kind = "import" /\ q[i].by = by => i < j

\* The places of a queue without its oldest task.
LEMMA TailPlaces ==
  ASSUME NEW q \in Seq(Tasks), q # <<>>
  PROVE  /\ Tail(q) \in Seq(Tasks) /\ Head(q) = q[1] /\ 1 \in DOMAIN q /\ Head(q) \in Tasks
         /\ DOMAIN q \subseteq Nat /\ DOMAIN Tail(q) \subseteq Nat
         /\ \A k \in DOMAIN Tail(q) : k + 1 \in DOMAIN q /\ Tail(q)[k] = q[k + 1]
         /\ \A k \in DOMAIN q : k # 1 => k - 1 \in DOMAIN Tail(q) /\ Tail(q)[k - 1] = q[k]
<1> DEFINE t == Tail(q)
<1>1. /\ t \in Seq(Tasks) /\ Head(q) \in Tasks /\ Head(q) = q[1]
      /\ Len(q) \in Nat \ {0} /\ DOMAIN q = 1 .. Len(q) /\ DOMAIN t = 1 .. Len(q) - 1
  BY HeadTailProperties, EmptySeq
<1>2. \A k \in DOMAIN t : k + 1 \in DOMAIN q /\ t[k] = q[k + 1]
  BY <1>1, HeadTailProperties
<1> HIDE DEF t
<1>3. ASSUME NEW k \in DOMAIN q, k # 1
      PROVE  k - 1 \in DOMAIN t /\ t[k - 1] = q[k]
  <2>1. k - 1 \in DOMAIN t /\ (k - 1) + 1 = k BY <1>1, <1>3
  <2> QED BY <1>2, <2>1
<1>4. 1 \in DOMAIN q /\ DOMAIN q \subseteq Nat /\ DOMAIN t \subseteq Nat BY <1>1
<1> QED BY <1>1, <1>2, <1>3, <1>4 DEF t

\* The recorder is done with its oldest task.
LEMMA TailImports ==
  ASSUME NEW q \in Seq(Tasks), q # <<>>
  PROVE  /\ Pending(Tail(q)) => Pending(q)
         /\ \A by : Late(Tail(q), by) => Late(q, by)
<1> DEFINE t == Tail(q)
<1>1. /\ \A k \in DOMAIN t : k + 1 \in DOMAIN q /\ t[k] = q[k + 1]
      /\ \A k \in DOMAIN q : k # 1 => k - 1 \in DOMAIN t /\ t[k - 1] = q[k]
      /\ DOMAIN q \subseteq Nat /\ DOMAIN t \subseteq Nat
  BY TailPlaces
<1> HIDE DEF t
<1>2. Pending(t) => Pending(q) BY <1>1 DEF Pending
<1>3. ASSUME NEW by, Late(t, by) PROVE Late(q, by)
  <2>1. PICK i \in DOMAIN t :
          /\ Import(t[i])
          /\ \A j \in DOMAIN t : t[j].kind = "removal" /\ t[j].by = by => j < i
    BY <1>3 DEF Late
  <2>2. ASSUME NEW j \in DOMAIN q, q[j].kind = "removal", q[j].by = by
        PROVE  j < i + 1
    <3>1. i \in Nat /\ j \in Nat BY <1>1
    <3>2. CASE j = 1
      <4>1. i + 1 \in DOMAIN q /\ Import(q[i + 1]) BY <1>1, <2>1
      <4>2. i # 0
        <5> SUFFICES ASSUME i = 0 PROVE FALSE OBVIOUS
        <5>1. Import(q[1]) BY <4>1
        <5> QED BY <2>2, <3>2, <5>1 DEF Import
      <4> QED BY <3>1, <3>2, <4>2
    <3>3. CASE j # 1
      <4>1. j - 1 < i BY <1>1, <2>1, <2>2, <3>3
      <4> QED BY <3>1, <4>1
    <3> QED BY <3>2, <3>3
  <2> QED BY <1>1, <2>1, <2>2 DEF Late
<1> QED BY <1>2, <1>3 DEF t

\* What is queued without an import of an attempt.
LEMMA JoinedImports ==
  ASSUME NEW q \in Seq(Tasks), NEW a \in Seq(Tasks), ~ Pending(a)
  PROVE  /\ Pending(q \o a) => Pending(q)
         /\ \A by : Late(q \o a, by) => Late(q, by)
<1> DEFINE both == q \o a
<1>1. /\ \A k \in DOMAIN q : k \in DOMAIN both /\ both[k] = q[k]
      /\ \A k \in DOMAIN a : both[Len(q) + k] = a[k]
      /\ \A k \in DOMAIN both : k \in DOMAIN q \/ \E i \in DOMAIN a : k = Len(q) + i
  BY Places
<1> HIDE DEF both
<1>2. \A k \in DOMAIN both : Import(both[k]) => k \in DOMAIN q /\ Import(q[k])
  <2> SUFFICES ASSUME NEW k \in DOMAIN both, Import(both[k])
               PROVE  k \in DOMAIN q /\ Import(q[k])
    OBVIOUS
  <2>1. CASE k \in DOMAIN q
    <3>1. both[k] = q[k] BY <1>1, <2>1
    <3> QED BY <2>1, <3>1
  <2>2. CASE \E i \in DOMAIN a : k = Len(q) + i
    <3>1. PICK i \in DOMAIN a : k = Len(q) + i BY <2>2
    <3>2. both[k] = a[i] BY <1>1, <3>1
    <3>3. Import(a[i]) BY <3>2
    <3> QED BY <3>3 DEF Pending
  <2> QED BY <1>1, <2>1, <2>2
<1>3. Pending(both) => Pending(q) BY <1>2 DEF Pending
<1>4. \A by : Late(both, by) => Late(q, by) BY <1>1, <1>2 DEF Late
<1> QED BY <1>3, <1>4 DEF both

\* A wait's task queued last stands behind all there is.
LEMMA NoneLate ==
  ASSUME NEW q \in Seq(Tasks), NEW by \in Waiters, NEW statistics \in SUBSET Statistics
  PROVE  /\ ~ Late(Append(q, Removal(by, statistics)), by)
         /\ Pending(Append(q, Removal(by, statistics))) => Pending(q)
<1> DEFINE a == <<Removal(by, statistics)>>
<1>1. Removal(by, statistics) \in Tasks BY DEF Removal, Tasks
<1>2. a \in Seq(Tasks) /\ DOMAIN a = {1} /\ a[1] = Removal(by, statistics) BY <1>1
<1>3. Append(q, Removal(by, statistics)) = q \o a BY <1>1, AppendIsConcat
<1>4. Removal(by, statistics).kind = "removal" /\ Removal(by, statistics).by = by
  BY DEF Removal
<1> HIDE DEF a
<1>5. ~ Pending(a) BY <1>2, <1>4 DEF Pending, Import
<1>6. Pending(q \o a) => Pending(q) BY <1>2, <1>5, JoinedImports
<1>7. ~ Late(q \o a, by)
  <2> DEFINE both == q \o a
  <2>1. /\ Len(q) + 1 \in DOMAIN both /\ both[Len(q) + 1] = a[1]
        /\ \A k \in DOMAIN both : k \in DOMAIN q \/ k = Len(q) + 1
    BY <1>2, Places
  <2>2. DOMAIN q = 1 .. Len(q) /\ Len(q) \in Nat OBVIOUS
  <2>3. \A i \in DOMAIN both : ~ (Len(q) + 1 < i) BY <2>1, <2>2
  <2> HIDE DEF both
  <2>4. ~ Late(both, by) BY <1>2, <1>4, <2>1, <2>3 DEF Late
  <2> QED BY <2>4 DEF both
<1> QED BY <1>3, <1>6, <1>7

\* A wait whose tasks have all run stands behind no import.
LEMMA AllLate ==
  ASSUME NEW by, ~ Waiting(by), Pending(queue)
  PROVE  Late(queue, by)
BY DEF Waiting, Pending, Late

\* A queue that grew by nothing of an attempt.
LEMMA StaysLeft ==
  ASSUME NEW q \in Seq(Tasks), NEW a \in Seq(Tasks), NEW by \in Authors, by \notin Imports(a)
  PROVE  /\ \A t : \A s \in Statistics : Absence(q, t, by, s) => Absence(q \o a, t, by, s)
         /\ \A s \in Statistics : Doomed(q, by, s) => Doomed(q \o a, by, s)
<1> DEFINE both == q \o a
<1>1. /\ \A k \in DOMAIN q : k \in DOMAIN both /\ both[k] = q[k]
      /\ \A k \in DOMAIN a : both[Len(q) + k] = a[k]
      /\ \A k \in DOMAIN both : k \in DOMAIN q \/ \E i \in DOMAIN a : k = Len(q) + i
  BY Places
<1>2. Imports(both) = Imports(q) \cup Imports(a) BY Joined
<1> HIDE DEF both
<1>3. ASSUME NEW k \in DOMAIN both, both[k].kind = "import", both[k].by = by
      PROVE  k \in DOMAIN q /\ q[k].kind = "import" /\ q[k].by = by
  <2>1. CASE k \in DOMAIN q
    <3>1. both[k] = q[k] BY <1>1, <2>1
    <3> QED BY <1>3, <2>1, <3>1
  <2>2. CASE \E i \in DOMAIN a : k = Len(q) + i
    <3>1. PICK i \in DOMAIN a : k = Len(q) + i BY <2>2
    <3>2. both[k] = a[i] BY <1>1, <3>1
    <3>3. a[i].kind = "import" /\ a[i].by = by BY <1>3, <3>2
    <3> QED BY <3>3 DEF Imports
  <2> QED BY <1>1, <2>1, <2>2
<1>4. ASSUME NEW s \in Statistics, Doomed(q, by, s) PROVE Doomed(both, by, s)
  <2>1. PICK j \in DOMAIN q :
          /\ q[j].kind = "removal" /\ s \in q[j].statistics
          /\ \A i \in DOMAIN q : q[i].kind = "import" /\ q[i].by = by => i < j
    BY <1>4 DEF Doomed
  <2>2. j \in DOMAIN both /\ both[j] = q[j] BY <1>1
  <2>3. \A i \in DOMAIN both : both[i].kind = "import" /\ both[i].by = by => i < j
    BY <1>3, <2>1
  <2> QED BY <2>1, <2>2, <2>3 DEF Doomed
<1>5. \A t : \A s \in Statistics : Absence(q, t, by, s) => Absence(both, t, by, s)
  BY <1>2 DEF Absence
<1> QED BY <1>4, <1>5 DEF both

\* What is removed behind a queue is removed of all that is in it.
LEMMA DoomedBehind ==
  ASSUME NEW q \in Seq(Tasks), NEW a \in Seq(Tasks), NEW by \in Authors, by \notin Imports(a),
         NEW s \in Erased(a)
  PROVE  Doomed(q \o a, by, s)
<1> DEFINE both == q \o a
<1>1. /\ \A k \in DOMAIN a : Len(q) + k \in DOMAIN both /\ both[Len(q) + k] = a[k]
      /\ \A k \in DOMAIN both : k \in DOMAIN q \/ \E i \in DOMAIN a : k = Len(q) + i
  BY Places
<1>2. /\ DOMAIN q = 1 .. Len(q) /\ Len(q) \in Nat
      /\ DOMAIN a = 1 .. Len(a) /\ Len(a) \in Nat
  OBVIOUS
<1>3. PICK j \in DOMAIN a : a[j].kind = "removal" /\ s \in a[j].statistics
  BY DEF Erased
<1> HIDE DEF both
<1>4. ASSUME NEW i \in DOMAIN both, both[i].kind = "import", both[i].by = by
      PROVE  i < Len(q) + j
  <2>1. CASE i \in DOMAIN q BY <1>2, <2>1
  <2>2. CASE \E k \in DOMAIN a : i = Len(q) + k
    <3>1. PICK k \in DOMAIN a : i = Len(q) + k BY <2>2
    <3>2. both[i] = a[k] BY <1>1, <3>1
    <3>3. a[k].kind = "import" /\ a[k].by = by BY <1>4, <3>2
    <3> QED BY <3>3 DEF Imports
  <2> QED BY <1>1, <2>1, <2>2
<1>5. Len(q) + j \in DOMAIN both /\ both[Len(q) + j] = a[j] BY <1>1
<1>6. Doomed(both, by, s) BY <1>3, <1>4, <1>5 DEF Doomed
<1> QED BY <1>6 DEF both

\* Once the oldest task has run, or was dropped.
LEMMA TailLeft ==
  ASSUME NEW q \in Seq(Tasks), q # <<>>, NEW by \in Authors, NEW s \in Statistics,
         Doomed(q, by, s)
  PROVE  \/ Doomed(Tail(q), by, s)
         \/ /\ Head(q).kind = "removal" /\ s \in Head(q).statistics
            /\ by \notin Imports(Tail(q))
<1> DEFINE t == Tail(q)
<1>1. /\ \A k \in DOMAIN t : k + 1 \in DOMAIN q /\ t[k] = q[k + 1]
      /\ \A k \in DOMAIN q : k # 1 => k - 1 \in DOMAIN t /\ t[k - 1] = q[k]
      /\ DOMAIN q \subseteq Nat /\ DOMAIN t \subseteq Nat /\ Head(q) = q[1]
      /\ t \in Seq(Tasks)
  BY TailPlaces
<1>2. PICK j \in DOMAIN q :
        /\ q[j].kind = "removal" /\ s \in q[j].statistics
        /\ \A i \in DOMAIN q : q[i].kind = "import" /\ q[i].by = by => i < j
  BY DEF Doomed
<1>3. DOMAIN t = 1 .. Len(t) BY <1>1
<1> HIDE DEF t
<1>4. CASE j = 1
  <2>1. ASSUME NEW k \in DOMAIN t, t[k].kind = "import", t[k].by = by PROVE FALSE
    <3>1. k + 1 < 1 /\ k \in Nat BY <1>1, <1>2, <1>4, <2>1
    <3> QED BY <3>1
  <2> QED BY <1>1, <1>2, <1>4, <2>1 DEF Imports, t
<1>5. CASE j # 1
  <2>1. j - 1 \in DOMAIN t /\ t[j - 1] = q[j] /\ j \in Nat BY <1>1, <1>5
  <2>2. ASSUME NEW i \in DOMAIN t, t[i].kind = "import", t[i].by = by PROVE i < j - 1
    <3>1. i + 1 < j /\ i \in Nat BY <1>1, <1>2, <2>2
    <3> QED BY <2>1, <3>1
  <2>3. Doomed(t, by, s) BY <1>2, <2>1, <2>2 DEF Doomed
  <2> QED BY <2>3 DEF t
<1> QED BY <1>4, <1>5
-------------------------------------------------------------------------------
(***************************************************************************)
(* What a step, but the recorder's, makes of every flow's attempts and     *)
(* waits.                                                                  *)
(***************************************************************************)
Kept(old, fl) ==
  /\ fl.existing = old.existing /\ fl.attempts = old.attempts /\ fl.imported = old.imported

\* A flow whose wait for the recorder is over.
WaitOver(f, fl) == WaitsOn(fl) /\ fl.sub.left = 0 /\ ~ Waiting(Form(f))

\* Nothing of an attempt is left in what a flow created.
Emptied(fl) == \A s \in CreatedBy(fl) : table[s] = {}

Begun(f, old, fl) ==
  /\ WaitOver(f, old) /\ Running(fl) /\ fl.attempts = old.attempts + 1
  /\ old.imported = 0 /\ fl.imported = 0 /\ ~ fl.created
  /\ old.attempts = 0 \/ (fl.existing = old.existing /\ Emptied(old))

Became(f, old, fl, a) ==
  /\ \/ Kept(old, fl) /\ (Running(fl) <=> Running(old))
     \/ Kept(old, fl) /\ ~ Running(fl) /\ CreatedBy(old) \subseteq Erased(a) /\ Imports(a) = {}
     \/ /\ Running(old) /\ ~ Running(fl) /\ old.imported = 0
        /\ fl.imported = old.attempts /\ fl.attempts = old.attempts
        /\ fl.existing = old.existing
     \/ Begun(f, old, fl)
  /\ old.created => fl.created
  /\ fl.created => \/ old.created
                   \/ Kept(old, fl) /\ old.step = "finish"
                   \/ Kept(old, fl) /\ WaitOver(f, old) /\ Emptied(old)
  /\ fl.step = "finish" => \/ fl.imported > 0
                           \/ Kept(old, fl) /\ old.step = "finish"

\* A wait goes on, or is at its next pass, or begins.
WaitsAs(f, old, fl) ==
  WaitsOn(fl) =>
    \/ WaitsOn(old) /\ fl.sub = old.sub
    \/ /\ \E statistics \in SUBSET Statistics :
            queue' = Append(queue, Removal(Form(f), statistics))
       /\ \/ WaitsOn(old) /\ ~ Waiting(Form(f)) /\ old.sub.left > 0
             /\ fl.sub.left = old.sub.left - 1
          \/ fl.sub.left \in {1, Passes - 1}

\* Only what runs queues an import.
Queued(f, fl, a) ==
  \A k \in Nat \ {0} : <<f, k>> \in Imports(a) => Running(fl) /\ k = fl.attempts

Effects ==
  /\ table' = table
  /\ \E a \in Seq(Tasks) :
       /\ queue' = queue \o a
       /\ \A f \in Flows : /\ Became(f, flow[f], flow'[f], a)
                           /\ WaitsAs(f, flow[f], flow'[f])
                           /\ Queued(f, flow[f], a)

\* A flow that does not change.
LEMMA BecameSame ==
  ASSUME NEW f, NEW fl, NEW a
  PROVE  Became(f, fl, fl, a) /\ WaitsAs(f, fl, fl)
BY DEF Became, WaitsAs, Kept

\* One flow changes.
LEMMA OneEffect ==
  ASSUME IInv, NEW f \in Flows, NEW fl, Change(f, fl), table' = table,
         NEW a \in Seq(Tasks), queue' = queue \o a,
         Became(f, flow[f], fl, a), WaitsAs(f, flow[f], fl),
         \A g \in Flows : Queued(g, flow[g], a)
  PROVE  Effects
<1>1. \A g \in Flows : flow'[g] = IF g = f THEN fl ELSE flow[g]
  BY DEF Change, IInv
<1>2. \A g \in Flows : Became(g, flow[g], flow'[g], a) /\ WaitsAs(g, flow[g], flow'[g])
  <2> SUFFICES ASSUME NEW g \in Flows
               PROVE  Became(g, flow[g], flow'[g], a) /\ WaitsAs(g, flow[g], flow'[g])
    OBVIOUS
  <2>1. CASE g = f BY <1>1, <2>1
  <2>2. CASE g # f
    <3>1. flow'[g] = flow[g] BY <1>1, <2>2
    <3> QED BY <3>1, BecameSame
  <2> QED BY <2>1, <2>2
<1> QED BY <1>2 DEF Effects

\* A flow whose attempts stay as they are.
LEMMA BecameAlike ==
  ASSUME NEW f, NEW old, NEW fl, NEW a, Alike(old, fl), fl.created = old.created
  PROVE  Became(f, old, fl, a)
BY DEF Alike, Became, Kept, Running

\* What a wait, or nothing, queues.
LEMMA AlikeEffect ==
  ASSUME IInv, TInv, RInv, NEW f \in Flows, NEW fl, Change(f, fl), table' = table,
         Alike(flow[f], fl), fl.created = flow[f].created, WaitsAs(f, flow[f], fl),
         \/ queue' = queue
         \/ \E by \in Waiters, statistics \in SUBSET Statistics :
              queue' = Append(queue, Removal(by, statistics))
  PROVE  Effects
<1>1. queue \in Seq(Tasks) BY DEF RInv
<1>2. PICK a \in Seq(Tasks) : queue' = queue \o a /\ Imports(a) = {}
  <2>1. CASE queue' = queue BY <1>1, <2>1, Nothing
  <2>2. ASSUME NEW by \in Waiters, NEW statistics \in SUBSET Statistics,
               queue' = Append(queue, Removal(by, statistics))
        PROVE  \E a \in Seq(Tasks) : queue' = queue \o a /\ Imports(a) = {}
    <3> DEFINE last == <<Removal(by, statistics)>>
    <3>1. last \in Seq(Tasks) /\ queue' = queue \o last /\ Imports(last) = {}
      BY <1>1, <2>2, QueuedLast
    <3> QED BY <3>1
  <2> QED BY <2>1, <2>2
<1>3. Became(f, flow[f], fl, a) BY BecameAlike
<1>4. \A g \in Flows : Queued(g, flow[g], a) BY <1>2 DEF Queued
<1> QED BY <1>2, <1>3, <1>4, OneEffect

\* The forms, aborts and submissions of a flow.
LEMMA SteadyForms ==
  ASSUME NEW f, NEW fl \in FlowRecord, NEW step \in Forms, NEW name
  PROVE  /\ ShowForm(fl, step).created = fl.created /\ ~ WaitsOn(ShowForm(fl, step))
         /\ AbortFlow(fl).created = fl.created /\ ~ WaitsOn(AbortFlow(fl))
         /\ Handles(fl, name).created = fl.created
         /\ name # "wait" => ~ WaitsOn(Handles(fl, name))
<1>1. /\ ShowForm(fl, step).created = fl.created /\ ShowForm(fl, step).sub = None
  BY DEF ShowForm, Ended, FlowRecord
<1>2. AbortFlow(fl).created = fl.created /\ AbortFlow(fl).sub = None
  BY DEF AbortFlow, Ended, FlowRecord
<1>3. Handles(fl, name).created = fl.created /\ Handles(fl, name).sub = [name |-> name]
  BY DEF Handles, FlowRecord
<1> QED BY <1>1, <1>2, <1>3 DEF WaitsOn

\* A form is shown, the flow aborted, or a submission handled.
LEMMA FormEffect ==
  ASSUME IInv, TInv, RInv, NEW f \in Flows, NEW fl, Change(f, fl), table' = table,
         queue' = queue,
         \/ \E step \in Forms : fl = ShowForm(flow[f], step)
         \/ fl = AbortFlow(flow[f])
         \/ \E name \in {"check", "discover"} : fl = Handles(flow[f], name)
  PROVE  Effects
<1>1. flow[f] \in FlowRecord BY Known
<1>2. Alike(flow[f], fl) /\ fl.created = flow[f].created /\ ~ WaitsOn(fl)
  <2>1. CASE \E step \in Forms : fl = ShowForm(flow[f], step)
    BY <1>1, <2>1, Alikes, SteadyForms
  <2>2. CASE fl = AbortFlow(flow[f])
    BY <1>1, <2>2, Alikes, SteadyForms DEF Forms
  <2>3. CASE \E name \in {"check", "discover"} : fl = Handles(flow[f], name)
    <3>1. PICK name \in {"check", "discover"} : fl = Handles(flow[f], name) BY <2>3
    <3>2. Alike(flow[f], fl) BY <1>1, <3>1, Alikes DEF Handles, Forms
    <3> QED BY <1>1, <3>1, <3>2, SteadyForms DEF Forms
  <2> QED BY <2>1, <2>2, <2>3
<1>3. WaitsAs(f, flow[f], fl) BY <1>2 DEF WaitsAs
<1> QED BY <1>2, <1>3, AlikeEffect

\* A wait begins.
LEMMA WaitEffect ==
  ASSUME IInv, TInv, RInv, NEW f \in Flows, NEW fl \in FlowRecord, Alike(flow[f], fl),
         fl.created = flow[f].created, NEW goal, NEW left \in {1, Passes - 1},
         Change(f, Waits(fl, goal, left)), NEW statistics \in SUBSET Statistics,
         queue' = Append(queue, Removal(Form(f), statistics)), table' = table
  PROVE  Effects
<1>1. PICK new : new = Waits(fl, goal, left) OBVIOUS
<1>2. /\ Alike(fl, new) /\ new.created = fl.created
      /\ new.sub = [name |-> "wait", goal |-> goal, left |-> left]
  <2>1. Alike(fl, new) BY <1>1, Alikes DEF Waits, Forms
  <2> QED BY <1>1, <2>1 DEF Waits, FlowRecord
<1>3. Alike(flow[f], new) /\ new.created = flow[f].created BY <1>2 DEF Alike
<1>4. WaitsAs(f, flow[f], new) BY <1>2 DEF WaitsAs
<1>5. Form(f) \in Waiters BY Known
<1> QED BY <1>1, <1>3, <1>4, <1>5, AlikeEffect

LEMMA SubmissionEffect ==
  ASSUME IInv, TInv, RInv, NEW f \in Flows,
         \/ OpenDialog(f) \/ SubmitCode(f) \/ SubmitAccounts(f)
         \/ SubmitDiscovery(f) \/ SubmitFailed(f) \/ SubmitLast(f)
         \/ SubmitAgain(f) \/ AnswerRepeat(f)
  PROVE  Effects
<1> DEFINE fl == flow[f]
<1>1. fl \in FlowRecord /\ FlowOK(fl, entries, stopping) BY Known
<1>2. table' = table
  BY DEF OpenDialog, SubmitCode, SubmitAccounts, SubmitDiscovery, SubmitFailed, SubmitLast,
         SubmitAgain, AnswerRepeat, Only
<1>3. Alike(fl, fl) BY <1>1, Alikes DEF Forms
<1>4. ASSUME Prepares(f, fl) PROVE Effects
  <2>1. {} \in SUBSET Statistics OBVIOUS
  <2> QED BY <1>1, <1>2, <1>3, <1>4, <2>1, WaitEffect DEF Prepares, Barrier
<1>5. ASSUME NEW goal, RollsBack(f, fl, goal) PROVE Effects
  <2>1. {} \in SUBSET Statistics /\ CreatedBy(fl) \in SUBSET Statistics BY DEF CreatedBy
  <2>2. PICK left \in {1, Passes - 1} : Change(f, Waits(fl, goal, left))
    BY <1>5 DEF RollsBack
  <2>3. PICK statistics \in SUBSET Statistics :
          queue' = Append(queue, Removal(Form(f), statistics))
    BY <1>5, <2>1 DEF RollsBack, Barrier
  <2> QED BY <1>1, <1>2, <1>3, <2>2, <2>3, WaitEffect
<1>6. CASE OpenDialog(f)
  <2> DEFINE new == [fl EXCEPT !.step = "user", !.own = TRUE]
  <2>1. Change(f, new) /\ queue' = queue /\ fl.step = "none" /\ fl.sub = None
    BY <1>1, <1>6 DEF OpenDialog, Only, FlowOK
  <2>2. Alike(fl, new) /\ new.created = fl.created /\ new.sub = fl.sub
    BY <1>1, <2>1 DEF Alike, FlowRecord
  <2> HIDE DEF new
  <2>3. WaitsAs(f, fl, new) BY <2>1, <2>2 DEF WaitsAs, WaitsOn
  <2> QED BY <1>2, <2>1, <2>2, <2>3, AlikeEffect
<1>7. CASE SubmitCode(f)
  BY <1>2, <1>7, FormEffect DEF SubmitCode, Only
<1>8. CASE SubmitAccounts(f) BY <1>4, <1>8 DEF SubmitAccounts
<1>9. CASE SubmitDiscovery(f)
  <2>1. CASE Prepares(f, fl) BY <1>4, <2>1
  <2>2. CASE Change(f, Handles(fl, "discover")) /\ UNCHANGED queue
    BY <1>2, <2>2, FormEffect
  <2> QED BY <1>9, <2>1, <2>2 DEF SubmitDiscovery
<1>10. CASE SubmitFailed(f) BY <1>5, <1>10 DEF SubmitFailed
<1>11. CASE SubmitLast(f)
  <2>1. CASE Change(f, AbortFlow(fl)) /\ UNCHANGED queue BY <1>2, <2>1, FormEffect
  <2>2. CASE RollsBack(f, fl, "entry") BY <1>5, <2>2
  <2> QED BY <1>11, <2>1, <2>2 DEF SubmitLast
<1>12. CASE SubmitAgain(f) \/ AnswerRepeat(f)
  <2>1. PICK repeats \in {0, 1} : Change(f, [fl EXCEPT !.repeats = repeats]) /\ UNCHANGED queue
    BY <1>12 DEF SubmitAgain, AnswerRepeat, RepeatAnswer
  <2> DEFINE new == [fl EXCEPT !.repeats = repeats]
  <2>2. Alike(fl, new) BY <1>1, Alikes DEF Forms
  <2>3. new.created = fl.created /\ new.sub = fl.sub /\ new.step = fl.step
    BY <1>1 DEF FlowRecord
  <2> HIDE DEF new
  <2>4. WaitsAs(f, fl, new) BY <2>3 DEF WaitsAs, WaitsOn
  <2> QED BY <1>2, <2>1, <2>2, <2>3, <2>4, AlikeEffect DEF new
<1> QED BY <1>6, <1>7, <1>8, <1>9, <1>10, <1>11, <1>12

LEMMA EmailEffect ==
  ASSUME IInv, TInv, RInv, NEW f \in Flows, SubmitEmail(f)
  PROVE  Effects
<1>1. UNCHANGED <<table, queue>> BY DEF SubmitEmail
<1>2. queue \in Seq(Tasks) BY DEF RInv
<1>3. PICK a \in Seq(Tasks) : queue' = queue \o a /\ Imports(a) = {} BY <1>1, <1>2, Nothing
<1>4. ASSUME NEW g \in Flows
      PROVE  Became(g, flow[g], flow'[g], a) /\ WaitsAs(g, flow[g], flow'[g])
  <2> DEFINE named == [flow[f] EXCEPT !.named = TRUE]
             refused == entry # None \/ Importers(f) # {}
             next(h) == IF h = f
                        THEN IF refused THEN AbortFlow(flow[f]) ELSE Handles(named, "send")
                        ELSE IF entry = None /\ flow[h].named /\ flow[h].step \in Parked
                             THEN [flow[h] EXCEPT !.step = "gone"]
                             ELSE flow[h]
  <2>1. flow' = [h \in Flows |-> next(h)] BY DEF SubmitEmail
  <2>2. flow'[g] = next(g) BY <2>1
  <2>3. flow[g] \in FlowRecord /\ flow[f] \in FlowRecord BY Known
  <2>4. ASSUME NEW new, Alike(flow[g], new), new.created = flow[g].created,
               ~ WaitsOn(new) \/ new = flow[g]
        PROVE  Became(g, flow[g], new, a) /\ WaitsAs(g, flow[g], new)
    BY <2>4, BecameAlike DEF WaitsAs
  <2>5. Alike(flow[g], flow[g]) BY <2>3, Alikes DEF Forms
  <2>6. LET new == AbortFlow(flow[g])
        IN  Alike(flow[g], new) /\ new.created = flow[g].created /\ ~ WaitsOn(new)
    BY <2>3, Alikes, SteadyForms DEF Forms
  <2>7. LET new == [flow[g] EXCEPT !.step = "gone"]
        IN  Alike(flow[g], new) /\ new.created = flow[g].created /\ ~ WaitsOn(new)
    <3>1. Alike(flow[g], [flow[g] EXCEPT !.step = "gone"]) BY <2>3, Alikes DEF Forms
    <3> QED BY <2>3, <3>1 DEF WaitsOn, FlowRecord
  <2>8. LET new == Handles(named, "send")
        IN  Alike(flow[f], new) /\ new.created = flow[f].created /\ ~ WaitsOn(new)
    BY <2>3 DEF Alike, Handles, WaitsOn, FlowRecord
  <2> QED BY <2>2, <2>4, <2>5, <2>6, <2>7, <2>8
<1>5. \A g \in Flows : Queued(g, flow[g], a) BY <1>3 DEF Queued
<1> QED BY <1>1, <1>3, <1>4, <1>5 DEF Effects

LEMMA AnswerEffect ==
  ASSUME IInv, TInv, RInv, NEW f \in Flows,
         \/ CodeSent(f) \/ CodeChecked(f) \/ AccountsFound(f) \/ PassEnds(f)
         \/ WaitTimesOut(f)
         \/ /\ NotReady(f)
            /\ flow[f].sub # None
  PROVE  Effects
<1> DEFINE fl == flow[f]
<1>1. fl \in FlowRecord /\ FlowOK(fl, entries, stopping) BY Known
<1>2. table' = table /\ fl.sub # None
  BY DEF CodeSent, CodeChecked, AccountsFound, PassEnds, WaitTimesOut, NotReady, Only, Handling
<1>3. fl.step \in Forms \cup {"gone"} BY <1>1, <1>2 DEF FlowOK
<1>4. CASE CodeSent(f)
  <2>1. UNCHANGED queue /\ \E step \in Forms : Change(f, ShowForm(fl, step))
    BY <1>4 DEF CodeSent, Only, Forms
  <2> QED BY <1>2, <2>1, FormEffect
<1>5. CASE CodeChecked(f)
  BY <1>2, <1>5, FormEffect DEF CodeChecked, Only, Forms
<1>6. CASE AccountsFound(f)
  <2> DEFINE one == [fl EXCEPT !.accounts = 1]
             two == [fl EXCEPT !.accounts = 2]
  <2>1. \/ UNCHANGED queue /\ Change(f, ShowForm(fl, "discovery_retry"))
        \/ UNCHANGED queue /\ Change(f, AbortFlow(fl))
        \/ Prepares(f, one)
        \/ UNCHANGED queue /\ Change(f, ShowForm(two, "accounts"))
    BY <1>6 DEF AccountsFound
  <2>2. CASE UNCHANGED queue /\ Change(f, ShowForm(fl, "discovery_retry"))
    BY <1>2, <2>2, FormEffect DEF Forms
  <2>3. CASE UNCHANGED queue /\ Change(f, AbortFlow(fl))
    BY <1>2, <2>3, FormEffect
  <2>4. /\ Alike(fl, one) /\ Alike(fl, two) /\ one \in FlowRecord /\ two \in FlowRecord
        /\ one.created = fl.created /\ two.created = fl.created
    <3>1. 1 \in 0 .. 2 /\ 2 \in 0 .. 2 OBVIOUS
    <3>2. Alike(fl, one) /\ Alike(fl, two) BY <1>1, Alikes DEF Forms
    <3> QED BY <1>1, <3>1, <3>2 DEF FlowRecord
  <2> HIDE DEF one, two
  <2>5. CASE Prepares(f, one)
    <3>1. {} \in SUBSET Statistics OBVIOUS
    <3> QED BY <1>2, <2>4, <2>5, <3>1, WaitEffect DEF Prepares, Barrier
  <2>6. CASE UNCHANGED queue /\ Change(f, ShowForm(two, "accounts"))
    <3>1. PICK new : new = ShowForm(two, "accounts") OBVIOUS
    <3>2. Alike(two, new) BY <2>4, <3>1, Alikes DEF Forms
    <3>3. new.created = two.created /\ ~ WaitsOn(new)
      BY <2>4, <3>1, SteadyForms DEF Forms
    <3>4. Alike(fl, new) BY <2>4, <3>2 DEF Alike
    <3>5. WaitsAs(f, fl, new) BY <3>3 DEF WaitsAs
    <3> QED BY <1>2, <2>4, <2>6, <3>1, <3>3, <3>4, <3>5, AlikeEffect
  <2> QED BY <2>1, <2>2, <2>3, <2>5, <2>6
<1>7. CASE PassEnds(f)
  <2> DEFINE new == [fl EXCEPT !.sub.left = @ - 1]
  <2>1. /\ Change(f, new) /\ queue' = Append(queue, Removal(Form(f), {}))
        /\ fl.sub.name = "wait" /\ ~ Waiting(Form(f)) /\ fl.sub.left > 0
    BY <1>7 DEF PassEnds, Barrier, Handling
  <2>2. /\ Alike(fl, new) /\ new.created = fl.created /\ new.step = fl.step
        /\ new.sub = [fl.sub EXCEPT !.left = @ - 1]
    BY <1>1 DEF Alike, FlowRecord
  <2>3. new.sub.left = fl.sub.left - 1
    <3>1. fl.sub \in [name : {"wait"}, goal : {"first", "retry", "entry"}, left : Nat]
      BY <1>1, <1>2, <2>1 DEF FlowRecord, Submissions
    <3> QED BY <2>2, <3>1
  <2>4. Form(f) \in Waiters /\ {} \in SUBSET Statistics BY Known
  <2> HIDE DEF new
  <2>5. WaitsAs(f, fl, new) BY <1>2, <2>1, <2>2, <2>3, <2>4 DEF WaitsAs, WaitsOn
  <2> QED BY <1>2, <2>1, <2>2, <2>4, <2>5, AlikeEffect
<1>8. ASSUME Change(f, GivesUp(fl)), UNCHANGED queue
      PROVE  Effects
  <2>1. CASE Stops(fl) BY <1>2, <1>8, <2>1, FormEffect DEF GivesUp
  <2>2. CASE ~ Stops(fl)
    <3>1. FormOf(fl) \in Forms BY <1>3, <2>2 DEF FormOf, Forms, Stops
    <3> QED BY <1>2, <1>8, <2>2, <3>1, FormEffect DEF GivesUp
  <2> QED BY <2>1, <2>2
<1>9. CASE WaitTimesOut(f) BY <1>8, <1>9 DEF WaitTimesOut
<1>10. CASE NotReady(f) BY <1>8, <1>10 DEF NotReady, Only
<1> QED BY <1>4, <1>5, <1>6, <1>7, <1>9, <1>10

\* An attempt starts.
LEMMA StartEffect ==
  ASSUME IInv, TInv, RInv, NEW f \in Flows, StartAttempt(f)
  PROVE  Effects
<1> DEFINE fl == flow[f]
<1>1. /\ fl \in FlowRecord /\ FlowOK(fl, entries, stopping) /\ Tried(fl) /\ fl.attempts \in Nat
      /\ queue \in Seq(Tasks)
  BY Known
<1>2. /\ fl.sub # None /\ fl.sub.name = "wait" /\ fl.sub.goal # "entry" /\ fl.sub.left = 0
      /\ ~ Waiting(Form(f))
  BY DEF StartAttempt, Waited, Handling
<1>3. CASE ~ Ready(fl) \/ Stops(fl)
  <2>1. NotReady(f) BY <1>3 DEF StartAttempt
  <2> QED BY <1>2, <2>1, AnswerEffect
<1>4. CASE Ready(fl) /\ ~ Stops(fl)
  <2> DEFINE settled == Settled(fl)
             ended == Ended(settled, None)
             task == [at |-> "fetching", error |-> None]
             new == [ended EXCEPT
                       !.attempts = @ + 1, !.task = task,
                       !.error = None, !.imported = 0,
                       !.step = IF @ = "gone" THEN @ ELSE "initial_import", !.own = FALSE]
  <2>1. Change(f, new) /\ table' = table /\ queue' = queue
    BY <1>4 DEF StartAttempt, Only
  <2>2. fl.step # "gone" /\ WaitsOn(fl) BY <1>2, <1>4 DEF Stops, WaitsOn
  <2>3. /\ fl.task = None /\ fl.imported = 0 /\ ~ fl.created
    BY <1>2, <2>2, WaitsHolds
  <2>4. /\ settled \in FlowRecord /\ settled.step = fl.step /\ settled.attempts = fl.attempts
        /\ settled.created = fl.created
    BY <1>1, SettledTyped
  <2>5. fl.sub.goal # "first" => settled.existing = fl.existing
    BY <1>1 DEF Settled, FlowRecord
  <2> HIDE DEF settled
  <2>6. /\ ended \in FlowRecord /\ ended.existing = settled.existing /\ ended.step = fl.step
        /\ ended.attempts = fl.attempts /\ ended.sub = None /\ ended.created = fl.created
    BY <2>4 DEF Ended, FlowRecord
  <2> HIDE DEF ended
  <2>7. /\ new.attempts = fl.attempts + 1 /\ new.existing = settled.existing
        /\ new.imported = 0 /\ new.created = fl.created /\ new.sub = None
        /\ new.task = task /\ new.step = "initial_import"
    BY <2>2, <2>6 DEF FlowRecord
  <2>8. task # None /\ task.at = "fetching"
    <3>1. task \in Attempts BY DEF Attempts
    <3> QED BY <3>1, AttemptAssumption
  <2> HIDE DEF new, task
  <2>9. Running(new) /\ ~ Running(fl) BY <2>3, <2>7, <2>8 DEF Running
  <2>10. fl.attempts = 0 \/ (new.existing = fl.existing /\ Emptied(fl))
    <3>1. CASE fl.sub.goal = "first"
      BY <1>1, <1>2, <2>2, <3>1 DEF Tried
    <3>2. CASE fl.sub.goal # "first"
      BY <1>4, <2>5, <2>7, <3>2 DEF Ready, Emptied
    <3> QED BY <3>1, <3>2
  <2>11. WaitOver(f, fl) BY <1>2, <2>2 DEF WaitOver
  <2>12. Begun(f, fl, new)
    BY <2>3, <2>7, <2>9, <2>10, <2>11 DEF Begun
  <2>13. PICK a \in Seq(Tasks) : queue' = queue \o a /\ Imports(a) = {}
    BY <1>1, <2>1, Nothing
  <2>14. Became(f, fl, new, a) /\ WaitsAs(f, fl, new)
    BY <2>3, <2>7, <2>12 DEF Became, WaitsAs, WaitsOn
  <2>15. \A g \in Flows : Queued(g, flow[g], a) BY <2>13 DEF Queued
  <2> QED BY <2>1, <2>13, <2>14, <2>15, OneEffect
<1> QED BY <1>3, <1>4

\* What a rollback queues removes all that its flow created.
LEMMA RollbackErases ==
  ASSUME IInv, TInv, RInv, NEW f \in Flows
  PROVE  \E a \in Seq(Tasks) : /\ a = RollbackTasks(f, flow[f]) /\ Imports(a) = {}
                               /\ Erased(a) = CreatedBy(flow[f])
<1>1. queue \in Seq(Tasks) /\ Task(f) \in Waiters /\ CreatedBy(flow[f]) \in SUBSET Statistics
  BY Known DEF CreatedBy
<1>2. CASE CreatedBy(flow[f]) = {}
  BY <1>1, <1>2, Nothing DEF RollbackTasks
<1>3. CASE CreatedBy(flow[f]) # {}
  <2> DEFINE last == <<Removal(Task(f), CreatedBy(flow[f]))>>
  <2>1. last \in Seq(Tasks) /\ Imports(last) = {} /\ Erased(last) = CreatedBy(flow[f])
    BY <1>1, QueuedLast
  <2>2. last = RollbackTasks(f, flow[f]) BY <1>3 DEF RollbackTasks
  <2> QED BY <2>1, <2>2
<1> QED BY <1>2, <1>3

\* What a rollback and a failure keep of a flow.
LEMMA RolledBackKept ==
  ASSUME NEW f, NEW fl \in FlowRecord, NEW error, NEW half, NEW new,
         new = RolledBack(f, fl, error, half)
  PROVE  /\ Kept(fl, new) /\ new.created = fl.created /\ new.step = fl.step
         /\ new.sub = fl.sub /\ ~ Running(new)
<1>1. /\ Kept(fl, new) /\ new.created = fl.created /\ new.step = fl.step /\ new.sub = fl.sub
      /\ new.task.at = "rolling back"
  BY DEF RolledBack, FlowRecord, Kept
<1> QED BY <1>1 DEF Running

LEMMA FailedKept ==
  ASSUME NEW fl \in FlowRecord, NEW error, NEW new, new = FailedAttempt(fl, error)
  PROVE  /\ Kept(fl, new) /\ new.created = fl.created
         /\ new.step = IF fl.step = "gone" THEN "gone" ELSE "import_failed"
         /\ new.sub = fl.sub /\ ~ Running(new)
<1>1. /\ Kept(fl, new) /\ new.created = fl.created /\ new.sub = fl.sub /\ new.task = None
      /\ new.step = IF fl.step = "gone" THEN "gone" ELSE "import_failed"
  BY DEF FailedAttempt, FlowRecord, Kept
<1> QED BY <1>1 DEF Running

LEMMA CancelledKept ==
  ASSUME NEW f, NEW fl \in FlowRecord, NEW n, NEW stopped, FlowOK(fl, n, stopped),
         NEW new, new = Cancelled(f, fl)
  PROVE  /\ Kept(fl, new) /\ new.created = fl.created /\ ~ Running(new)
         /\ new.step = "finish" => fl.step = "finish"
         /\ WaitsOn(new) => WaitsOn(fl) /\ new.sub = fl.sub
<1>1. fl.task # None => fl.step \in {"initial_import", "gone"} /\ (fl.sub # None => fl.step = "gone")
  BY DEF FlowOK, Forms
<1>2. CASE Running(fl)
  <2>1. new = RolledBack(f, fl, "cancelled", fl.task.at = "confirming") /\ fl.task # None
    BY <1>2 DEF Cancelled, Running
  <2>2. /\ Kept(fl, new) /\ new.created = fl.created /\ new.step = fl.step
        /\ new.sub = fl.sub /\ ~ Running(new)
    BY <2>1, RolledBackKept
  <2> QED BY <1>1, <2>1, <2>2 DEF WaitsOn
<1>3. CASE fl.task # None /\ ~ Running(fl)
  <2>1. new = FailedAttempt(fl, "cancelled") BY <1>3 DEF Cancelled
  <2>2. /\ Kept(fl, new) /\ new.created = fl.created
        /\ new.step = IF fl.step = "gone" THEN "gone" ELSE "import_failed"
        /\ new.sub = fl.sub /\ ~ Running(new)
    BY <2>1, FailedKept
  <2> QED BY <1>1, <1>3, <2>2 DEF WaitsOn
<1>4. CASE fl.task = None
  <2>1. new = fl BY <1>4 DEF Cancelled, Running
  <2> QED BY <1>4, <2>1 DEF Kept, Running, WaitsOn
<1> QED BY <1>2, <1>3, <1>4

LEMMA AttemptEffect ==
  ASSUME IInv, TInv, RInv, NEW f \in Flows,
         \/ FetchFails(f) \/ QueueImport(f) \/ ImportConfirmed(f) \/ ConfirmAgain(f)
         \/ ImportUnconfirmed(f) \/ AttemptSucceeds(f) \/ RollbackEnds(f)
  PROVE  Effects
<1> DEFINE fl == flow[f]
<1>1. /\ fl \in FlowRecord /\ FlowOK(fl, entries, stopping) /\ Tried(fl)
      /\ fl.attempts \in Nat /\ Task(f) \in Waiters /\ queue \in Seq(Tasks)
  BY Known
<1>2. fl.task # None /\ table' = table
  BY DEF FetchFails, QueueImport, ImportConfirmed, ConfirmAgain, ImportUnconfirmed,
         AttemptSucceeds, RollbackEnds, AttemptAt, Only
<1>3. Running(fl) => /\ fl.imported = 0 /\ fl.step = "initial_import" /\ fl.sub = None
                     /\ fl.attempts > 0
  BY RunningOwns
<1>4. ASSUME NEW error, NEW half, Running(fl), Change(f, RolledBack(f, fl, error, half)),
             queue' = queue \o RollbackTasks(f, fl)
      PROVE  Effects
  <2>1. PICK new : new = RolledBack(f, fl, error, half) OBVIOUS
  <2>2. /\ Kept(fl, new) /\ new.created = fl.created /\ new.step = fl.step
        /\ new.sub = fl.sub /\ ~ Running(new)
    BY <1>1, <2>1, RolledBackKept
  <2>3. PICK a \in Seq(Tasks) : /\ a = RollbackTasks(f, fl) /\ Imports(a) = {}
                                /\ Erased(a) = CreatedBy(fl)
    BY RollbackErases
  <2>4. Became(f, fl, new, a) /\ WaitsAs(f, fl, new)
    BY <1>3, <1>4, <2>2, <2>3 DEF Became, WaitsAs, WaitsOn
  <2>5. \A g \in Flows : Queued(g, flow[g], a) BY <2>3 DEF Queued
  <2> QED BY <1>2, <1>4, <2>1, <2>3, <2>4, <2>5, OneEffect
<1>5. CASE FetchFails(f)
  <2>1. Running(fl) /\ queue' = queue \o RollbackTasks(f, fl)
        /\ \E error : Change(f, RolledBack(f, fl, error, FALSE))
    BY <1>5 DEF FetchFails, AttemptAt, Running
  <2> QED BY <1>4, <2>1
<1>6. CASE ImportUnconfirmed(f)
  <2>1. Running(fl) /\ queue' = queue \o RollbackTasks(f, fl)
        /\ Change(f, RolledBack(f, fl, "other", TRUE))
    BY <1>6 DEF ImportUnconfirmed, AttemptAt, Running
  <2> QED BY <1>4, <2>1
<1>7. ASSUME NEW at \in {"confirming", "visible"}
      PROVE  LET new == Moves(f, at)
             IN  /\ new \in FlowRecord /\ Kept(fl, new) /\ new.created = fl.created
                 /\ new.step = fl.step /\ new.sub = fl.sub /\ Running(new)
  <2> DEFINE new == [fl EXCEPT !.task.at = at]
  <2>1. fl.task \in Attempts BY <1>1, <1>2 DEF FlowRecord
  <2>2. [fl.task EXCEPT !.at = at] \in Attempts BY <2>1 DEF Attempts
  <2>3. /\ new \in FlowRecord /\ Kept(fl, new) /\ new.created = fl.created
        /\ new.step = fl.step /\ new.sub = fl.sub /\ new.task = [fl.task EXCEPT !.at = at]
    BY <1>1, <2>2 DEF FlowRecord, Kept
  <2>4. new.task.at = at BY <2>1, <2>3 DEF Attempts
  <2>5. new.task # None BY <2>2, <2>3, AttemptAssumption
  <2>6. new = Moves(f, at) BY DEF Moves
  <2> HIDE DEF new
  <2>7. Running(new) BY <2>4, <2>5 DEF Running
  <2> QED BY <2>3, <2>6, <2>7
<1>8. PICK b \in Seq(Tasks) : /\ b = <<Removal(Task(f), {})>> /\ Imports(b) = {}
                              /\ \A q \in Seq(Tasks) : Append(q, Removal(Task(f), {})) = q \o b
  <2> DEFINE last == <<Removal(Task(f), {})>>
  <2>1. ASSUME NEW q \in Seq(Tasks)
        PROVE  /\ last \in Seq(Tasks) /\ Append(q, Removal(Task(f), {})) = q \o last
               /\ Imports(last) = {}
    <3>1. Task(f) \in Waiters /\ {} \in SUBSET Statistics BY Known
    <3> QED BY <3>1, QueuedLast
  <2>2. last \in Seq(Tasks) /\ Imports(last) = {} BY <1>1, <2>1
  <2> QED BY <2>1, <2>2
<1>9. CASE QueueImport(f)
  <2>1. PICK new : new = Moves(f, "confirming") OBVIOUS
  <2>2. /\ Running(fl) /\ Change(f, new)
        /\ queue' = queue \o Append(Writes(Attempt(f)), Removal(Task(f), {}))
    BY <1>2, <1>9, <2>1 DEF QueueImport, AttemptAt, Running, Barrier
  <2>3. /\ Kept(fl, new) /\ new.created = fl.created /\ new.step = fl.step
        /\ new.sub = fl.sub /\ Running(new)
    BY <1>7, <2>1
  <2>4. Attempt(f) \in Authors BY <1>1, <1>3, <2>2 DEF Attempt, Authors
  <2>5. PICK w \in Seq(Tasks) : w = Writes(Attempt(f)) /\ Imports(w) = {Attempt(f)}
    BY <2>4, Written
  <2>6. PICK a \in Seq(Tasks) : a = w \o b /\ Imports(a) = {Attempt(f)}
    <3>1. w \o b \in Seq(Tasks) /\ Imports(w \o b) = Imports(w) \cup Imports(b) BY Joined
    <3> QED BY <1>8, <2>5, <3>1
  <2>7. queue' = queue \o a BY <1>8, <2>2, <2>5, <2>6
  <2>8. \A g \in Flows : Queued(g, flow[g], a) BY <2>2, <2>6 DEF Queued, Attempt
  <2>9. Became(f, fl, new, a) /\ WaitsAs(f, fl, new)
    BY <1>3, <2>2, <2>3 DEF Became, WaitsAs, WaitsOn
  <2> QED BY <1>2, <2>2, <2>7, <2>8, <2>9, OneEffect
<1>10. PICK n \in Seq(Tasks) : queue \o n = queue /\ Imports(n) = {} BY <1>1, Nothing
<1>11. \A g \in Flows : Queued(g, flow[g], n) /\ Queued(g, flow[g], b)
  BY <1>8, <1>10 DEF Queued
<1>12. CASE ImportConfirmed(f)
  <2> DEFINE moved == Moves(f, "visible")
             new == [moved EXCEPT !.unconfirmed = FALSE]
  <2>1. Running(fl) /\ Change(f, new) /\ queue' = queue
    BY <1>2, <1>12 DEF ImportConfirmed, AttemptAt, Running, Only
  <2>2. /\ moved \in FlowRecord /\ Kept(fl, moved) /\ moved.created = fl.created
        /\ moved.step = fl.step /\ moved.sub = fl.sub /\ Running(moved)
    BY <1>7
  <2> HIDE DEF moved
  <2>3. /\ Kept(fl, new) /\ new.created = fl.created /\ new.step = fl.step
        /\ new.sub = fl.sub /\ Running(new)
    BY <2>2 DEF FlowRecord, Kept, Running
  <2> HIDE DEF new
  <2>4. Became(f, fl, new, n) /\ WaitsAs(f, fl, new)
    BY <1>3, <2>1, <2>3 DEF Became, WaitsAs, WaitsOn
  <2> QED BY <1>2, <1>10, <1>11, <2>1, <2>4, OneEffect
<1>13. CASE ConfirmAgain(f)
  <2>1. flow' = flow /\ queue' = queue \o b
    BY <1>1, <1>8, <1>13 DEF ConfirmAgain, Barrier
  <2>2. Change(f, fl) BY <2>1 DEF Change, IInv
  <2>3. Became(f, fl, fl, b) /\ WaitsAs(f, fl, fl) BY BecameSame
  <2> QED BY <1>2, <1>11, <2>1, <2>2, <2>3, OneEffect
<1>14. CASE AttemptSucceeds(f)
  <2> DEFINE new == [fl EXCEPT !.task = None, !.imported = fl.attempts,
                               !.step = IF @ = "gone" THEN @ ELSE "finish", !.own = FALSE]
  <2>1. Running(fl) /\ Change(f, new) /\ queue' = queue
    BY <1>2, <1>14 DEF AttemptSucceeds, AttemptAt, Running, Only
  <2>2. /\ new.imported = fl.attempts /\ new.attempts = fl.attempts /\ new.task = None
        /\ new.existing = fl.existing /\ new.sub = fl.sub /\ new.created = fl.created
    BY <1>1 DEF FlowRecord
  <2> HIDE DEF new
  <2>3. Became(f, fl, new, n) /\ WaitsAs(f, fl, new)
    BY <1>3, <2>1, <2>2 DEF Became, WaitsAs, WaitsOn, Running
  <2> QED BY <1>2, <1>10, <1>11, <2>1, <2>3, OneEffect
<1>15. CASE RollbackEnds(f)
  <2>1. Change(f, FailedAttempt(fl, fl.task.error)) /\ queue' = queue /\ ~ Running(fl)
    BY <1>15 DEF RollbackEnds, AttemptAt, Running
  <2>2. PICK new : new = FailedAttempt(fl, fl.task.error) OBVIOUS
  <2>3. /\ Kept(fl, new) /\ new.created = fl.created
        /\ new.step = IF fl.step = "gone" THEN "gone" ELSE "import_failed"
        /\ new.sub = fl.sub /\ ~ Running(new)
    BY <1>1, <2>2, FailedKept
  <2>4. ~ WaitsOn(new)
    BY <1>1, <1>2, <2>3 DEF FlowOK, Forms, WaitsOn
  <2>5. Became(f, fl, new, n) /\ WaitsAs(f, fl, new)
    BY <2>1, <2>3, <2>4 DEF Became, WaitsAs
  <2> QED BY <1>2, <1>10, <1>11, <2>1, <2>2, <2>5, OneEffect
<1> QED BY <1>5, <1>6, <1>9, <1>12, <1>13, <1>14, <1>15

LEMMA EndEffect ==
  ASSUME IInv, TInv, RInv, NEW f \in Flows,
         \/ ShowFailure(f) \/ Finish(f) \/ FinishWithout(f) \/ EntryAdded(f) \/ CloseDialog(f)
  PROVE  Effects
<1> DEFINE fl == flow[f]
<1>1. /\ fl \in FlowRecord /\ FlowOK(fl, entries, stopping) /\ queue \in Seq(Tasks)
  BY Known
<1>2. table' = table
  BY DEF ShowFailure, Finish, FinishWithout, EntryAdded, CloseDialog, NotReady, CreateEntry, Only
<1>3. PICK n \in Seq(Tasks) : n = <<>> /\ queue \o n = queue /\ Imports(n) = {}
  BY <1>1, Nothing
<1>4. \A g \in Flows : Queued(g, flow[g], n) BY <1>3 DEF Queued
<1>5. CASE ShowFailure(f)
  <2>1. Change(f, Failure(fl)) /\ queue' = queue BY <1>5 DEF ShowFailure, Only
  <2>2. Failure(fl) = AbortFlow(fl) \/ \E step \in Forms : Failure(fl) = ShowForm(fl, step)
    BY DEF Failure, Forms
  <2>3. PICK new : new = Failure(fl) OBVIOUS
  <2> QED BY <1>2, <2>1, <2>2, <2>3, FormEffect
<1>6. ASSUME NEW settled \in FlowRecord, Kept(fl, settled), settled.task = fl.task,
             settled.step = fl.step, CreateEntry(f, settled),
             fl.step = "finish" \/ (WaitOver(f, fl) /\ Emptied(fl) /\ fl.step # "finish")
      PROVE  Effects
  <2> DEFINE new == [Ended(settled, "entry") EXCEPT !.created = TRUE]
  <2>1. Change(f, new) /\ queue' = queue BY <1>6 DEF CreateEntry
  <2>2. /\ Kept(settled, new) /\ new.task = settled.task /\ new.step = settled.step
        /\ new.sub = None /\ new.created
    BY <1>6 DEF Ended, FlowRecord, Kept
  <2> HIDE DEF new
  <2>3. Kept(fl, new) /\ (Running(new) <=> Running(fl))
    BY <1>6, <2>2 DEF Kept, Running
  <2>4. Became(f, fl, new, n) /\ WaitsAs(f, fl, new)
    BY <1>6, <2>2, <2>3 DEF Became, WaitsAs, WaitsOn
  <2> QED BY <1>2, <1>3, <1>4, <2>1, <2>4, OneEffect
<1>7. CASE Finish(f)
  <2>1. fl.step = "finish" /\ CreateEntry(f, fl) BY <1>7 DEF Finish
  <2> QED BY <1>1, <1>6, <2>1 DEF Kept
<1>8. CASE FinishWithout(f)
  <2>1. /\ fl.sub # None /\ fl.sub.name = "wait" /\ fl.sub.goal = "entry" /\ fl.sub.left = 0
        /\ ~ Waiting(Form(f))
    BY <1>8 DEF FinishWithout, Waited, Handling
  <2>2. CASE ~ Ready(fl) \/ Stops(fl)
    <3>1. NotReady(f) BY <1>8, <2>2 DEF FinishWithout
    <3> QED BY <2>1, <3>1, AnswerEffect
  <2>3. CASE Ready(fl) /\ ~ Stops(fl)
    <3>1. fl.step # "gone" /\ WaitOver(f, fl) BY <2>1, <2>3 DEF Stops, WaitOver, WaitsOn
    <3>2. Emptied(fl) BY <2>1, <2>3 DEF Ready, Emptied
    <3>3. fl.step \in Forms BY <2>1, <3>1, WaitsHolds
    <3>4. PICK settled : settled = Settled(fl) OBVIOUS
    <3>5. settled \in FlowRecord /\ settled.step = fl.step /\ settled.task = fl.task
      BY <1>1, <3>4, SettledTyped
    <3>6. Kept(fl, settled)
      BY <1>1, <2>1, <3>4 DEF Settled, FlowRecord, Kept
    <3>7. CreateEntry(f, settled) BY <1>8, <2>3, <3>4 DEF FinishWithout
    <3> QED BY <1>6, <3>1, <3>2, <3>3, <3>5, <3>6, <3>7 DEF Forms
  <2> QED BY <2>2, <2>3
<1>9. CASE EntryAdded(f)
  <2> DEFINE new == [fl EXCEPT !.step = "gone"]
  <2>1. Change(f, new) /\ queue' = queue BY <1>9 DEF EntryAdded, Only
  <2>2. Alike(fl, new) BY <1>1, Alikes DEF Forms
  <2>3. new.created = fl.created /\ new.step = "gone" BY <1>1 DEF FlowRecord
  <2> HIDE DEF new
  <2>4. WaitsAs(f, fl, new) BY <2>3 DEF WaitsAs, WaitsOn
  <2> QED BY <1>2, <2>1, <2>2, <2>3, <2>4, AlikeEffect
<1>10. CASE CloseDialog(f)
  <2> DEFINE mid == Cancelled(f, fl)
             new == [mid EXCEPT !.step = "gone"]
  <2>1. Change(f, new) /\ queue' = queue \o CancelTasks(f, fl) BY <1>10 DEF CloseDialog
  <2>2. mid \in FlowRecord BY <1>1, CancelledKeeps DEF Keeps
  <2>3. Kept(fl, mid) /\ mid.created = fl.created /\ ~ Running(mid)
    BY <1>1, CancelledKept
  <2> HIDE DEF mid
  <2>4. Kept(fl, new) /\ new.created = fl.created /\ ~ Running(new) /\ new.step = "gone"
    BY <2>2, <2>3 DEF FlowRecord, Kept, Running
  <2> HIDE DEF new
  <2>5. WaitsAs(f, fl, new) BY <2>4 DEF WaitsAs, WaitsOn
  <2>6. CASE Running(fl)
    <3>1. PICK a \in Seq(Tasks) : /\ a = RollbackTasks(f, fl) /\ Imports(a) = {}
                                  /\ Erased(a) = CreatedBy(fl)
      BY RollbackErases
    <3>2. queue' = queue \o a BY <2>1, <2>6, <3>1 DEF CancelTasks
    <3>3. Became(f, fl, new, a) BY <2>4, <3>1 DEF Became
    <3>4. \A g \in Flows : Queued(g, flow[g], a) BY <3>1 DEF Queued
    <3> QED BY <1>2, <2>1, <2>5, <3>2, <3>3, <3>4, OneEffect
  <2>7. CASE ~ Running(fl)
    <3>1. queue' = queue \o n BY <1>3, <2>1, <2>7 DEF CancelTasks
    <3>2. Became(f, fl, new, n) BY <2>4, <2>7 DEF Became
    <3> QED BY <1>2, <1>4, <2>1, <2>5, <3>1, <3>2, OneEffect
  <2> QED BY <2>6, <2>7
<1> QED BY <1>5, <1>7, <1>8, <1>9, <1>10

\* Home Assistant stops: the attempt that runs, of which there is one at most, has
\* what its flow created removed.
LEMMA StopEffect ==
  ASSUME IInv, TInv, RInv, Stop
  PROVE  Effects
<1> DEFINE S == {CancelTasks(f, flow[f]) : f \in Flows}
<1>1. /\ flow' = [f \in Flows |-> Cancelled(f, flow[f])] /\ table' = table
      /\ queue' = queue \o FlattenSeq(SetToSeq(S)) /\ queue \in Seq(Tasks)
  BY DEF Stop, RInv
<1>2. PICK a \in Seq(Tasks) :
        /\ queue' = queue \o a /\ Imports(a) = {}
        /\ \A f \in Flows : Running(flow[f]) => Erased(a) = CreatedBy(flow[f])
  <2>1. CASE \E f \in Flows : Running(flow[f])
    <3>1. PICK f \in Flows : Running(flow[f]) BY <2>1
    <3>2. \A g \in Flows : Running(flow[g]) => g = f
      BY <3>1, RunningOwns DEF Owns, IInv
    <3>3. PICK t \in Seq(Tasks) : /\ t = RollbackTasks(f, flow[f]) /\ Imports(t) = {}
                                  /\ Erased(t) = CreatedBy(flow[f])
      BY RollbackErases
    <3>4. \A g \in Flows : CancelTasks(g, flow[g]) = IF g = f THEN t ELSE <<>>
      BY <3>1, <3>2, <3>3 DEF CancelTasks
    <3>5. S \in SUBSET {<<>>, t} /\ t \in S BY <3>4
    <3>6. FlattenSeq(SetToSeq(S)) = t BY <3>5, FlatPair
    <3> QED BY <1>1, <3>2, <3>3, <3>6
  <2>2. CASE \A f \in Flows : ~ Running(flow[f])
    <3>1. <<>> \in Seq(Tasks) /\ Imports(<<>>) = {} BY <1>1, Nothing
    <3>2. S \in SUBSET {<<>>, <<>>} BY <2>2 DEF CancelTasks
    <3>3. FlattenSeq(SetToSeq(S)) = <<>> BY <3>1, <3>2, FlatPair
    <3> QED BY <1>1, <2>2, <3>1, <3>3
  <2> QED BY <2>1, <2>2
<1>3. ASSUME NEW f \in Flows
      PROVE  Became(f, flow[f], flow'[f], a) /\ WaitsAs(f, flow[f], flow'[f])
  <2>1. flow[f] \in FlowRecord /\ FlowOK(flow[f], entries, stopping) BY Known
  <2>2. flow'[f] = Cancelled(f, flow[f]) BY <1>1
  <2>3. PICK old \in FlowRecord : old = flow[f] BY <2>1
  <2>4. PICK new : new = Cancelled(f, old) OBVIOUS
  <2>5. /\ Kept(old, new) /\ new.created = old.created /\ ~ Running(new)
        /\ new.step = "finish" => old.step = "finish"
        /\ WaitsOn(new) => WaitsOn(old) /\ new.sub = old.sub
    BY <2>1, <2>3, <2>4, CancelledKept
  <2>6. Running(old) => Erased(a) = CreatedBy(old) BY <1>2, <2>3
  <2>7. Became(f, old, new, a) /\ WaitsAs(f, old, new)
    BY <1>2, <2>5, <2>6 DEF Became, WaitsAs
  <2> QED BY <2>2, <2>3, <2>4, <2>7
<1>4. \A f \in Flows : Queued(f, flow[f], a) BY <1>2 DEF Queued
<1> QED BY <1>1, <1>2, <1>3, <1>4 DEF Effects

\* No attempt runs when Home Assistant starts again: none outlived its stop.
LEMMA RestartEffect ==
  ASSUME IInv, TInv, RInv, Restart
  PROVE  Effects
<1>1. UNCHANGED <<table, queue>> /\ queue \in Seq(Tasks) /\ stopping
  BY DEF Restart, RInv
<1>2. PICK a \in Seq(Tasks) : queue' = queue \o a /\ Imports(a) = {} BY <1>1, Nothing
<1>3. ASSUME NEW f \in Flows
      PROVE  Became(f, flow[f], flow'[f], a) /\ WaitsAs(f, flow[f], flow'[f])
  <2> DEFINE lost == [flow[f] EXCEPT !.step = "gone", !.sub = None, !.task = None,
                                     !.repeats = 0]
  <2>1. flow[f] \in FlowRecord /\ FlowOK(flow[f], entries, stopping) BY Known
  <2>2. flow'[f] = IF flow[f].step = "none" THEN flow[f] ELSE lost
    BY DEF Restart
  <2>3. /\ Kept(flow[f], lost) /\ lost.task = None /\ lost.sub = None
        /\ lost.created = flow[f].created /\ lost.step = "gone"
    BY <2>1 DEF FlowRecord, Kept
  <2> HIDE DEF lost
  <2>4. ~ Running(flow[f]) BY <1>1, <2>1 DEF FlowOK
  <2>5. Became(f, flow[f], lost, a) /\ WaitsAs(f, flow[f], lost)
    BY <2>3, <2>4 DEF Became, WaitsAs, WaitsOn, Running
  <2>6. Became(f, flow[f], flow[f], a) /\ WaitsAs(f, flow[f], flow[f]) BY BecameSame
  <2> QED BY <2>2, <2>5, <2>6
<1>4. \A f \in Flows : Queued(f, flow[f], a) BY <1>2 DEF Queued
<1> QED BY <1>1, <1>2, <1>3, <1>4 DEF Effects

LEMMA UpdateEffect ==
  ASSUME IInv, TInv, RInv,
         UpdateBegins \/ UpdateWaits \/ UpdateGivesUp \/ UpdateReads \/ UpdateImports
  PROVE  Effects
<1>1. UNCHANGED <<table, flow>>
  BY DEF UpdateBegins, UpdateWaits, UpdateGivesUp, UpdateReads, UpdateImports
<1>2. PICK a \in Seq(Tasks) :
        /\ queue' = queue \o a
        /\ \A f \in Flows, k \in Nat \ {0} : <<f, k>> \notin Imports(a)
  BY UpdateQueues
<1>3. \A f \in Flows : Queued(f, flow[f], a) BY <1>2 DEF Queued
<1>4. \A f \in Flows : Became(f, flow[f], flow'[f], a) /\ WaitsAs(f, flow[f], flow'[f])
  BY <1>1, BecameSame
<1> QED BY <1>1, <1>2, <1>3, <1>4 DEF Effects

LEMMA StepEffects ==
  IInv /\ TInv /\ RInv /\ [Next]_vars => RecorderRuns \/ UNCHANGED vars \/ Effects
<1> SUFFICES ASSUME IInv, TInv, RInv, Next, ~ RecorderRuns PROVE Effects
  OBVIOUS
<1>1. CASE Stop BY <1>1, StopEffect
<1>2. CASE Restart BY <1>2, RestartEffect
<1>3. CASE UpdateBegins \/ UpdateWaits \/ UpdateGivesUp \/ UpdateReads \/ UpdateImports
  BY <1>3, UpdateEffect
<1>4. CASE \E f \in Flows : Step(f)
  <2> SUFFICES ASSUME NEW f \in Flows, Step(f) PROVE Effects BY <1>4
  <2>1. CASE SubmitEmail(f) BY <2>1, EmailEffect
  <2>2. CASE StartAttempt(f) BY <2>2, StartEffect
  <2>3. CASE \/ OpenDialog(f) \/ SubmitCode(f) \/ SubmitAccounts(f) \/ SubmitDiscovery(f)
             \/ SubmitFailed(f) \/ SubmitLast(f) \/ SubmitAgain(f) \/ AnswerRepeat(f)
    BY <2>3, SubmissionEffect
  <2>4. CASE \/ CodeSent(f) \/ CodeChecked(f) \/ AccountsFound(f) \/ PassEnds(f)
             \/ WaitTimesOut(f)
    BY <2>4, AnswerEffect
  <2>5. CASE \/ FetchFails(f) \/ QueueImport(f) \/ ImportConfirmed(f) \/ ConfirmAgain(f)
             \/ ImportUnconfirmed(f) \/ AttemptSucceeds(f) \/ RollbackEnds(f)
    BY <2>5, AttemptEffect
  <2>6. CASE \/ ShowFailure(f) \/ Finish(f) \/ FinishWithout(f) \/ EntryAdded(f)
             \/ CloseDialog(f)
    BY <2>6, EndEffect
  <2> QED BY <2>1, <2>2, <2>3, <2>4, <2>5, <2>6 DEF Step
<1> QED BY <1>1, <1>2, <1>3, <1>4 DEF Next
-------------------------------------------------------------------------------
(***************************************************************************)
(* What attempts left.  As long as the recorder has queued no import again,*)
(* what one left in a statistic its flow created is removed, or the        *)
(* removal is behind all it queued; a flow with an attempt running, a      *)
(* success or an entry has nothing left, nor queued, of another attempt.   *)
(***************************************************************************)
\* Bound: the recorder queues one import again at most.
OneRequeue == \A trial \in Trials : trial.spare.requeues <= 1

Spares == spare \in [Faults -> Nat] /\ spare.requeues <= 1

\* What an attempt wrote that is to stay, or may yet.
Counts(fl, k) == k = fl.imported \/ (Running(fl) /\ k = fl.attempts)

LeftBehind(f, fl, q, t) ==
  \A k \in Nat \ {0} : \A s \in CreatedBy(fl) :
    Counts(fl, k) \/ Absence(q, t, <<f, k>>, s) \/ Doomed(q, <<f, k>>, s)

LInv == spare.requeues > 0 => \A f \in Flows : LeftBehind(f, flow[f], queue, table)

LEMMA SparesFirst ==
  ASSUME OneRequeue
  PROVE  Init => Spares
BY SpareFirst DEF Init, OneRequeue, Spares

LEMMA SparesSteps == Spares /\ [Next]_vars => Spares' /\ Less
<1> SUFFICES ASSUME Spares, [Next]_vars PROVE Spares' /\ Less OBVIOUS
<1>1. Less BY SpareSteps DEF Spares
<1>2. "requeues" \in Faults BY DEF Faults
<1>3. spare'.requeues <= spare.requeues /\ spare.requeues \in Nat /\ spare'.requeues \in Nat
  BY <1>1, <1>2 DEF Less, Spares
<1>4. spare'.requeues <= 1 BY <1>3 DEF Spares
<1> QED BY <1>1, <1>4 DEF Less, Spares

\* Only what runs has an import queued.
LEMMA OthersQueue ==
  ASSUME NEW f \in Flows, NEW fl, NEW a, Queued(f, fl, a), ~ Running(fl), NEW k \in Nat \ {0}
  PROVE  <<f, k>> \notin Imports(a)
BY DEF Queued

\* Every step but the recorder's.
LEMMA LeftBecame ==
  ASSUME IInv, TInv, RInv, HInv, NEW f \in Flows, NEW fl, NEW a \in Seq(Tasks),
         Became(f, flow[f], fl, a), Queued(f, flow[f], a),
         LeftBehind(f, flow[f], queue, table)
  PROVE  LeftBehind(f, fl, queue \o a, table)
<1> DEFINE old == flow[f]
<1>1. queue \in Seq(Tasks) /\ old.attempts \in Nat BY Known
<1> SUFFICES ASSUME NEW k \in Nat \ {0}, NEW s \in CreatedBy(fl)
             PROVE  \/ Counts(fl, k)
                    \/ Absence(queue \o a, table, <<f, k>>, s)
                    \/ Doomed(queue \o a, <<f, k>>, s)
  BY DEF LeftBehind
<1>2. <<f, k>> \in Authors /\ s \in Statistics BY DEF Authors, CreatedBy
<1>3. /\ Imports(queue \o a) = Imports(queue) \cup Imports(a)
      /\ <<f, k>> \notin Imports(a) =>
           /\ Absence(queue, table, <<f, k>>, s) => Absence(queue \o a, table, <<f, k>>, s)
           /\ Doomed(queue, <<f, k>>, s) => Doomed(queue \o a, <<f, k>>, s)
  BY <1>1, <1>2, Joined, StaysLeft
<1>4. <<f, k>> \in Imports(a) => Running(old) /\ k = old.attempts BY DEF Queued
<1>5. s \in CreatedBy(old) =>
        Counts(old, k) \/ Absence(queue, table, <<f, k>>, s) \/ Doomed(queue, <<f, k>>, s)
  BY DEF LeftBehind
<1>6. CASE Kept(old, fl) /\ (Running(fl) <=> Running(old))
  <2>1. s \in CreatedBy(old) /\ (Counts(old, k) => Counts(fl, k))
        /\ (Running(old) /\ k = old.attempts => Counts(fl, k))
    BY <1>6 DEF Kept, CreatedBy, Counts
  <2> QED BY <1>3, <1>4, <1>5, <2>1
<1>7. CASE /\ Kept(old, fl) /\ ~ Running(fl) /\ CreatedBy(old) \subseteq Erased(a)
           /\ Imports(a) = {}
  <2>1. s \in Erased(a) BY <1>7 DEF Kept, CreatedBy
  <2> QED BY <1>1, <1>2, <1>7, <2>1, DoomedBehind
<1>8. CASE /\ Running(old) /\ ~ Running(fl) /\ old.imported = 0
           /\ fl.imported = old.attempts /\ fl.attempts = old.attempts
           /\ fl.existing = old.existing
  <2>1. s \in CreatedBy(old) /\ (Counts(old, k) => Counts(fl, k))
        /\ (k = old.attempts => Counts(fl, k))
    BY <1>8 DEF CreatedBy, Counts
  <2> QED BY <1>3, <1>4, <1>5, <2>1
<1>9. CASE Begun(f, old, fl)
  <2>1. ~ Running(old) /\ old.imported = 0
    BY <1>9, WaitsHolds DEF Begun, WaitOver, WaitsOn, Running
  <2>2. <<f, k>> \notin Imports(a) /\ ~ Counts(old, k) BY <1>4, <2>1 DEF Counts
  <2>3. CASE old.attempts = 0
    <3>1. Absent(f, queue, table) BY <2>3 DEF HInv, LeftOK, Calm
    <3>2. Absence(queue, table, <<f, k>>, s) BY <1>2, <3>1 DEF Absent, Absence
    <3> QED BY <1>3, <2>2, <3>2
  <2>4. CASE old.attempts # 0
    <3>1. s \in CreatedBy(old) BY <1>9, <2>4 DEF Begun, CreatedBy
    <3> QED BY <1>3, <1>5, <2>2, <3>1
  <2> QED BY <2>3, <2>4
<1> QED BY <1>6, <1>7, <1>8, <1>9 DEF Became

\* The recorder writes what is queued, and a removal takes what was there; an
\* import queued again is the last of its kind.
LEMMA LeftRecorder ==
  ASSUME IInv, RInv, Spares, RecorderRuns, LInv
  PROVE  LInv'
<1> DEFINE task == Head(queue)
<1>1. /\ flow' = flow /\ queue \in Seq(Tasks) /\ queue # <<>> /\ task \in Tasks
  BY TailPlaces DEF RInv, RecorderRuns
<1>2. /\ Imports(queue') \subseteq Imports(queue)
      /\ \A s \in Statistics : table'[s] \subseteq table[s] \cup Imports(queue)
  BY RecorderWrites
<1> SUFFICES ASSUME spare'.requeues > 0, NEW f \in Flows, NEW k \in Nat \ {0},
                    NEW s \in CreatedBy(flow[f])
             PROVE  \/ Counts(flow[f], k)
                    \/ Absence(queue', table', <<f, k>>, s)
                    \/ Doomed(queue', <<f, k>>, s)
  BY <1>1 DEF LInv, LeftBehind, CreatedBy, Counts, Running, Absence, Doomed, Imports
<1>3. <<f, k>> \in Authors /\ s \in Statistics BY DEF Authors, CreatedBy
<1>4. /\ queue' = Tail(queue) /\ spare.requeues > 0
      /\ \/ table' = [r \in Statistics |->
                        CASE r \notin task.statistics -> table[r]
                          [] task.kind = "import" -> table[r] \cup {task.by}
                          [] OTHER -> {}]
         \/ task.kind = "import" /\ table' = table
  <2>1. ~ Use("requeues")
    <3> SUFFICES ASSUME Use("requeues") PROVE FALSE OBVIOUS
    <3>1. spare'.requeues = spare.requeues - 1 /\ spare.requeues \in Nat
      BY DEF Use, Spares, Faults
    <3> QED BY <3>1 DEF Spares
  <2>2. Use("drops") => spare'.requeues = spare.requeues
    BY DEF Use, Spares, Faults
  <2> QED BY <2>1, <2>2 DEF RecorderRuns
<1> HIDE DEF task
<1>5. \/ Counts(flow[f], k) \/ Absence(queue, table, <<f, k>>, s)
      \/ Doomed(queue, <<f, k>>, s)
  BY <1>4 DEF LInv, LeftBehind
<1>6. CASE Absence(queue, table, <<f, k>>, s)
  <2>1. Absence(queue', table', <<f, k>>, s) BY <1>2, <1>3, <1>6 DEF Absence
  <2> QED BY <2>1
<1>7. CASE Doomed(queue, <<f, k>>, s)
  <2>1. \/ Doomed(queue', <<f, k>>, s)
        \/ task.kind = "removal" /\ s \in task.statistics /\ <<f, k>> \notin Imports(queue')
    BY <1>1, <1>3, <1>4, <1>7, TailLeft DEF task
  <2>2. task.kind = "removal" /\ s \in task.statistics => table'[s] = {}
    BY <1>3, <1>4
  <2> QED BY <2>1, <2>2 DEF Absence
<1> QED BY <1>5, <1>6, <1>7

LEMMA LeftSteps ==
  IInv /\ TInv /\ RInv /\ HInv /\ Spares /\ LInv /\ [Next]_vars => LInv'
<1> SUFFICES ASSUME IInv, TInv, RInv, HInv, Spares, LInv, [Next]_vars PROVE LInv' OBVIOUS
<1>1. CASE RecorderRuns BY <1>1, LeftRecorder
<1>2. CASE UNCHANGED vars
  <2>1. UNCHANGED <<table, queue, flow, spare>> BY <1>2 DEF vars
  <2>2. \A f \in Flows : LeftBehind(f, flow[f], queue, table)'
                         <=> LeftBehind(f, flow'[f], queue', table')
    BY DEF LeftBehind, CreatedBy, Counts, Running, Absence, Doomed, Imports
  <2> QED BY <2>1, <2>2 DEF LInv
<1>3. CASE Effects
  <2>1. spare'.requeues > 0 => spare.requeues > 0
    <3>1. Less /\ "requeues" \in Faults BY SparesSteps DEF Faults
    <3> QED BY <3>1 DEF Less, Spares
  <2>2. PICK a \in Seq(Tasks) :
          /\ queue' = queue \o a /\ table' = table
          /\ \A f \in Flows : Became(f, flow[f], flow'[f], a) /\ Queued(f, flow[f], a)
    BY <1>3 DEF Effects
  <2>3. spare.requeues > 0 => \A f \in Flows : LeftBehind(f, flow'[f], queue \o a, table)
    BY <2>2, LeftBecame DEF LInv
  <2>4. \A f \in Flows : LeftBehind(f, flow[f], queue, table)'
                         <=> LeftBehind(f, flow'[f], queue', table')
    BY DEF LeftBehind, CreatedBy, Counts, Running, Absence, Doomed, Imports
  <2> QED BY <2>1, <2>2, <2>3, <2>4 DEF LInv
<1> QED BY <1>1, <1>2, <1>3, StepEffects

LEMMA LeftFirst == Init => LInv
<1> SUFFICES ASSUME Init PROVE LInv OBVIOUS
<1>1. \A f \in Flows : Absent(f, queue, table)
  BY HalfFirst DEF Init, NewFlow, HInv, LeftOK, Calm
<1>2. \A f \in Flows, k \in Nat \ {0} : \A s \in Statistics : Absence(queue, table, <<f, k>>, s)
  BY <1>1 DEF Absent, Absence
<1> QED BY <1>2 DEF LInv, LeftBehind, CreatedBy

\* Once every setup has ended and the recorder has nothing left to do, nothing of
\* a failed or cancelled attempt is left in a statistic its flow created, for any
\* dialogs, attempts, closed dialogs, stops and waits that time out, as long as
\* the recorder has queued no import again (_async_rollback_complete,
\* _async_roll_back_import, async_remove).
THEOREM NothingLeft ==
  ASSUME OneRequeue
  PROVE  Spec => []NothingIsLeft
<1> DEFINE All == IInv /\ TInv /\ RInv /\ HInv /\ Spares /\ LInv
<1>1. Init => All
  BY InitHolds, TriedFirst, RowsFirst, HalfFirst, SparesFirst, LeftFirst
<1>2. All /\ [Next]_vars => All'
  BY StepHolds, TriedSteps, RowsSteps, HalfSteps, SparesSteps, LeftSteps
<1>3. All => NothingIsLeft
  <2> SUFFICES ASSUME All, queue = <<>>, spare.requeues > 0,
                      \A f \in Flows : flow[f].task = None,
                      NEW f \in Flows, NEW s \in CreatedBy(flow[f]), NEW k \in 1 .. MaxAttempts,
                      <<f, k>> \in table[s]
               PROVE  k = flow[f].imported
    BY DEF NothingIsLeft, Cleared
  <2>1. k \in Nat \ {0} BY SetupAssumption
  <2>2. \/ Counts(flow[f], k) \/ Absence(queue, table, <<f, k>>, s)
        \/ Doomed(queue, <<f, k>>, s)
    BY <2>1 DEF LInv, LeftBehind
  <2>3. ~ Doomed(queue, <<f, k>>, s)
    <3>1. DOMAIN queue = {} OBVIOUS
    <3> QED BY <3>1 DEF Doomed
  <2> QED BY <2>2, <2>3 DEF Absence, Counts, Running
<1> QED BY <1>1, <1>2, <1>3, PTL DEF Spec
-------------------------------------------------------------------------------
(***************************************************************************)
(* Waits.  A wait has a pass left for as long as an import of an attempt   *)
(* is queued, and one more for what its passes do not stand behind, beside *)
(* each import the recorder may still queue again.                         *)
(***************************************************************************)
InTime(q, by, left, n) == (Pending(q) => left >= n) /\ (Late(q, by) => left >= n + 1)

WInv ==
  /\ \A f \in Flows : WaitsOn(flow[f]) =>
       InTime(queue, Form(f), flow[f].sub.left, spare.requeues)
  /\ EntryAt("waiting") => InTime(queue, Update, entry.left, spare.requeues)

\* What is left of no attempt but the one that runs, or succeeded.
Final(fl) == Running(fl) \/ fl.imported > 0 \/ fl.created

OnlyFinal(f, fl, q, t) ==
  Final(fl) => \A k \in Nat \ {0} : \A s \in CreatedBy(fl) :
                 Counts(fl, k) \/ Absence(q, t, <<f, k>>, s)

FInv ==
  /\ \A f \in Flows : OnlyFinal(f, flow[f], queue, table)
  /\ \A f \in Flows : flow[f].step = "finish" => flow[f].imported > 0
  /\ entry # None => entry.by \in Flows /\ flow[entry.by].created

\* An import queued is of an attempt.
LEMMA PendingImports ==
  ASSUME NEW q \in Seq(Tasks)
  PROVE  Pending(q) <=> \E f \in Flows, k \in Nat \ {0} : <<f, k>> \in Imports(q)
<1>1. \A i \in DOMAIN q : q[i] \in Tasks OBVIOUS
<1>2. ASSUME NEW i \in DOMAIN q, Import(q[i])
      PROVE  \E f \in Flows, k \in Nat \ {0} : <<f, k>> \in Imports(q)
  <2>1. q[i].by \in Authors /\ q[i].by # Entry /\ q[i].kind = "import"
    BY <1>1, <1>2 DEF Tasks, Import
  <2>2. PICK f \in Flows, k \in Nat \ {0} : q[i].by = <<f, k>> BY <2>1 DEF Authors
  <2>3. <<f, k>> \in Imports(q) BY <2>1, <2>2 DEF Imports
  <2> QED BY <2>3
<1>3. ASSUME NEW f \in Flows, NEW k \in Nat \ {0}, <<f, k>> \in Imports(q)
      PROVE  Pending(q)
  <2>1. PICK i \in DOMAIN q : q[i].kind = "import" /\ q[i].by = <<f, k>>
    BY <1>3 DEF Imports
  <2>2. <<f, k>> # Entry BY DEF Entry
  <2> QED BY <2>1, <2>2 DEF Pending, Import
<1> QED BY <1>2, <1>3 DEF Pending

\* No flow has an attempt running while one waits, or once there is an entry.
LEMMA NoneRuns ==
  ASSUME IInv, TInv, RInv, entry # None \/ \E f \in Flows : WaitsOn(flow[f]),
         NEW g \in Flows
  PROVE  ~ Running(flow[g])
<1> SUFFICES ASSUME Running(flow[g]) PROVE FALSE OBVIOUS
<1>1. Holds(flow[g]) /\ ~ flow[g].created /\ flow[g].task # None
  BY RunningOwns DEF Owns
<1>2. CASE entry # None
  <2>1. entries # 0 BY <1>2 DEF RInv
  <2>2. FlowOK(flow[g], entries, stopping) BY Known
  <2> QED BY <1>1, <2>1, <2>2 DEF FlowOK, Holds
<1>3. ASSUME NEW f \in Flows, WaitsOn(flow[f]) PROVE FALSE
  <2>1. Holds(flow[f]) /\ flow[f].task = None BY <1>3, WaitsHolds DEF WaitsOn
  <2>2. f = g BY <1>1, <2>1 DEF IInv
  <2> QED BY <1>1, <2>1, <2>2
<1> QED BY <1>2, <1>3

\* A wait that is over has waited for every import of an attempt.
LEMMA WaitedFor ==
  ASSUME NEW by, NEW n \in Nat, InTime(queue, by, 0, n), ~ Waiting(by)
  PROVE  ~ Pending(queue)
BY AllLate DEF InTime

LEMMA OverWaited ==
  ASSUME Spares, WInv, NEW f \in Flows, WaitOver(f, flow[f])
  PROVE  ~ Pending(queue)
<1>1. spare.requeues \in Nat BY DEF Spares, Faults
<1>2. InTime(queue, Form(f), 0, spare.requeues) BY DEF WInv, WaitOver
<1> QED BY <1>1, <1>2, WaitedFor DEF WaitOver

-------------------------------------------------------------------------------
(***************************************************************************)
(* The entry.                                                              *)
(***************************************************************************)
LEMMA EntrySteps ==
  ASSUME IInv, [Next]_vars
  PROVE  /\ \/ entry' = entry
            \/ ~ EntryAt("waiting")' /\ ~ EntryAt("read")'
            \/ UpdateBegins \/ UpdateWaits \/ UpdateReads
         /\ entry' # None =>
              \/ entry # None /\ entry'.by = entry.by
              \/ \E f \in Flows : entry'.by = f /\ flow'[f].created
<1>1. entry \in EntryRecord \cup {None} BY DEF IInv
<1>2. CASE entry' = entry BY <1>2
<1>3. CASE UpdateBegins \/ UpdateWaits \/ UpdateReads
  <2>1. entry \in EntryRecord BY <1>1, <1>3 DEF UpdateBegins, UpdateWaits, UpdateReads, EntryAt
  <2>2. entry # None /\ entry'.by = entry.by
    BY <1>3, <2>1, SetupAssumption DEF UpdateBegins, UpdateWaits, UpdateReads, EntryRecord
  <2> QED BY <1>3, <2>2
<1>4. CASE UpdateGivesUp \/ UpdateImports
  <2>1. entry \in EntryRecord /\ entry # None
    BY <1>1, <1>4 DEF UpdateGivesUp, UpdateImports, EntryAt
  <2>2. entry'.by = entry.by /\ entry'.at \in {"new", "imported"}
    BY <1>4, <2>1 DEF UpdateGivesUp, UpdateImports, EntryRecord
  <2> QED BY <2>1, <2>2 DEF EntryAt
<1>5. CASE Restart
  <2>1. CASE entry = None BY <1>5, <2>1 DEF Restart, EntryAt
  <2>2. CASE entry # None
    <3>1. entry \in EntryRecord BY <1>1, <2>2
    <3>2. entry'.by = entry.by /\ entry'.at \in {"new", "imported"}
      BY <1>5, <2>2, <3>1 DEF Restart, EntryRecord
    <3> QED BY <2>2, <3>2 DEF EntryAt
  <2> QED BY <2>1, <2>2
<1>6. ASSUME NEW f \in Flows, NEW fl, CreateEntry(f, fl)
      PROVE  /\ entry'.at = "new" /\ entry'.by = f
             /\ flow'[f] = [Ended(fl, "entry") EXCEPT !.created = TRUE]
  BY <1>6 DEF CreateEntry, Change, IInv
<1>7. ASSUME NEW f \in Flows, NEW fl \in FlowRecord, CreateEntry(f, fl)
      PROVE  ~ EntryAt("waiting")' /\ ~ EntryAt("read")' /\ entry'.by = f /\ flow'[f].created
  <2>1. flow'[f].created BY <1>6, <1>7 DEF Ended, FlowRecord
  <2> QED BY <1>6, <1>7, <2>1 DEF EntryAt
<1>8. ASSUME NEW f \in Flows, Finish(f) \/ FinishWithout(f), entry' # entry
      PROVE  ~ EntryAt("waiting")' /\ ~ EntryAt("read")' /\ entry'.by = f /\ flow'[f].created
  <2>1. flow[f] \in FlowRecord BY DEF IInv
  <2>2. Settled(flow[f]) \in FlowRecord BY <2>1, SettledTyped
  <2>3. ~ NotReady(f) BY <1>8 DEF NotReady, Only
  <2> QED BY <1>7, <1>8, <2>1, <2>2, <2>3 DEF Finish, FinishWithout
<1>9. CASE \E f \in Flows : Finish(f) \/ FinishWithout(f) BY <1>2, <1>8, <1>9
<1>10. CASE \E f \in Flows : Step(f) /\ ~ Finish(f) /\ ~ FinishWithout(f)
  <2>1. entry' = entry
    BY <1>10 DEF Step, OpenDialog, SubmitEmail, SubmitCode, SubmitAccounts,
         SubmitDiscovery, SubmitFailed, SubmitLast, SubmitAgain, AnswerRepeat, CodeSent,
         CodeChecked, AccountsFound, PassEnds, WaitTimesOut, StartAttempt, FetchFails,
         QueueImport, ImportConfirmed, ConfirmAgain, ImportUnconfirmed, AttemptSucceeds,
         RollbackEnds, ShowFailure, EntryAdded, CloseDialog, NotReady, Only
  <2> QED BY <1>2, <2>1
<1>11. CASE RecorderRuns \/ Stop \/ UNCHANGED vars
  BY <1>2, <1>11 DEF RecorderRuns, Stop, vars
<1> QED BY <1>3, <1>4, <1>5, <1>9, <1>10, <1>11 DEF Next
-------------------------------------------------------------------------------
(***************************************************************************)
(* Every step keeps them.                                                  *)
(***************************************************************************)
\* Nothing is queued again, or one import less may be.
LEMMA StillInTime ==
  ASSUME NEW q, NEW r, NEW by, NEW left \in Nat, NEW n \in Nat, NEW m \in Nat,
         InTime(q, by, left, n), Pending(r) => Pending(q), m <= n,
         m + 1 <= n \/ (Late(r, by) => Late(q, by))
  PROVE  InTime(r, by, left, m)
<1>1. Pending(q) => left >= m BY DEF InTime
<1>2. CASE m + 1 <= n
  <2>1. Late(r, by) => Pending(r) BY DEF Late, Pending
  <2>2. Pending(q) => left >= m + 1 BY <1>2 DEF InTime
  <2> QED BY <1>1, <2>1, <2>2 DEF InTime
<1>3. CASE Late(r, by) => Late(q, by)
  <2>1. Late(q, by) => left >= m + 1 BY DEF InTime
  <2> QED BY <1>1, <1>3, <2>1 DEF InTime
<1> QED BY <1>2, <1>3

LEMMA WaitLeft ==
  ASSUME NEW fl \in FlowRecord, WaitsOn(fl)
  PROVE  fl.sub.left \in Nat
<1>1. fl.sub \in Submissions BY DEF FlowRecord, WaitsOn
<1> QED BY <1>1 DEF Submissions, WaitsOn

\* A wait's next pass, or its first.
LEMMA PassInTime ==
  ASSUME queue \in Seq(Tasks), NEW by \in Waiters, NEW statistics \in SUBSET Statistics,
         NEW left \in Nat, NEW n \in Nat, NEW m \in Nat, m <= n,
         \/ ~ Waiting(by) /\ InTime(queue, by, left + 1, n)
         \/ left >= m
  PROVE  InTime(Append(queue, Removal(by, statistics)), by, left, m)
<1>1. /\ ~ Late(Append(queue, Removal(by, statistics)), by)
      /\ Pending(Append(queue, Removal(by, statistics))) => Pending(queue)
  BY NoneLate
<1>2. Pending(queue) => left >= m
  <2>1. CASE ~ Waiting(by) /\ InTime(queue, by, left + 1, n)
    <3>1. Pending(queue) => left + 1 >= n + 1 BY <2>1, AllLate DEF InTime
    <3> QED BY <3>1
  <2> QED BY <2>1
<1> QED BY <1>1, <1>2 DEF InTime

LEMMA WaitRecorder ==
  ASSUME IInv, TInv, RInv, Spares, WInv, RecorderRuns
  PROVE  WInv'
<1>1. /\ UNCHANGED <<flow, entry>> /\ queue \in Seq(Tasks) /\ queue' \in Seq(Tasks)
      /\ Imports(queue') \subseteq Imports(queue) /\ queue # <<>>
  BY RecorderWrites DEF RInv, RecorderRuns
<1>2. Pending(queue') => Pending(queue) BY <1>1, PendingImports
<1>3. /\ spare.requeues \in Nat /\ spare'.requeues \in Nat
      /\ spare'.requeues <= spare.requeues
      /\ \/ spare'.requeues + 1 <= spare.requeues
         \/ \A by : Late(queue', by) => Late(queue, by)
  <2>1. Spares' /\ Less BY SparesSteps DEF Next
  <2>2. /\ spare.requeues \in Nat /\ spare'.requeues \in Nat
        /\ spare'.requeues <= spare.requeues
    BY <2>1 DEF Spares, Less, Faults
  <2>3. CASE Use("requeues")
    <3>1. spare'.requeues = spare.requeues - 1 BY <2>3 DEF Use, Spares, Faults
    <3> QED BY <2>2, <3>1
  <2>4. CASE ~ Use("requeues")
    <3>1. queue' = Tail(queue) BY <2>4 DEF RecorderRuns
    <3> QED BY <1>1, <2>2, <3>1, TailImports
  <2> QED BY <2>3, <2>4
<1>4. \A by : \A left \in Nat :
        InTime(queue, by, left, spare.requeues) => InTime(queue', by, left, spare'.requeues)
  BY <1>2, <1>3, StillInTime
<1>5. ASSUME NEW f \in Flows, WaitsOn(flow[f])
      PROVE  InTime(queue', Form(f), flow[f].sub.left, spare'.requeues)
  <2>1. flow[f].sub.left \in Nat BY <1>5, WaitLeft DEF IInv
  <2> QED BY <1>4, <1>5, <2>1 DEF WInv
<1>6. ASSUME EntryAt("waiting")
      PROVE  InTime(queue', Update, entry.left, spare'.requeues)
  <2>1. entry.left \in Nat BY <1>6 DEF EntryAt, IInv, EntryRecord
  <2> QED BY <1>4, <1>6, <2>1 DEF WInv
<1>7. /\ \A f \in Flows : WaitsOn(flow[f])' <=> WaitsOn(flow[f])
      /\ EntryAt("waiting")' <=> EntryAt("waiting")
  BY <1>1 DEF WaitsOn, EntryAt
<1> QED BY <1>1, <1>5, <1>6, <1>7 DEF WInv, InTime, Pending, Late, Form

LEMMA WaitSteps ==
  ASSUME 1 < Passes
  PROVE  IInv /\ IInv' /\ TInv /\ RInv /\ Spares /\ WInv /\ [Next]_vars => WInv'
<1> SUFFICES ASSUME IInv, IInv', TInv, RInv, Spares, WInv, [Next]_vars PROVE WInv'
  OBVIOUS
<1>1. CASE RecorderRuns BY <1>1, WaitRecorder
<1>2. CASE UNCHANGED vars
  <2>1. UNCHANGED <<queue, flow, entry, spare>> BY <1>2 DEF vars
  <2> QED BY <2>1 DEF WInv, WaitsOn, EntryAt, InTime, Pending, Late, Form
<1>3. CASE Effects
  <2>1. queue \in Seq(Tasks) /\ Passes - 1 \in Nat /\ Passes - 1 >= 1
    BY SetupAssumption DEF RInv
  <2>2. /\ spare.requeues \in Nat /\ spare'.requeues \in Nat
        /\ spare'.requeues <= spare.requeues /\ spare'.requeues <= 1
    BY SparesSteps DEF Spares, Less, Faults
  <2>3. PICK a \in Seq(Tasks) :
          /\ queue' = queue \o a
          /\ \A f \in Flows : WaitsAs(f, flow[f], flow'[f]) /\ Queued(f, flow[f], a)
    BY <1>3 DEF Effects
  <2>4. ASSUME NEW by, NEW left \in Nat, InTime(queue, by, left, spare.requeues),
               entry # None \/ \E f \in Flows : WaitsOn(flow[f])
        PROVE  InTime(queue', by, left, spare'.requeues)
    <3>1. \A g \in Flows, k \in Nat \ {0} : <<g, k>> \notin Imports(a)
      BY <2>3, <2>4, NoneRuns, OthersQueue
    <3>2. ~ Pending(a) BY <3>1, PendingImports
    <3>3. /\ Pending(queue \o a) => Pending(queue)
          /\ Late(queue \o a, by) => Late(queue, by)
      BY <2>1, <3>2, JoinedImports
    <3> QED BY <2>2, <2>3, <2>4, <3>3, StillInTime
  <2>5. ASSUME NEW f \in Flows, WaitsOn(flow'[f])
        PROVE  InTime(queue', Form(f), flow'[f].sub.left, spare'.requeues)
    <3>1. flow'[f].sub.left \in Nat BY <2>5, WaitLeft DEF IInv
    <3>2. CASE WaitsOn(flow[f]) /\ flow'[f].sub = flow[f].sub
      BY <2>4, <3>1, <3>2 DEF WInv
    <3>3. ASSUME NEW statistics \in SUBSET Statistics,
                 queue' = Append(queue, Removal(Form(f), statistics)),
                 \/ WaitsOn(flow[f]) /\ ~ Waiting(Form(f)) /\ flow[f].sub.left > 0
                    /\ flow'[f].sub.left = flow[f].sub.left - 1
                 \/ flow'[f].sub.left \in {1, Passes - 1}
          PROVE  InTime(queue', Form(f), flow'[f].sub.left, spare'.requeues)
      <4>1. Form(f) \in Waiters BY Known
      <4>2. \/ ~ Waiting(Form(f))
               /\ InTime(queue, Form(f), flow'[f].sub.left + 1, spare.requeues)
            \/ flow'[f].sub.left >= spare'.requeues
        <5>1. CASE /\ WaitsOn(flow[f]) /\ ~ Waiting(Form(f))
                   /\ flow'[f].sub.left = flow[f].sub.left - 1
          <6>1. flow[f].sub.left \in Nat BY <5>1, WaitLeft DEF IInv
          <6>2. flow'[f].sub.left + 1 = flow[f].sub.left BY <5>1, <6>1
          <6> QED BY <5>1, <6>2 DEF WInv
        <5>2. CASE flow'[f].sub.left \in {1, Passes - 1} BY <2>1, <2>2, <5>2
        <5> QED BY <3>3, <5>1, <5>2
      <4> QED BY <2>1, <2>2, <3>1, <3>3, <4>1, <4>2, PassInTime
    <3> QED BY <2>3, <2>5, <3>2, <3>3 DEF WaitsAs
  <2>6. ASSUME EntryAt("waiting")'
        PROVE  InTime(queue', Update, entry'.left, spare'.requeues)
    <3>1. Update \in Waiters /\ {} \in SUBSET Statistics BY DEF Waiters
    <3>2. CASE entry' = entry
      <4>1. EntryAt("waiting") /\ entry # None /\ entry.left \in Nat
        BY <2>6, <3>2 DEF EntryAt, IInv, EntryRecord
      <4> QED BY <2>4, <3>2, <4>1 DEF WInv
    <3>3. ASSUME entry'.left \in Nat, queue' = Append(queue, Barrier(Update)),
                 \/ ~ Waiting(Update)
                    /\ InTime(queue, Update, entry'.left + 1, spare.requeues)
                 \/ entry'.left >= spare'.requeues
          PROVE  InTime(queue', Update, entry'.left, spare'.requeues)
      BY <2>1, <2>2, <3>1, <3>3, PassInTime DEF Barrier
    <3>4. CASE UpdateBegins
      <4>1. entry'.left = Passes - 1 /\ queue' = Append(queue, Barrier(Update))
        BY <3>4 DEF UpdateBegins, EntryAt, IInv, EntryRecord
      <4> QED BY <2>1, <2>2, <3>3, <4>1
    <3>5. CASE UpdateWaits
      <4>1. /\ entry.left \in Nat /\ entry.left > 0 /\ entry'.left = entry.left - 1
            /\ ~ Waiting(Update) /\ EntryAt("waiting")
            /\ queue' = Append(queue, Barrier(Update))
        BY <3>5 DEF UpdateWaits, EntryAt, IInv, EntryRecord
      <4>2. entry'.left \in Nat /\ entry'.left + 1 = entry.left BY <4>1
      <4> QED BY <3>3, <4>1, <4>2 DEF WInv
    <3>6. CASE UpdateReads
      <4>1. entry'.at = "read" BY <3>6 DEF UpdateReads, EntryAt, IInv, EntryRecord
      <4> QED BY <2>6, <4>1 DEF EntryAt
    <3> QED BY <2>6, <3>2, <3>4, <3>5, <3>6, EntrySteps
  <2>7. /\ \A f \in Flows : WaitsOn(flow[f])' <=> WaitsOn(flow'[f])
        /\ \A f \in Flows : InTime(queue, Form(f), flow[f].sub.left, spare.requeues)'
                            <=> InTime(queue', Form(f), flow'[f].sub.left, spare'.requeues)
        /\ InTime(queue, Update, entry.left, spare.requeues)'
           <=> InTime(queue', Update, entry'.left, spare'.requeues)
    BY DEF WaitsOn, InTime, Pending, Late, Form
  <2> QED BY <2>5, <2>6, <2>7 DEF WInv
<1> QED BY <1>1, <1>2, <1>3, StepEffects

\* Nothing is left of what a wait that is over emptied, nor queued.
LEMMA EmptyOver ==
  ASSUME IInv, TInv, RInv, Spares, WInv, NEW f \in Flows, WaitOver(f, flow[f]),
         NEW k \in Nat \ {0}, NEW s, table[s] = {}
  PROVE  Absence(queue, table, <<f, k>>, s)
<1>1. ~ Pending(queue) BY OverWaited
<1>2. <<f, k>> \notin Imports(queue) BY <1>1, PendingImports DEF RInv
<1> QED BY <1>2 DEF Absence

LEMMA FinalBecame ==
  ASSUME IInv, TInv, RInv, HInv, Spares, WInv, FInv, NEW f \in Flows, NEW fl,
         NEW a \in Seq(Tasks), Became(f, flow[f], fl, a), Queued(f, flow[f], a)
  PROVE  OnlyFinal(f, fl, queue \o a, table)
<1> DEFINE old == flow[f]
<1>1. queue \in Seq(Tasks) /\ old.attempts \in Nat /\ FlowOK(old, entries, stopping)
  BY Known
<1> SUFFICES ASSUME Final(fl), NEW k \in Nat \ {0}, NEW s \in CreatedBy(fl)
             PROVE  Counts(fl, k) \/ Absence(queue \o a, table, <<f, k>>, s)
  BY DEF OnlyFinal
<1>2. <<f, k>> \in Authors /\ s \in Statistics BY DEF Authors, CreatedBy
<1>3. Absence(queue, table, <<f, k>>, s) /\ <<f, k>> \notin Imports(a)
        => Absence(queue \o a, table, <<f, k>>, s)
  BY <1>1, <1>2, StaysLeft
<1>4. <<f, k>> \in Imports(a) => Running(old) /\ k = old.attempts BY DEF Queued
<1>5. Final(old) /\ s \in CreatedBy(old) => Counts(old, k) \/ Absence(queue, table, <<f, k>>, s)
  BY DEF FInv, OnlyFinal
<1>6. WaitOver(f, old) => ~ Running(old) /\ old.imported = 0
  BY WaitsHolds DEF WaitOver, WaitsOn, Running
<1>7. CASE Kept(old, fl) /\ (Running(fl) <=> Running(old))
  <2>1. s \in CreatedBy(old) /\ (Counts(old, k) => Counts(fl, k))
        /\ (Running(old) /\ k = old.attempts => Counts(fl, k))
    BY <1>7 DEF Kept, CreatedBy, Counts
  <2>2. CASE Final(old) BY <1>3, <1>4, <1>5, <2>1, <2>2
  <2>3. CASE ~ Final(old)
    <3>1. ~ Running(old) /\ ~ old.created /\ old.step # "finish"
      BY <2>3 DEF Final, FInv
    <3>2. WaitOver(f, old) /\ Emptied(old)
      BY <1>7, <2>3, <3>1 DEF Became, Final, Kept
    <3>3. Absence(queue, table, <<f, k>>, s) BY <2>1, <3>2, EmptyOver DEF Emptied
    <3> QED BY <1>3, <1>4, <3>1, <3>3
  <2> QED BY <2>2, <2>3
<1>8. CASE Kept(old, fl) /\ ~ Running(fl) /\ Running(old)
  <2>1. /\ ~ old.created /\ old.step # "finish" /\ old.imported = 0 /\ ~ WaitOver(f, old)
    BY <1>6, <1>8, RunningOwns DEF Owns
  <2>2. fl.created /\ ~ old.created BY <1>8, <2>1 DEF Final, Kept
  <2> QED BY <2>1, <2>2 DEF Became
<1>9. CASE /\ Running(old) /\ ~ Running(fl) /\ old.imported = 0
           /\ fl.imported = old.attempts /\ fl.attempts = old.attempts
           /\ fl.existing = old.existing
  <2>1. s \in CreatedBy(old) /\ (Counts(old, k) => Counts(fl, k)) /\ Final(old)
        /\ (k = old.attempts => Counts(fl, k))
    BY <1>9 DEF CreatedBy, Counts, Final
  <2> QED BY <1>3, <1>4, <1>5, <2>1
<1>10. CASE Begun(f, old, fl)
  <2>1. WaitOver(f, old) /\ <<f, k>> \notin Imports(a)
    BY <1>4, <1>6, <1>10 DEF Begun
  <2>2. CASE old.attempts = 0
    <3>1. Absent(f, queue, table) BY <2>2 DEF HInv, LeftOK, Calm
    <3>2. Absence(queue, table, <<f, k>>, s) BY <1>2, <3>1 DEF Absent, Absence
    <3> QED BY <1>3, <2>1, <3>2
  <2>3. CASE old.attempts # 0
    <3>1. table[s] = {} BY <1>10, <2>3 DEF Begun, Emptied, CreatedBy
    <3>2. Absence(queue, table, <<f, k>>, s) BY <2>1, <3>1, EmptyOver
    <3> QED BY <1>3, <2>1, <3>2
  <2> QED BY <2>2, <2>3
<1> QED BY <1>7, <1>8, <1>9, <1>10 DEF Became

LEMMA FinalSteps ==
  IInv /\ IInv' /\ TInv /\ RInv /\ HInv /\ Spares /\ WInv /\ FInv /\ [Next]_vars
  => FInv'
<1> SUFFICES ASSUME IInv, IInv', TInv, RInv, HInv, Spares, WInv, FInv, [Next]_vars
             PROVE  FInv'
  OBVIOUS
<1>1. \A f \in Flows : OnlyFinal(f, flow[f], queue, table)'
                       <=> OnlyFinal(f, flow'[f], queue', table')
  BY DEF OnlyFinal, Final, CreatedBy, Counts, Running, Absence, Imports
<1>2. CASE RecorderRuns
  <2>1. /\ UNCHANGED <<flow, entry>> /\ Imports(queue') \subseteq Imports(queue)
        /\ \A s \in Statistics : table'[s] \subseteq table[s] \cup Imports(queue)
    BY <1>2, RecorderWrites
  <2>2. \A f \in Flows : OnlyFinal(f, flow[f], queue', table')
    BY <2>1 DEF FInv, OnlyFinal, Absence, CreatedBy
  <2> QED BY <1>1, <2>1, <2>2 DEF FInv
<1>3. CASE UNCHANGED vars
  <2>1. UNCHANGED <<table, queue, flow, entry>> BY <1>3 DEF vars
  <2> QED BY <1>1, <2>1 DEF FInv
<1>4. CASE Effects
  <2>1. PICK a \in Seq(Tasks) :
          /\ queue' = queue \o a /\ table' = table
          /\ \A f \in Flows : Became(f, flow[f], flow'[f], a) /\ Queued(f, flow[f], a)
    BY <1>4 DEF Effects
  <2>2. \A f \in Flows : OnlyFinal(f, flow'[f], queue \o a, table)
    BY <2>1, FinalBecame
  <2>3. \A f \in Flows : flow'[f].step = "finish" => flow'[f].imported > 0
    BY <2>1 DEF Became, Kept, FInv
  <2>4. entry' # None => entry'.by \in Flows /\ flow'[entry'.by].created
    BY <2>1, EntrySteps DEF FInv, Became
  <2> QED BY <1>1, <2>1, <2>2, <2>3, <2>4 DEF FInv
<1> QED BY <1>2, <1>3, <1>4, StepEffects

LEMMA FinalFirst == Init => WInv /\ FInv
<1> SUFFICES ASSUME Init PROVE WInv /\ FInv OBVIOUS
<1>1. entry = None /\ \A f \in Flows : flow[f] = NewFlow BY DEF Init
<1>2. \A f \in Flows : ~ WaitsOn(flow[f]) /\ ~ Final(flow[f]) /\ flow[f].step # "finish"
  <2>1. /\ NewFlow.sub = None /\ NewFlow.task = None /\ NewFlow.step = "none"
        /\ NewFlow.imported = 0 /\ NewFlow.created = FALSE
    BY DEF NewFlow
  <2>2. ~ WaitsOn(NewFlow) /\ ~ Final(NewFlow) BY <2>1 DEF WaitsOn, Final, Running
  <2> QED BY <1>1, <2>1, <2>2
<1> QED BY <1>1, <1>2 DEF WInv, FInv, OnlyFinal, EntryAt

\* An attempt, and the first update of the entry, starts with no import of an
\* earlier attempt queued, and with nothing of a failed one left in the statistics
\* its flow created, for any dialogs, attempts, closed dialogs, stops and waits
\* that time out, when a wait has more passes than the recorder queues imports
\* again (_async_wait_for_recorder, _async_prepare_import_rollback).
THEOREM StartsCleanly ==
  ASSUME OneRequeue, 1 < Passes
  PROVE  Spec => StartsClean
<1> DEFINE All == IInv /\ TInv /\ RInv /\ HInv /\ Spares /\ WInv /\ FInv
<1>1. Init => All
  BY InitHolds, TriedFirst, RowsFirst, HalfFirst, SparesFirst, FinalFirst
<1>2. All /\ [Next]_vars => All'
  BY StepHolds, TriedSteps, RowsSteps, HalfSteps, SparesSteps, WaitSteps, FinalSteps
<1>3. All /\ [Next]_vars =>
        [/\ \A f \in Flows : flow'[f].attempts > flow[f].attempts => NothingPending /\ Cleared(f)'
         /\ ~ EntryAt("read") /\ EntryAt("read")' => NothingPending /\ Cleared(entry.by)]_vars
  <2> SUFFICES ASSUME All, Next
               PROVE  /\ \A f \in Flows : flow'[f].attempts > flow[f].attempts =>
                           NothingPending /\ Cleared(f)'
                      /\ ~ EntryAt("read") /\ EntryAt("read")' =>
                           NothingPending /\ Cleared(entry.by)
    OBVIOUS
  <2>1. ~ Pending(queue) => NothingPending
    <3> SUFFICES ASSUME ~ Pending(queue), NEW f \in Flows, NEW k \in 1 .. MaxAttempts
                 PROVE  ~ Importing(<<f, k>>)
      BY DEF NothingPending
    <3>1. <<f, k>> # Entry BY DEF Entry
    <3> QED BY <3>1 DEF Importing, Pending, Import
  <2>2. \A k \in 1 .. MaxAttempts : k \in Nat \ {0} BY SetupAssumption
  <2>3. ASSUME NEW f \in Flows, flow'[f].attempts > flow[f].attempts
        PROVE  NothingPending /\ Cleared(f)'
    <3>1. flow[f].attempts \in Nat BY Known
    <3>2. ~ RecorderRuns /\ ~ UNCHANGED vars BY <2>3, <3>1 DEF RecorderRuns, vars
    <3>3. PICK a \in Seq(Tasks) : Became(f, flow[f], flow'[f], a) /\ table' = table
      BY <3>2, StepEffects DEF Effects
    <3>4. Begun(f, flow[f], flow'[f]) BY <2>3, <3>1, <3>3 DEF Became, Kept
    <3>5. WaitOver(f, flow[f]) BY <3>4 DEF Begun
    <3>6. NothingPending BY <2>1, <3>5, OverWaited
    <3>7. ASSUME NEW s \in CreatedBy(flow'[f]), NEW k \in 1 .. MaxAttempts
          PROVE  <<f, k>> \notin table'[s]
      <4>1. CASE flow[f].attempts = 0
        <5>1. Absent(f, queue, table) BY <4>1 DEF HInv, LeftOK, Calm
        <5> QED BY <2>2, <3>3, <5>1 DEF Absent, CreatedBy
      <4>2. CASE flow[f].attempts # 0
        <5>1. table[s] = {} BY <3>4, <4>2 DEF Begun, Emptied, CreatedBy
        <5> QED BY <3>3, <5>1
      <4> QED BY <4>1, <4>2
    <3>8. Cleared(f)' BY <3>7 DEF Cleared, CreatedBy
    <3> QED BY <3>6, <3>8
  <2>4. ASSUME ~ EntryAt("read"), EntryAt("read")'
        PROVE  NothingPending /\ Cleared(entry.by)
    <3>1. UpdateReads
      <4>1. entry' # entry BY <2>4 DEF EntryAt
      <4>2. CASE UpdateBegins \/ UpdateWaits
        <5>1. entry'.at = "waiting"
          BY <2>4, <4>2 DEF UpdateBegins, UpdateWaits, EntryAt, IInv, EntryRecord
        <5> QED BY <2>4, <5>1 DEF EntryAt
      <4> QED BY <2>4, <4>1, <4>2, EntrySteps
    <3>2. /\ EntryAt("waiting") /\ entry # None /\ ~ Waiting(Update) /\ entry.left = 0
          /\ spare.requeues \in Nat
      BY <3>1 DEF UpdateReads, EntryAt, Spares, Faults
    <3>3. InTime(queue, Update, 0, spare.requeues) BY <3>2 DEF WInv
    <3>4. NothingPending BY <2>1, <3>2, <3>3, WaitedFor
    <3>5. PICK f \in Flows : f = entry.by BY <3>2 DEF FInv
    <3>6. Final(flow[f]) /\ ~ Running(flow[f]) BY <3>2, <3>5, NoneRuns DEF FInv, Final
    <3>7. ASSUME NEW s \in CreatedBy(flow[f]), NEW k \in 1 .. MaxAttempts, <<f, k>> \in table[s]
          PROVE  k = flow[f].imported
      BY <2>2, <3>6, <3>7 DEF FInv, OnlyFinal, Absence, Counts
    <3>8. Cleared(f) BY <3>7 DEF Cleared
    <3> QED BY <3>4, <3>5, <3>8
  <2> QED BY <2>3, <2>4
<1> QED BY <1>1, <1>2, <1>3, PTL DEF Spec, StartsClean
===============================================================================
