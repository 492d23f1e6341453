------------------------------- MODULE SetupFlow -------------------------------
(***************************************************************************)
(* The setup of an entry (config_flow.py, MeridianEnergyConfigFlow): the   *)
(* forms a flow goes through, the import of the history with its rollback, *)
(* its retries, and the entry it creates, beside other flows for the same  *)
(* email and over a recorder that runs what is queued in order, later.     *)
(*                                                                         *)
(*   - a submission waits on Meridian or the recorder; one sent meanwhile  *)
(*     waits for it and is answered with the step the flow is at by then;  *)
(*   - a failed or cancelled attempt queues the removal of the statistics  *)
(*     the flow created, and nothing is imported again before it has run;  *)
(*   - the dialog may be closed, another flow may replace this one, and    *)
(*     Home Assistant may stop, at any time.                               *)
(*                                                                         *)
(* One property with one direction: an energy and a cost statistic.  Rows  *)
(* are given by who wrote them.                                            *)
(***************************************************************************)
EXTENDS Integers, Sequences, FiniteSets, SequencesExt

CONSTANTS
  None,
  Flows,        \* dialogs the user opens for the same email, one after another
  MaxAttempts,  \* SETUP_IMPORT_MAX_ATTEMPTS
  Passes,       \* barriers of a wait for the recorder (_RECORDER_PASSES)
  Trials        \* bound: what is stored at first, and what may befall a setup

Statistics == {"energy", "cost"}

\* Who wrote rows, besides an attempt: what was stored before every flow, and
\* the entry's updates.
History == <<"history", 0>>
Entry == <<"entry", 0>>
Update == <<"entry", "update">>

\* Imports the recorder queues again or drops, waits that time out, repeated
\* submissions, closed dialogs, and stops of Home Assistant.
Faults == {"requeues", "drops", "timeouts", "repeats", "closes", "stops"}

\* The entry, and how far its first update is.
EntryRecord == [by : Flows, at : {"new", "waiting", "read", "imported"},
                left : Nat, unconfirmed : BOOLEAN]

ASSUME SetupAssumption ==
  /\ MaxAttempts \in Nat \ {0} /\ Passes \in Nat \ {0}
  /\ None \notin EntryRecord
  /\ \A trial \in Trials : /\ trial.stored \subseteq Statistics
                           /\ trial.spare \in [Faults -> Nat]

VARIABLES
  table,     \* who wrote the rows of each statistic
  queue,     \* the recorder's tasks, oldest first
  flow,      \* MeridianEnergyConfigFlow, for each dialog
  entry,     \* the entry, once one is created
  entries,   \* history: how many were created
  stopping,  \* Home Assistant has started to stop
  spare      \* how much of each bound is left

vars == <<table, queue, flow, entry, entries, stopping, spare>>

Use(fault) == /\ spare[fault] > 0
              /\ spare' = [spare EXCEPT ![fault] = @ - 1]

-------------------------------------------------------------------------------
(***************************************************************************)
(* The recorder: it runs one task at a time, in order.                     *)
(***************************************************************************)
ImportTask(by, s) == [kind |-> "import", by |-> by, statistics |-> {s}]
Removal(by, statistics) == [kind |-> "removal", by |-> by, statistics |-> statistics]
Barrier(by) == Removal(by, {})

Writes(by) == <<ImportTask(by, "energy"), ImportTask(by, "cost")>>

Waiting(by) == \E k \in DOMAIN queue : queue[k].kind = "removal" /\ queue[k].by = by
Importing(by) == \E k \in DOMAIN queue : queue[k].kind = "import" /\ queue[k].by = by
Saved(by) == ~ Importing(by) /\ \A s \in Statistics : by \in table[s]

\* What it may do with the oldest task: run it, or fail to run an import.
RecorderRuns ==
  /\ queue # <<>>
  /\ LET task == Head(queue)
     IN  \/ /\ table' = [s \in Statistics |->
                           CASE s \notin task.statistics -> table[s]
                             [] task.kind = "import" -> table[s] \cup {task.by}
                             [] OTHER -> {}]
            /\ queue' = Tail(queue) /\ UNCHANGED spare
         \/ /\ task.kind = "import" /\ Use("requeues")
            /\ queue' = Append(Tail(queue), task) /\ UNCHANGED table
         \/ /\ task.kind = "import" /\ Use("drops")
            /\ queue' = Tail(queue) /\ UNCHANGED table
  /\ UNCHANGED <<flow, entry, entries, stopping>>

-------------------------------------------------------------------------------
(***************************************************************************)
(* A flow.                                                                 *)
(***************************************************************************)
Forms == {"user", "otp", "discovery_retry", "accounts", "import_failed",
          "import_failed_last"}
Steps == Forms \cup {"none", "initial_import", "finish", "gone"}

\* Steps a flow waits at, which a new setup for the same email replaces.
Parked == Forms \cup {"finish"}

\* A submission waits on Meridian, or on the recorder for what follows.
Submissions ==
  [name : {"send", "check", "discover"}]
    \cup [name : {"wait"}, goal : {"first", "retry", "entry"}, left : Nat]

Errors == {"upstream", "session", "other", "cancelled"}
Attempts == [at : {"fetching", "confirming", "visible", "rolling back"},
             error : Errors \cup {None}]

ASSUME AttemptAssumption == None \notin Attempts

FlowRecord ==
  [step : Steps, own : BOOLEAN, named : BOOLEAN, sub : Submissions \cup {None},
   repeats : {0, 1}, ended : {None, "abort", "entry"}, accounts : 0 .. 2,
   existing : SUBSET Statistics, attempts : Nat, task : Attempts \cup {None},
   error : Errors \cup {None}, unconfirmed : BOOLEAN, imported : Nat, created : BOOLEAN]

NewFlow ==
  [step |-> "none", own |-> FALSE, named |-> FALSE, sub |-> None, repeats |-> 0,
   ended |-> None, accounts |-> 0, existing |-> {}, attempts |-> 0,
   task |-> None, error |-> None, unconfirmed |-> FALSE, imported |-> 0,
   created |-> FALSE]

Live(fl) == fl.step \notin {"none", "gone"}

\* Mutant: what existed before the flow is not looked at.
CreatedAll(fl) == Statistics

\* The statistics a flow may remove: those it created.
CreatedBy(fl) == Statistics \ fl.existing

\* Which attempt writes, and whose wait a barrier or a removal is.
Attempt(f) == <<f, flow[f].attempts>>
Form(f) == <<f, "form">>
Task(f) == <<f, "task">>

Running(fl) == fl.task # None /\ fl.task.at # "rolling back"

\* An attempt fails or is cancelled: the removal of what the flow created is
\* queued, and waited for.
RolledBack(f, fl, error, unconfirmed) ==
  [fl EXCEPT !.task = [at |-> "rolling back", error |-> error],
             !.unconfirmed = @ \/ unconfirmed]
RollbackTasks(f, fl) ==
  IF CreatedBy(fl) = {} THEN <<>> ELSE <<Removal(Task(f), CreatedBy(fl))>>

\* The step after the progress, once an attempt has failed.
FailedAttempt(fl, error) ==
  [fl EXCEPT !.task = None, !.error = error, !.own = FALSE,
             !.step = IF @ = "gone" THEN @ ELSE "import_failed"]

\* A cancellation rolls an attempt back, or interrupts the wait for that.
Cancelled(f, fl) ==
  CASE Running(fl) -> RolledBack(f, fl, "cancelled", fl.task.at = "confirming")
    [] fl.task # None /\ ~ Running(fl) -> FailedAttempt(fl, "cancelled")
    [] OTHER -> fl

\* Mutant: only what is raised as an error is rolled back.
CancelledAsItIs(f, fl) == <<>>
CancelTasks(f, fl) == IF Running(fl) THEN RollbackTasks(f, fl) ELSE <<>>

\* A submission has ended; those that waited for it are answered next.
Ended(fl, how) == [fl EXCEPT !.sub = None, !.ended = how]

\* What Home Assistant does with an answer: nothing, once the flow is gone.
ShowForm(fl, step) ==
  IF fl.step = "gone" THEN Ended(fl, None)
  ELSE [Ended(fl, None) EXCEPT !.step = step, !.own = TRUE]
AbortFlow(fl) == [Ended(fl, "abort") EXCEPT !.step = "gone"]

Change(f, fl) == flow' = [flow EXCEPT ![f] = fl]
Only(f, fl) == Change(f, fl) /\ UNCHANGED <<table, queue, entry, entries, stopping, spare>>

-------------------------------------------------------------------------------
(***************************************************************************)
(* Submissions.                                                            *)
(***************************************************************************)
OpenDialog(f) ==
  /\ flow[f].step = "none" /\ ~ stopping
  /\ \A g \in Flows : Live(flow[g]) => flow[g].named
  /\ Only(f, [flow[f] EXCEPT !.step = "user", !.own = TRUE])

Submits(f) ==
  /\ flow[f].step \in Forms /\ flow[f].own /\ ~ flow[f].created
  /\ flow[f].sub = None /\ flow[f].repeats = 0

Handles(fl, name) == [fl EXCEPT !.sub = [name |-> name]]

\* The email: refused when configured, or while a flow for it is importing;
\* those parked are replaced.
Importers(f) == {g \in Flows \ {f} : Live(flow[g]) /\ flow[g].named
                                     /\ flow[g].step \notin Parked}
SubmitEmail(f) ==
  /\ Submits(f) /\ flow[f].step = "user"
  /\ flow' = [g \in Flows |->
       CASE g = f /\ (entry # None \/ Importers(f) # {}) -> AbortFlow(flow[f])
         [] g = f /\ entry = None /\ Importers(f) = {} ->
              Handles([flow[f] EXCEPT !.named = TRUE], "send")
         [] g # f /\ entry = None /\ flow[g].named /\ flow[g].step \in Parked ->
              [flow[g] EXCEPT !.step = "gone"]
         [] OTHER -> flow[g]]
  /\ UNCHANGED <<table, queue, entry, entries, stopping, spare>>

SubmitCode(f) ==
  /\ Submits(f) /\ flow[f].step = "otp"
  /\ Only(f, Handles(flow[f], "check"))

\* A wait for the recorder, in passes: what it is for, and the barriers to
\* queue after the one waited for.
Waits(fl, goal, left) ==
  [fl EXCEPT !.sub = [name |-> "wait", goal |-> goal, left |-> left]]

\* The first attempt waits for what earlier setups left queued.
Prepares(f, fl) ==
  /\ Change(f, Waits(fl, "first", Passes - 1))
  /\ queue' = Append(queue, Barrier(Form(f)))

\* Mutant: one pass, behind the removal.
RollsBackOnce(f, fl, goal) ==
  /\ Change(f, Waits(fl, goal, 0))
  /\ queue' = Append(queue, Removal(Form(f), CreatedBy(fl)))

\* What is repeated before a retry, or before an entry without history.
RollsBack(f, fl, goal) ==
  IF CreatedBy(fl) # {}
  THEN /\ Change(f, Waits(fl, goal, 1))
       /\ queue' = Append(queue, Removal(Form(f), CreatedBy(fl)))
  ELSE /\ Change(f, Waits(fl, goal, Passes - 1))
       /\ queue' = Append(queue, Barrier(Form(f)))

SubmitAccounts(f) ==
  /\ Submits(f) /\ flow[f].step = "accounts"
  /\ Prepares(f, flow[f])
  /\ UNCHANGED <<table, entry, entries, stopping, spare>>

SubmitDiscovery(f) ==
  /\ Submits(f) /\ flow[f].step = "discovery_retry"
  /\ IF flow[f].accounts = 1 THEN Prepares(f, flow[f])
     ELSE Change(f, Handles(flow[f], "discover")) /\ UNCHANGED queue
  /\ UNCHANGED <<table, entry, entries, stopping, spare>>

OffersWithoutHistory(fl) == fl.error = "upstream"

\* A retry, or an entry without history, once enough time has passed.
SubmitFailed(f) ==
  /\ Submits(f) /\ flow[f].step = "import_failed"
  /\ \/ RollsBack(f, flow[f], "retry")
     \/ OffersWithoutHistory(flow[f]) /\ RollsBack(f, flow[f], "entry")
  /\ UNCHANGED <<table, entry, entries, stopping, spare>>

SubmitLast(f) ==
  /\ Submits(f) /\ flow[f].step = "import_failed_last"
  /\ \/ Change(f, AbortFlow(flow[f])) /\ UNCHANGED queue
     \/ RollsBack(f, flow[f], "entry")
  /\ UNCHANGED <<table, entry, entries, stopping, spare>>

\* A form sent again while the first is handled, or once the entry is created.
SubmitAgain(f) ==
  /\ flow[f].step \in Parked /\ flow[f].repeats = 0
  /\ flow[f].sub # None \/ flow[f].created
  /\ Use("repeats")
  /\ Change(f, [flow[f] EXCEPT !.repeats = 1])
  /\ UNCHANGED <<table, queue, entry, entries, stopping>>

\* Mutant: it is answered with the form it came from.
RepeatedForm(fl) == "form"

\* What it is answered with: the abort, the step the flow is at, or, after an
\* entry was created, an abort once the flow has ended.
RepeatAnswer(fl) ==
  IF fl.created \/ fl.ended = "entry" THEN "late abort"
  ELSE IF fl.ended = "abort" THEN "abort" ELSE "current step"

AnswerRepeat(f) ==
  LET fl == [flow[f] EXCEPT !.repeats = 0]
  IN  /\ flow[f].repeats > 0 /\ flow[f].sub = None
      /\ RepeatAnswer(fl) = "late abort" => fl.step = "gone"
      /\ CASE RepeatAnswer(fl) = "form" /\ Running(fl) ->
                /\ Change(f, [Cancelled(f, fl) EXCEPT !.step = "otp", !.own = TRUE])
                /\ queue' = queue \o CancelTasks(f, fl)
           [] OTHER -> Change(f, fl) /\ UNCHANGED queue
      /\ UNCHANGED <<table, entry, entries, stopping, spare>>

-------------------------------------------------------------------------------
(***************************************************************************)
(* What Meridian, and the recorder, answer.                                *)
(***************************************************************************)
Handling(f, name) == flow[f].sub # None /\ flow[f].sub.name = name

CodeSent(f) ==
  /\ Handling(f, "send")
  /\ \E step \in {"otp", "user"} : Only(f, ShowForm(flow[f], step))

CodeChecked(f) ==
  /\ Handling(f, "check")
  /\ \/ Only(f, ShowForm(flow[f], "otp"))
     \/ Only(f, Handles(flow[f], "discover"))

\* One account is imported at once; of several, the user chooses.
AccountsFound(f) ==
  /\ Handling(f, "discover")
  /\ \/ Change(f, ShowForm(flow[f], "discovery_retry")) /\ UNCHANGED queue
     \/ Change(f, AbortFlow(flow[f])) /\ UNCHANGED queue
     \/ Prepares(f, [flow[f] EXCEPT !.accounts = 1])
     \/ /\ Change(f, ShowForm([flow[f] EXCEPT !.accounts = 2], "accounts"))
        /\ UNCHANGED queue
  /\ UNCHANGED <<table, entry, entries, stopping, spare>>

\* The form a wait that ran out of time comes back to.
FormOf(fl) ==
  IF fl.sub.goal # "first" THEN fl.step
  ELSE IF fl.accounts = 1 THEN "discovery_retry" ELSE "accounts"

PassEnds(f) ==
  /\ Handling(f, "wait") /\ ~ Waiting(Form(f)) /\ flow[f].sub.left > 0
  /\ Change(f, [flow[f] EXCEPT !.sub.left = @ - 1])
  /\ queue' = Append(queue, Barrier(Form(f)))
  /\ UNCHANGED <<table, entry, entries, stopping, spare>>

\* Mutant: nothing is looked at after the wait.
StopsNever(fl) == FALSE

\* A removed flow, or one that outlives Home Assistant, starts nothing.
Stops(fl) == fl.step = "gone" \/ stopping

GivesUp(fl) == IF Stops(fl) THEN AbortFlow(fl) ELSE ShowForm(fl, FormOf(fl))
NotReady(f) == Only(f, GivesUp(flow[f]))

\* The wait for the recorder ran out: its tasks stay queued.
WaitTimesOut(f) ==
  /\ Handling(f, "wait") /\ Waiting(Form(f)) /\ Use("timeouts")
  /\ Change(f, GivesUp(flow[f]))
  /\ UNCHANGED <<table, queue, entry, entries, stopping>>

Waited(f) == Handling(f, "wait") /\ ~ Waiting(Form(f)) /\ flow[f].sub.left = 0

\* Whether nothing of a failed attempt is left in what the flow created.
Ready(fl) == fl.sub.goal = "first" \/ \A s \in CreatedBy(fl) : table[s] = {}

\* Mutant: what was half saved in kept statistics is forgotten too.
SettledAll(fl) ==
  IF fl.sub.goal = "first"
  THEN [fl EXCEPT !.existing = {s \in Statistics : table[s] # {}}]
  ELSE [fl EXCEPT !.unconfirmed = FALSE]

\* What the wait leaves: what existed before the flow, or that nothing of a
\* unit is half saved when all of it was removed.
Settled(fl) ==
  IF fl.sub.goal = "first"
  THEN [fl EXCEPT !.existing = {s \in Statistics : table[s] # {}}]
  ELSE IF CreatedBy(fl) = Statistics THEN [fl EXCEPT !.unconfirmed = FALSE]
  ELSE fl

StartAttempt(f) ==
  /\ Waited(f) /\ flow[f].sub.goal # "entry"
  /\ IF ~ Ready(flow[f]) \/ Stops(flow[f]) THEN NotReady(f)
     ELSE Only(f, [Ended(Settled(flow[f]), None) EXCEPT
                     !.attempts = @ + 1, !.task = [at |-> "fetching", error |-> None],
                     !.error = None, !.imported = 0,
                     !.step = IF @ = "gone" THEN @ ELSE "initial_import", !.own = FALSE])

-------------------------------------------------------------------------------
(***************************************************************************)
(* An attempt at the import.                                               *)
(***************************************************************************)
AttemptAt(f, at) == flow[f].task # None /\ flow[f].task.at = at
Moves(f, at) == [flow[f] EXCEPT !.task.at = at]

\* Meridian's service fails or is too slow, the session is rejected, or
\* something else fails, before anything is written.
FetchFails(f) ==
  /\ AttemptAt(f, "fetching")
  /\ \E error \in {"upstream", "session", "other"} :
       Change(f, RolledBack(f, flow[f], error, FALSE))
  /\ queue' = queue \o RollbackTasks(f, flow[f])
  /\ UNCHANGED <<table, entry, entries, stopping, spare>>

\* The replay queues its writes and a barrier behind them.
QueueImport(f) ==
  /\ AttemptAt(f, "fetching")
  /\ Change(f, Moves(f, "confirming"))
  /\ queue' = queue \o Append(Writes(Attempt(f)), Barrier(Task(f)))
  /\ UNCHANGED <<table, entry, entries, stopping, spare>>

ImportConfirmed(f) ==
  /\ AttemptAt(f, "confirming") /\ ~ Waiting(Task(f)) /\ Saved(Attempt(f))
  /\ Only(f, [Moves(f, "visible") EXCEPT !.unconfirmed = FALSE])

\* Rows queued again, behind its barrier, are waited for once more.
ConfirmAgain(f) ==
  /\ AttemptAt(f, "confirming") /\ ~ Waiting(Task(f)) /\ Importing(Attempt(f))
  /\ queue' = Append(queue, Barrier(Task(f)))
  /\ UNCHANGED <<table, flow, entry, entries, stopping, spare>>

ImportUnconfirmed(f) ==
  /\ AttemptAt(f, "confirming")
  /\ IF Waiting(Task(f)) THEN Use("timeouts") ELSE ~ Saved(Attempt(f)) /\ UNCHANGED spare
  /\ Change(f, RolledBack(f, flow[f], "other", TRUE))
  /\ queue' = queue \o RollbackTasks(f, flow[f])
  /\ UNCHANGED <<table, entry, entries, stopping>>

\* The last check of what it wrote never fails an attempt.
AttemptSucceeds(f) ==
  /\ AttemptAt(f, "visible")
  /\ Only(f, [flow[f] EXCEPT !.task = None, !.imported = flow[f].attempts,
                             !.step = IF @ = "gone" THEN @ ELSE "finish", !.own = FALSE])

\* The removal has run, or the wait for it ran out: the failure is shown.
RollbackEnds(f) ==
  /\ AttemptAt(f, "rolling back")
  /\ IF Waiting(Task(f)) THEN Use("timeouts") ELSE UNCHANGED spare
  /\ Change(f, FailedAttempt(flow[f], flow[f].task.error))
  /\ UNCHANGED <<table, queue, entry, entries, stopping>>

\* Mutant: the last attempt allowed is not looked for.
FailureEndless(fl) == ShowForm(fl, "import_failed")

\* The form after a failure; a rejected session, and the last attempt allowed
\* without Meridian's service at fault, end the setup.
Failure(fl) ==
  CASE fl.error = "session" -> AbortFlow(fl)
    [] fl.error # "session" /\ fl.attempts < MaxAttempts -> ShowForm(fl, "import_failed")
    [] OTHER -> IF OffersWithoutHistory(fl) THEN ShowForm(fl, "import_failed_last")
                ELSE AbortFlow(fl)

\* The dialog asks for the step after the progress.
ShowFailure(f) ==
  /\ flow[f].step = "import_failed" /\ ~ flow[f].own
  /\ Only(f, Failure(flow[f]))

-------------------------------------------------------------------------------
(***************************************************************************)
(* The entry.                                                              *)
(***************************************************************************)
\* Mutant: asked for again, it creates an entry again.
MayFinishAgain(fl) == TRUE
MayFinish(fl) == ~ fl.created

\* Home Assistant adds the entry, whose first update begins while it does.
CreateEntry(f, fl) ==
  /\ Change(f, [Ended(fl, "entry") EXCEPT !.created = TRUE])
  /\ entry' = [by |-> f, at |-> "new", left |-> 0, unconfirmed |-> fl.unconfirmed]
  /\ entries' = entries + 1
  /\ UNCHANGED <<table, queue, stopping, spare>>

Finish(f) ==
  /\ flow[f].step = "finish" /\ MayFinish(flow[f])
  /\ CreateEntry(f, flow[f])

FinishWithout(f) ==
  /\ Waited(f) /\ flow[f].sub.goal = "entry"
  /\ IF ~ Ready(flow[f]) \/ Stops(flow[f]) THEN NotReady(f)
     ELSE CreateEntry(f, Settled(flow[f]))

\* Home Assistant has added the entry, and ends the flow.
EntryAdded(f) ==
  /\ flow[f].created /\ flow[f].step # "gone"
  /\ Only(f, [flow[f] EXCEPT !.step = "gone"])

\* The entry's first update waits in passes, and is tried again later when the
\* recorder is still behind; then it reads what is stored, and imports.
EntryAt(at) == entry # None /\ entry.at = at

UpdateBegins ==
  /\ EntryAt("new") /\ ~ stopping
  /\ entry' = [entry EXCEPT !.at = "waiting", !.left = Passes - 1]
  /\ queue' = Append(queue, Barrier(Update))
  /\ UNCHANGED <<table, flow, entries, stopping, spare>>

UpdateWaits ==
  /\ EntryAt("waiting") /\ ~ Waiting(Update) /\ entry.left > 0
  /\ entry' = [entry EXCEPT !.left = @ - 1]
  /\ queue' = Append(queue, Barrier(Update))
  /\ UNCHANGED <<table, flow, entries, stopping, spare>>

\* Home Assistant tries again later.
UpdateGivesUp ==
  /\ EntryAt("waiting") /\ Waiting(Update) /\ Use("timeouts")
  /\ entry' = [entry EXCEPT !.at = "new"]
  /\ UNCHANGED <<table, queue, flow, entries, stopping>>

UpdateReads ==
  /\ EntryAt("waiting") /\ ~ Waiting(Update) /\ entry.left = 0
  /\ entry' = [entry EXCEPT !.at = "read"]
  /\ UNCHANGED <<table, queue, flow, entries, stopping, spare>>

UpdateImports ==
  /\ EntryAt("read") /\ ~ stopping
  /\ entry' = [entry EXCEPT !.at = "imported"]
  /\ queue' = queue \o Writes(Entry)
  /\ UNCHANGED <<table, flow, entries, stopping, spare>>

-------------------------------------------------------------------------------
(***************************************************************************)
(* The user and Home Assistant.                                            *)
(***************************************************************************)
\* The dialog is closed: the flow is removed, and its attempt cancelled.
CloseDialog(f) ==
  /\ Live(flow[f]) /\ ~ flow[f].created /\ Use("closes")
  /\ Change(f, [Cancelled(f, flow[f]) EXCEPT !.step = "gone"])
  /\ queue' = queue \o CancelTasks(f, flow[f])
  /\ UNCHANGED <<table, entry, entries, stopping>>

\* Home Assistant stops: attempts are cancelled while the recorder still runs.
Stop ==
  /\ ~ stopping /\ Use("stops") /\ stopping' = TRUE
  /\ flow' = [f \in Flows |-> Cancelled(f, flow[f])]
  /\ queue' = queue \o FlattenSeq(SetToSeq({CancelTasks(f, flow[f]) : f \in Flows}))
  /\ UNCHANGED <<table, entry, entries>>

\* The recorder's last write includes what is queued.  Flows, and what is only
\* remembered of the entry, are lost; what a flow was is kept as a history.
Restart ==
  /\ stopping /\ queue = <<>> /\ stopping' = FALSE
  /\ flow' = [f \in Flows |->
       IF flow[f].step = "none" THEN flow[f]
       ELSE [flow[f] EXCEPT !.step = "gone", !.sub = None, !.task = None, !.repeats = 0]]
  /\ entry' = IF entry = None THEN None
              ELSE [entry EXCEPT !.unconfirmed = FALSE,
                                 !.at = IF @ = "imported" THEN @ ELSE "new"]
  /\ UNCHANGED <<table, queue, entries, spare>>

Step(f) ==
  \/ OpenDialog(f) \/ SubmitEmail(f) \/ SubmitCode(f) \/ SubmitAccounts(f)
  \/ SubmitDiscovery(f) \/ SubmitFailed(f) \/ SubmitLast(f) \/ SubmitAgain(f)
  \/ AnswerRepeat(f) \/ CodeSent(f) \/ CodeChecked(f) \/ AccountsFound(f)
  \/ PassEnds(f) \/ WaitTimesOut(f) \/ StartAttempt(f) \/ FetchFails(f)
  \/ QueueImport(f) \/ ImportConfirmed(f) \/ ConfirmAgain(f) \/ ImportUnconfirmed(f)
  \/ AttemptSucceeds(f) \/ RollbackEnds(f) \/ ShowFailure(f) \/ Finish(f)
  \/ FinishWithout(f) \/ EntryAdded(f) \/ CloseDialog(f)

Init ==
  /\ \E trial \in Trials :
       /\ table = [s \in Statistics |-> IF s \in trial.stored THEN {History} ELSE {}]
       /\ spare = trial.spare
  /\ queue = <<>> /\ flow = [f \in Flows |-> NewFlow]
  /\ entry = None /\ entries = 0 /\ stopping = FALSE

Next ==
  \/ RecorderRuns \/ UpdateBegins \/ UpdateWaits \/ UpdateGivesUp
  \/ UpdateReads \/ UpdateImports
  \/ Stop \/ Restart
  \/ \E f \in Flows : Step(f)

Spec == Init /\ [][Next]_vars

-------------------------------------------------------------------------------
\* Every variable keeps to its values; no flow makes more attempts than allowed.
TypeOK ==
  /\ DOMAIN table = Statistics
  /\ \A k \in DOMAIN queue : /\ queue[k].kind \in {"import", "removal"}
                             /\ queue[k].statistics \subseteq Statistics
  /\ flow \in [Flows -> FlowRecord]
  /\ \A f \in Flows : flow[f].attempts <= MaxAttempts
  /\ entry \in EntryRecord \cup {None} /\ entries \in Nat /\ stopping \in BOOLEAN /\ spare \in [Faults -> Nat]

\* At most one import runs, and the dialog of its flow shows its progress: no
\* submission, repeated or answered late, starts one beside it or moves its flow
\* to a form it could not be submitted from (_async_submit, _current_step,
\* _async_start_attempt).
ImportsAreOwned ==
  /\ \A f, g \in Flows : Running(flow[f]) /\ Running(flow[g]) => f = g
  /\ \A f \in Flows : Running(flow[f]) => flow[f].step = "initial_import" /\ ~ stopping
  /\ \A f \in Flows : flow[f].task # None => flow[f].step \in {"initial_import", "gone"}

\* At most one entry is created for an email, whatever is asked again while it
\* is set up (_answer_after_entry).
EntryOnce == entries <= 1

\* An attempt, and the first update of the entry, starts with no import of an
\* earlier attempt still queued, and with nothing a failed attempt left in the
\* statistics its flow created (_async_rollback_complete,
\* _async_prepare_import_rollback, _async_wait_for_recorder).
NothingPending == \A f \in Flows, k \in 1 .. MaxAttempts : ~ Importing(<<f, k>>)
Cleared(f) == \A s \in CreatedBy(flow[f]), k \in 1 .. MaxAttempts :
                <<f, k>> \in table[s] => k = flow[f].imported
StartsClean ==
  [][/\ \A f \in Flows : flow'[f].attempts > flow[f].attempts => NothingPending /\ Cleared(f)'
     /\ ~ EntryAt("read") /\ EntryAt("read")' => NothingPending /\ Cleared(entry.by)]_vars

\* What was stored before every flow, what an import that succeeded wrote and
\* what the entry wrote is never removed (_flow_created_statistic_ids).
Succeeded == {<<f, flow[f].imported>> : f \in {g \in Flows : flow[g].imported > 0}}
RowsAreKept ==
  [][\A s \in Statistics :
       (table[s] \ table'[s]) \cap ({History, Entry} \cup Succeeded) = {}]_vars

\* An entry knows of an hour an earlier attempt saved in one of the two
\* statistics only, and no later one imported again (unconfirmed, memory).
HalfSaved(f) ==
  \E k \in 1 .. flow[f].attempts :
    /\ \E s \in Statistics : <<f, k>> \in table[s]
    /\ \E s \in Statistics : <<f, k>> \notin table[s]
    /\ \A j \in k + 1 .. flow[f].attempts : \E s \in Statistics : <<f, j>> \notin table[s]
HalfSavedIsKnown ==
  [][entries' > entries => (HalfSaved(entry'.by) => entry'.unconfirmed)]_vars

\* Once every setup has ended and the recorder has nothing left to do, nothing
\* of a failed or cancelled attempt is left in a statistic its flow created,
\* whether the dialog was closed or Home Assistant stopped; unless the recorder
\* queued an import again, behind the removal.
NothingIsLeft ==
  (/\ queue = <<>> /\ entry = None /\ spare.requeues > 0
   /\ \A f \in Flows : ~ Live(flow[f]) /\ flow[f].task = None)
    => \A f \in Flows : Cleared(f)
===============================================================================
