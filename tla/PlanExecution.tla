--------------------------- MODULE PlanExecution ----------------------------
(***************************************************************************)
(* One PlanRun: the executor task walks the rounds and batches of a plan,  *)
(* creates a child Run for every item, waits for it, retries it and        *)
(* declares the outcome, while users stop the plan run, the watchdog times *)
(* it out and readers repair it.  They share nothing but rows.             *)
(*                                                                         *)
(*   executors   tasks/plan_executor.py   execute_plan_task                *)
(*   closers     services/plan_service.py stop_plan_run, timeout watchdog  *)
(*   readers     services/plan_service.py get_plan_run, list_plan_runs     *)
(*                                                                         *)
(* The message is acknowledged late (core/celery_app.py), so it may be     *)
(* delivered again to a second executor while the first is still at work.  *)
(* A child Run is what RunContract promises: active, then ended for good,  *)
(* its end possibly corrected.                                             *)
(***************************************************************************)
EXTENDS Integers, Sequences, FiniteSets

CONSTANTS
    NumItems,       \* task items of the plan, numbered in launch order
    Batches,        \* the plan's stages: sets of items; {} is a sleep postprocessor
    TotalRounds,    \* Plan.total_round
    AbortItems,     \* items whose on_failure is ABORT (the others CONTINUE or SKIP)
    MaxRetries,     \* retry_count of the items in RetryItems
    RetryItems,
    Executors,      \* deliveries of the execute_plan_task message
    First,          \* the first of them
    Stoppers,       \* calls of stop_plan_run
    Watchdogs,      \* the beat's timeout_governance_watchdog_task
    Readers,        \* requests for the plan run's page
    LongRuns,       \* TRUE: a run may outlast RUN_POLL_TIMEOUT
    Corrections,    \* TRUE: the end of a run may be corrected afterwards
    SnapshotReads   \* TRUE: a transaction re-reads what it first saw (MySQL default)

Items == 1..NumItems
Rounds == 1..TotalRounds
Runs == Rounds \X Items \X (0..MaxRetries)
Closers == Stoppers \cup Watchdogs

ASSUME PlanAssumption ==
    /\ NumItems \in Nat /\ TotalRounds \in Nat \ {0} /\ MaxRetries \in Nat
    /\ Batches \in Seq(SUBSET Items) /\ Batches # <<>>
    /\ \A i \in Items : \E b \in 1..Len(Batches) : i \in Batches[b]
    /\ \A b, c \in 1..Len(Batches) : b # c => Batches[b] \cap Batches[c] = {}
    /\ AbortItems \subseteq Items /\ RetryItems \subseteq Items
ASSUME ProcessAssumption ==
    /\ First \in Executors
    /\ LongRuns \in BOOLEAN /\ Corrections \in BOOLEAN /\ SnapshotReads \in BOOLEAN

Terminal == {"succeeded", "failed", "stopped"}
PlanRunStatus == {"preparing", "running"} \cup Terminal
\* A Run stopped with stop_reason "alert_policy:..." is told from one stopped by hand.
RunEnded == {"succeeded", "failed", "stopped", "alert_stopped"}
RunStatus == {"none", "active"} \cup RunEnded
\* What PlanRun.status_detail says of a failure: a launch failure is a marker and
\* survives every merge, the executor's closing words only until the next one.
Cause == {"none", "launch_failed", "executor_failed"}
PlanRun == [status : PlanRunStatus, launched : SUBSET Runs, cause : Cause]

VARIABLES
    planRun,      \* the committed PlanRun row
    planStatus,   \* Plan.status: "ready" or "running"
    run,          \* status of the child Run of each idempotency key
    ex,           \* the local state of each executor
    closer,       \* the local state of each closer
    reader,       \* the local state of each reader
    started,      \* runs whose execution thread was started
    overdue,      \* the plan run is past its timeout and grace
    won,          \* history: runs that ever ended succeeded
    late          \* history: runs an executor started since the plan run ended

vars == <<planRun, planStatus, run, started, ex, closer, reader, overdue, won, late>>
runs == <<run, started, won>>
others == <<closer, reader, overdue>>

NoSnapshot == [status |-> "none", alerts |-> {}]
Snapshot == [status : PlanRunStatus \cup {"none"}, alerts : SUBSET Runs]

NewExecutor ==
    [pc |-> "queued", round |-> 1, batch |-> 1,
     launching |-> {},     \* items of the batch still to be launched
     todo |-> {},          \* items of the batch launched and not yet decided
     attempt |-> 0,        \* attempt of the item being waited for
     result |-> "none",    \* what _wait_for_run returned
     failed |-> {},        \* failed_items
     roundLost |-> FALSE,  \* an ABORT item of the batch failed
     aborted |-> FALSE, stopped |-> FALSE,
     ids |-> {},           \* launched_run_ids
     raised |-> FALSE,     \* in the except branch
     snap |-> NoSnapshot]  \* what the session's open transaction sees

Init ==
    /\ planRun = [status |-> "preparing", launched |-> {}, cause |-> "none"]
    /\ planStatus = "ready"
    /\ run = [k \in Runs |-> "none"]
    /\ ex = [x \in Executors |-> NewExecutor]
    /\ closer = [c \in Closers |-> [pc |-> "idle", ids |-> {}]]
    /\ reader = [r \in Readers |-> [pc |-> "idle", verdict |-> "none"]]
    /\ started = {} /\ overdue = FALSE /\ won = {} /\ late = {}

-----------------------------------------------------------------------------
(* Rows, transactions and child runs *)

Active(k) == run[k] = "active"
Ended == planRun.status \in Terminal

\* What the executor's session sees: the open transaction's snapshot, or the rows.
Now == [status |-> planRun.status, alerts |-> {k \in Runs : run[k] = "alert_stopped"}]
Seen(x) == IF SnapshotReads /\ ex[x].snap # NoSnapshot THEN ex[x].snap ELSE Now
\* Mutant: the session's look at the plan run is left out.
SeesNothing(x) == FALSE
SeesEnd(x) == Seen(x).status \in Terminal

\* A task that is over, its session closed.
Gone(label) == [NewExecutor EXCEPT !.pc = label]
Become(x, state) == ex' = [ex EXCEPT ![x] = state]

\* _merge_plan_run_status_detail, as far as the causes of a failure go.
Merge(held, new) == IF held = "launch_failed" THEN held ELSE new

\* Write the status column of the plan run; a run started before it is revived is not late.
SetStatus(status, cause) ==
    /\ planRun' = [planRun EXCEPT !.status = status, !.cause = Merge(@, cause)]
    /\ late' = IF status \in Terminal THEN late ELSE {}

\* create_run: the idempotency key is unique, an existing Run is returned as it is.
CreatedRun(k) == [run EXCEPT ![k] = IF @ = "none" THEN "active" ELSE @]

\* A Run ends (its worker, a user, an alert policy, the watchdog), or its end is
\* corrected: RunContract's End.  Only a run that was started can succeed.
RunEnds(k) ==
    /\ Active(k) \/ (Corrections /\ run[k] # "none")
    /\ \E s \in RunEnded :
          /\ s = "succeeded" => k \in started
          /\ run' = [run EXCEPT ![k] = s]
          /\ won' = IF s = "succeeded" THEN won \cup {k} ELSE won
    /\ UNCHANGED <<planRun, planStatus, started, ex, others, late>>

-----------------------------------------------------------------------------
(* The executor: entry *)

\* execute_plan's thread could not enqueue the message.
NotSent(x) ==
    /\ x = First /\ ex[x].pc = "queued"
    /\ IF planRun.status = "preparing"
       THEN SetStatus("failed", "none") ELSE UNCHANGED <<planRun, late>>
    /\ Become(x, Gone("done"))
    /\ UNCHANGED <<planStatus, runs, others>>

\* The terminal guard.  A redelivery comes while the first delivery is unacknowledged.
Enter(x) ==
    /\ ex[x].pc = "queued"
    /\ x = First \/ ex[First].pc \notin {"queued", "done"}
    /\ Become(x, IF Ended THEN Gone("done") ELSE [ex[x] EXCEPT !.pc = "mark"])
    /\ UNCHANGED <<planRun, planStatus, runs, others, late>>

\* Plan.status := RUNNING, in a transaction of its own.
MarkPlan(x) ==
    /\ ex[x].pc = "mark"
    /\ planStatus' = "running"
    /\ Become(x, [ex[x] EXCEPT !.pc = "begin"])
    /\ UNCHANGED <<planRun, runs, others, late>>

\* PlanRun.status := RUNNING.  The commit before expired the row, so the column is
\* written whatever it holds by now.
Begin(x) ==
    /\ ex[x].pc = "begin"
    /\ SetStatus("running", "none")
    /\ Become(x, [ex[x] EXCEPT !.pc = "batch"])
    /\ UNCHANGED <<planStatus, runs, others>>

-----------------------------------------------------------------------------
(* The executor: walking the rounds and batches.  The operators below return *)
(* the executor's next local state.                                          *)

\* Mutant: one batch too many.
NextBatchPastEnd(me) == [me EXCEPT !.batch = @ + 1, !.pc = "batch"]
\* The next batch of the round, the next round, or the end.  Starting a round commits.
NextBatch(me) ==
    IF me.roundLost /\ me.round = TotalRounds
    THEN [me EXCEPT !.aborted = TRUE, !.pc = "finish"]
    ELSE IF ~me.roundLost /\ me.batch < Len(Batches)
         THEN [me EXCEPT !.batch = @ + 1, !.pc = "batch"]
         ELSE IF me.round < TotalRounds
              THEN [me EXCEPT !.round = @ + 1, !.batch = 1, !.roundLost = FALSE,
                              !.pc = "batch", !.snap = NoSnapshot]
              ELSE [me EXCEPT !.pc = "finish"]

\* After an item: launch the next one, wait for the next one, or leave the batch.
NextItem(me) ==
    IF me.launching # {} THEN [me EXCEPT !.pc = "guard"]
    ELSE IF me.todo # {} THEN [me EXCEPT !.pc = "enter"]
         ELSE NextBatch(me)

\* The plan run was seen to have ended: leave all loops.
LeaveStopped(me) ==
    [me EXCEPT !.stopped = TRUE, !.pc = "finish", !.launching = {}, !.todo = {},
               !.attempt = 0, !.result = "none"]

\* Mutants: a failure is not appended to failed_items; on_failure is ignored.
FailsUnrecorded(me, i) ==
    [me EXCEPT !.launching = @ \ {i}, !.todo = @ \ {i}, !.attempt = 0, !.result = "none"]
FailsWithoutAbort(me, i) ==
    [me EXCEPT !.failed = @ \cup {<<me.round, i>>}, !.launching = @ \ {i},
               !.todo = @ \ {i}, !.attempt = 0, !.result = "none"]
\* The item failed for good: failed_items, and on_failure.
Fails(me, i) ==
    [me EXCEPT !.failed = @ \cup {<<me.round, i>>},
               !.roundLost = @ \/ i \in AbortItems,
               !.launching = @ \ {i}, !.todo = @ \ {i}, !.attempt = 0,
               !.result = "none"]

FirstOf(i, S) == i \in S /\ \A j \in S : i <= j
Key(x, i, a) == <<ex[x].round, i, a>>

\* A batch of task items, or a sleep that looks at the plan run every second.
OpenBatch(x) ==
    /\ ex[x].pc = "batch"
    /\ LET me == ex[x]  batch == Batches[me.batch]
       IN  Become(x,
             IF batch = {}
             THEN IF Ended THEN LeaveStopped([me EXCEPT !.snap = NoSnapshot])
                           ELSE NextBatch([me EXCEPT !.snap = NoSnapshot])
             ELSE [me EXCEPT !.pc = "guard", !.launching = batch])
    /\ UNCHANGED <<planRun, planStatus, runs, others, late>>

\* The look at the plan run before each item.
GuardItem(x) ==
    /\ ex[x].pc = "guard"
    /\ Become(x, IF SeesEnd(x) THEN LeaveStopped([ex[x] EXCEPT !.snap = Seen(x)])
                 ELSE [ex[x] EXCEPT !.pc = "create", !.snap = Seen(x)])
    /\ UNCHANGED <<planRun, planStatus, runs, others, late>>

\* Mutant: the session writes back the whole row it loaded.
SavedRow(x, ids) == [planRun EXCEPT !.launched = ids, !.status = ex[x].snap.status]
\* _persist_run_ids commits the one column it changed.
SavedIds(x, ids) == [planRun EXCEPT !.launched = ids]

\* create_run, then launched_run_ids is overwritten with this executor's list.
CreateItem(x) ==
    /\ ex[x].pc = "create"
    /\ \E i \in ex[x].launching :
          LET ids == ex[x].ids \cup {Key(x, i, 0)}
          IN  /\ FirstOf(i, ex[x].launching)
              /\ run' = CreatedRun(Key(x, i, 0))
              /\ planRun' = SavedIds(x, ids)
              /\ Become(x, [ex[x] EXCEPT !.pc = "check", !.ids = ids, !.snap = NoSnapshot])
    /\ UNCHANGED <<planStatus, started, won, others, late>>

\* create_run raises: a failed item, noted in the status detail; the batch goes on.
CreateItemFails(x) ==
    /\ ex[x].pc = "create"
    /\ \E i \in ex[x].launching :
          /\ FirstOf(i, ex[x].launching)
          /\ Become(x, NextItem(Fails([ex[x] EXCEPT !.snap = NoSnapshot], i)))
    /\ planRun' = [planRun EXCEPT !.cause = "launch_failed"]
    /\ UNCHANGED <<planStatus, runs, others, late>>

\* The look after create_run: a stopped plan run takes the new run with it, unless
\* stop_run raises; one that failed or succeeded leaves it as it is.
CheckItem(x) ==
    /\ ex[x].pc = "check"
    /\ \E i \in ex[x].launching :
          LET k == Key(x, i, 0)
          IN  /\ FirstOf(i, ex[x].launching)
              /\ IF Ended
                 THEN /\ Become(x, LeaveStopped(ex[x]))
                      /\ \/ /\ planRun.status = "stopped" /\ Active(k)
                            /\ run' = [run EXCEPT ![k] = "stopped"]
                         \/ UNCHANGED run
                 ELSE /\ Become(x, [ex[x] EXCEPT !.pc = "start", !.snap = Now])
                      /\ UNCHANGED run
    /\ UNCHANGED <<planRun, planStatus, started, won, others, late>>

\* The run's execution thread is started; it claims the run and works on it.
Start(k) ==
    /\ started' = started \cup {k}
    /\ late' = IF Ended /\ Active(k) THEN late \cup {k} ELSE late

StartItem(x) ==
    /\ ex[x].pc = "start"
    /\ \E i \in ex[x].launching :
          /\ FirstOf(i, ex[x].launching)
          /\ Start(Key(x, i, 0))
          /\ Become(x, NextItem([ex[x] EXCEPT !.launching = @ \ {i}, !.todo = @ \cup {i}]))
    /\ UNCHANGED <<planRun, planStatus, run, won, others>>

-----------------------------------------------------------------------------
(* The executor: waiting for runs, retries *)

\* _wait_for_run is called with plan_run.plan_run_id: after a commit, evaluating it
\* opens the transaction whose snapshot the session keeps while it waits.
EnterWait(x) ==
    /\ ex[x].pc = "enter"
    /\ Become(x, [ex[x] EXCEPT !.pc = "wait", !.snap = Seen(x)])
    /\ UNCHANGED <<planRun, planStatus, runs, others, late>>

\* One look of the loop that ends it, through a session of its own: the run's end
\* first, then the plan run's, then the clock.
Wait(x) ==
    /\ ex[x].pc = "wait"
    /\ \E i \in ex[x].todo :
          LET k == Key(x, i, ex[x].attempt)
          IN  /\ FirstOf(i, ex[x].todo)
              /\ \E result \in
                    IF run[k] \in RunEnded THEN {run[k]}
                    ELSE IF Ended THEN {"stopped"}
                         ELSE IF LongRuns THEN {"failed"} ELSE {} :
                    Become(x, [ex[x] EXCEPT !.pc = "decide", !.result = result])
    /\ UNCHANGED <<planRun, planStatus, runs, others, late>>

Retries(i) == IF i \in RetryItems THEN MaxRetries ELSE 0

\* The item failed for good, or is tried again after retry_delay.
GiveUpOrRetry(me, i) ==
    IF me.attempt < Retries(i) THEN [me EXCEPT !.pc = "retry", !.result = "none"]
    ELSE NextItem(Fails(me, i))

DecideSucceeded(x) ==
    /\ ex[x].pc = "decide" /\ ex[x].result = "succeeded"
    /\ \E i \in ex[x].todo :
          /\ FirstOf(i, ex[x].todo)
          /\ Become(x, NextItem([ex[x] EXCEPT !.todo = @ \ {i}, !.attempt = 0,
                                              !.result = "none", !.snap = NoSnapshot]))
    /\ UNCHANGED <<planRun, planStatus, runs, others, late>>

DecideFailed(x) ==
    /\ ex[x].pc = "decide" /\ ex[x].result = "failed"
    /\ \E i \in ex[x].todo :
          /\ FirstOf(i, ex[x].todo)
          /\ Become(x, GiveUpOrRetry(ex[x], i))
    /\ UNCHANGED <<planRun, planStatus, runs, others, late>>

\* _stop_plan_run_from_child_run: the plan run ends as its run did.
StopFromChildRun(x) ==
    /\ SetStatus("stopped", "none")
    /\ Become(x, LeaveStopped([ex[x] EXCEPT !.snap = NoSnapshot]))

\* The run was stopped: by the plan run's end, by an alert policy (a failed attempt),
\* or on its own, which stops the plan run with it.  All three are told apart by what
\* the session's transaction sees, the run's stop_reason included.
DecideStopped(x) ==
    /\ ex[x].pc = "decide" /\ ex[x].result \in {"stopped", "alert_stopped"}
    /\ \E i \in ex[x].todo :
          /\ FirstOf(i, ex[x].todo)
          /\ \/ /\ SeesEnd(x)
                /\ Become(x, LeaveStopped([ex[x] EXCEPT !.snap = Seen(x)]))
                /\ UNCHANGED <<planRun, late>>
             \/ /\ ~SeesEnd(x) /\ Key(x, i, ex[x].attempt) \in Seen(x).alerts
                /\ Become(x, GiveUpOrRetry([ex[x] EXCEPT !.snap = Seen(x)], i))
                /\ UNCHANGED <<planRun, late>>
             \/ /\ ~SeesEnd(x) /\ Key(x, i, ex[x].attempt) \notin Seen(x).alerts
                /\ StopFromChildRun(x)
    /\ UNCHANGED <<planStatus, runs, others>>

\* The look at the plan run after retry_delay.
GuardRetry(x) ==
    /\ ex[x].pc = "retry"
    /\ Become(x, IF SeesEnd(x) THEN LeaveStopped([ex[x] EXCEPT !.snap = Seen(x)])
                 ELSE [ex[x] EXCEPT !.pc = "recreate", !.snap = Seen(x)])
    /\ UNCHANGED <<planRun, planStatus, runs, others, late>>

\* create_run, the run list, and the thread: no look in between.
RetryItem(x) ==
    /\ ex[x].pc = "recreate"
    /\ \E i \in ex[x].todo :
          LET k == Key(x, i, ex[x].attempt + 1)
              ids == ex[x].ids \cup {k}
          IN  /\ FirstOf(i, ex[x].todo)
              /\ run' = CreatedRun(k)
              /\ planRun' = SavedIds(x, ids)
              /\ started' = started \cup {k}
              /\ late' = IF Ended /\ run'[k] = "active" THEN late \cup {k} ELSE late
              /\ Become(x, [ex[x] EXCEPT !.pc = "enter", !.ids = ids,
                                         !.attempt = @ + 1, !.snap = NoSnapshot])
    /\ UNCHANGED <<planStatus, won, others>>

RetryItemFails(x) ==
    /\ ex[x].pc = "recreate"
    /\ \E i \in ex[x].todo :
          /\ FirstOf(i, ex[x].todo)
          /\ Become(x, NextItem(Fails(ex[x], i)))
    /\ UNCHANGED <<planRun, planStatus, runs, others, late>>

-----------------------------------------------------------------------------
(* The executor: the end *)

Expected == NumItems * TotalRounds
AllLaunched(ids) == Expected > 0 /\ Cardinality(ids) >= Expected

\* The last look at the plan run: an end that is not a stop is not respected.
Finish(x) ==
    /\ ex[x].pc = "finish"
    /\ LET me == ex[x]
           stopped == IF SeesEnd(x) THEN Seen(x).status = "stopped" ELSE me.stopped
       IN  Become(x, [me EXCEPT !.stopped = stopped, !.snap = Seen(x),
                       !.pc = IF stopped THEN "recover"
                              ELSE IF me.aborted \/ me.failed # {} \/ ~AllLaunched(me.ids)
                                   THEN "fail" ELSE "succeed"])
    /\ UNCHANGED <<planRun, planStatus, runs, others, late>>

\* _fail_plan_run: looks again, in the same transaction.
Fail(x) ==
    /\ ex[x].pc = "fail"
    /\ IF SeesEnd(x)
       THEN /\ UNCHANGED <<planRun, late>>
            /\ Become(x, [ex[x] EXCEPT !.pc = "recover"])
       ELSE /\ SetStatus("failed", IF ex[x].raised \/ ex[x].aborted
                                   THEN "none" ELSE "executor_failed")
            /\ Become(x, [ex[x] EXCEPT !.pc = "recover", !.snap = NoSnapshot])
    /\ UNCHANGED <<planStatus, runs, others>>

Succeed(x) ==
    /\ ex[x].pc = "succeed"
    /\ IF Seen(x).status = "succeeded" THEN UNCHANGED <<planRun, late>>
       ELSE SetStatus("succeeded", "none")
    /\ Become(x, [ex[x] EXCEPT !.pc = "recover", !.snap = NoSnapshot])
    /\ UNCHANGED <<planStatus, runs, others>>

\* Mutant: the plan is given back only after a success.
RecoverSucceeded(x) ==
    /\ ex[x].pc = "recover"
    /\ planStatus' = IF Seen(x).status = "succeeded" THEN "ready" ELSE planStatus
    /\ Become(x, Gone("done"))
    /\ UNCHANGED <<planRun, runs, others, late>>

\* _recover_plan_status: Plan.status goes back when no plan run is seen active.
Recover(x) ==
    /\ ex[x].pc = "recover"
    /\ planStatus' = IF SeesEnd(x) THEN "ready" ELSE planStatus
    /\ Become(x, Gone("done"))
    /\ UNCHANGED <<planRun, runs, others, late>>

AtWork == {"batch", "guard", "create", "check", "start", "enter", "wait", "decide",
           "retry", "recreate", "finish"}

\* An exception leaves the loops: the except branch marks the plan run failed.
Raise(x) ==
    /\ ex[x].pc \in AtWork
    /\ Become(x, [ex[x] EXCEPT !.pc = "fail", !.raised = TRUE, !.launching = {},
                                !.todo = {}, !.attempt = 0, !.result = "none"])
    /\ UNCHANGED <<planRun, planStatus, runs, others, late>>

\* The worker process dies.
Crash(x) ==
    /\ ex[x].pc \notin {"queued", "done", "lost"}
    /\ Become(x, Gone("lost"))
    /\ UNCHANGED <<planRun, planStatus, runs, others, late>>

Execute(x) ==
    \/ Enter(x) \/ MarkPlan(x) \/ Begin(x) \/ OpenBatch(x)
    \/ GuardItem(x) \/ CreateItem(x) \/ CreateItemFails(x) \/ CheckItem(x) \/ StartItem(x)
    \/ EnterWait(x) \/ Wait(x)
    \/ DecideSucceeded(x) \/ DecideFailed(x) \/ DecideStopped(x)
    \/ GuardRetry(x) \/ RetryItem(x) \/ RetryItemFails(x)
    \/ Finish(x) \/ Fail(x) \/ Succeed(x) \/ Recover(x)
    \/ NotSent(x) \/ Raise(x) \/ Crash(x)

-----------------------------------------------------------------------------
(* Closers: stop_plan_run, called by a user or by the timeout watchdog *)

Turn(c, state) == closer' = [closer EXCEPT ![c] = state]
RunsUp(c) == IF c \in Watchdogs THEN "idle" ELSE "done"

\* Mutant: the watchdog looks at running plan runs only.
CloserLoadsRunning(c) ==
    /\ closer[c].pc = "idle"
    /\ c \in Watchdogs => overdue /\ planRun.status = "running"
    /\ Turn(c, IF Ended THEN [pc |-> "done", ids |-> {}]
               ELSE [pc |-> "children", ids |-> planRun.launched])
    /\ UNCHANGED <<planRun, planStatus, runs, ex, reader, overdue, late>>

\* Load the row and the list of its runs.  The watchdog takes an active plan run past
\* its timeout; whether its active children are past theirs is left open.
CloserLoads(c) ==
    /\ closer[c].pc = "idle"
    /\ c \in Watchdogs => overdue /\ ~Ended
    /\ Turn(c, IF Ended THEN [pc |-> "done", ids |-> {}]
               ELSE [pc |-> "children", ids |-> planRun.launched])
    /\ UNCHANGED <<planRun, planStatus, runs, ex, reader, overdue, late>>

\* stop_run on one of the listed runs; when it raises, the loop goes on.
CloserStopsRun(c) ==
    /\ closer[c].pc = "children"
    /\ \E k \in closer[c].ids :
          /\ run' = IF Active(k) THEN [run EXCEPT ![k] = "stopped"] ELSE run
          /\ Turn(c, [closer[c] EXCEPT !.ids = @ \ {k}])
    /\ UNCHANGED <<planRun, planStatus, started, won, ex, reader, overdue, late>>

CloserStopRaises(c) ==
    /\ closer[c].pc = "children"
    /\ \E k \in closer[c].ids : Turn(c, [closer[c] EXCEPT !.ids = @ \ {k}])
    /\ UNCHANGED <<planRun, planStatus, runs, ex, reader, overdue, late>>

\* PlanRun.status := STOPPED, without another look.
CloserWrites(c) ==
    /\ closer[c].pc = "children" /\ closer[c].ids = {}
    /\ SetStatus("stopped", "none")
    /\ Turn(c, [closer[c] EXCEPT !.pc = "release"])
    /\ UNCHANGED <<planStatus, runs, ex, reader, overdue>>

CloserReleases(c) ==
    /\ closer[c].pc = "release"
    /\ planStatus' = IF Ended THEN "ready" ELSE planStatus
    /\ Turn(c, [closer[c] EXCEPT !.pc = RunsUp(c)])
    /\ UNCHANGED <<planRun, runs, ex, reader, overdue, late>>

Close(c) ==
    CloserLoads(c) \/ CloserStopsRun(c) \/ CloserStopRaises(c) \/ CloserWrites(c)
    \/ CloserReleases(c)

GetsOverdue ==
    /\ Watchdogs # {} /\ ~overdue /\ overdue' = TRUE
    /\ UNCHANGED <<planRun, planStatus, runs, ex, closer, reader, late>>

-----------------------------------------------------------------------------
(* Readers: a request for the plan run repairs it first *)

Saw(s) == \E k \in planRun.launched : run[k] = s

\* _backfill_stale_active_plan_run: what an active plan run becomes once all its runs
\* have ended and the grace has passed; "none" while one is active.
StaleVerdict ==
    IF Saw("active") THEN "none"
    ELSE IF planRun.launched = {} \/ Saw("failed") \/ Saw("alert_stopped") THEN "failed"
    ELSE IF Saw("stopped") THEN "stopped"
    ELSE IF AllLaunched(planRun.launched) THEN "succeeded" ELSE "failed"

\* _reconcile_terminal_plan_run_status_from_runs: what an ended plan run becomes; its
\* own failure to launch outweighs a stopped run.
ReconcileVerdict ==
    IF planRun.launched = {} \/ Saw("active") THEN "none"
    ELSE IF Saw("failed") \/ Saw("alert_stopped") THEN "failed"
    ELSE IF Saw("stopped")
         THEN IF planRun.status = "failed" /\ planRun.cause # "none" THEN "none"
              ELSE "stopped"
    ELSE IF AllLaunched(planRun.launched) THEN "succeeded" ELSE "none"

ReaderLoads(r) ==
    /\ reader[r].pc = "idle"
    /\ LET verdict == IF Ended THEN ReconcileVerdict ELSE StaleVerdict
       IN  /\ verdict \notin {"none", planRun.status}
           /\ reader' = [reader EXCEPT ![r] =
                 [pc |-> IF Ended THEN "reconcile" ELSE "recover", verdict |-> verdict]]
    /\ UNCHANGED <<planRun, planStatus, runs, ex, closer, overdue, late>>

\* The commit.  A recovered plan run also gives its plan back.
ReaderWrites(r) ==
    /\ reader[r].pc # "idle"
    /\ SetStatus(reader[r].verdict, "none")
    /\ planStatus' = IF reader[r].pc = "recover" THEN "ready" ELSE planStatus
    /\ reader' = [reader EXCEPT ![r] = [pc |-> "idle", verdict |-> "none"]]
    /\ UNCHANGED <<runs, ex, closer, overdue>>

Read(r) == ReaderLoads(r) \/ ReaderWrites(r)

-----------------------------------------------------------------------------

\* Nothing is left to do; without a watchdog a plan run whose worker died stays active.
Terminated ==
    /\ Ended \/ Watchdogs = {}
    /\ \A x \in Executors : ex[x].pc \in {"queued", "done", "lost"}
    /\ UNCHANGED vars

Next ==
    \/ \E x \in Executors : Execute(x)
    \/ \E c \in Closers : Close(c)
    \/ \E r \in Readers : Read(r)
    \/ \E k \in Runs : RunEnds(k)
    \/ GetsOverdue
    \/ Terminated

Spec == Init /\ [][Next]_vars

\* The beat runs the watchdog again and again, so what it can do for a plan run none of
\* whose runs is active it does; every run ends (RunLifecycle's EveryRunEnds); time passes.
Fairness ==
    /\ WF_vars(GetsOverdue)
    /\ \A c \in Watchdogs :
          /\ WF_vars(CloserLoads(c) /\ ~Saw("active"))
          /\ WF_vars(CloserStopsRun(c) \/ CloserStopRaises(c) \/ CloserWrites(c)
                     \/ CloserReleases(c))
    /\ \A k \in Runs : WF_vars(Active(k) /\ RunEnds(k))
FairSpec == Spec /\ Fairness

-----------------------------------------------------------------------------
(* Properties *)

\* Every variable and every local state has its type.
Executor ==
    [pc : AtWork \cup {"queued", "mark", "begin", "fail", "succeed", "recover", "done",
                       "lost"},
     round : Rounds, batch : 1..Len(Batches), launching : SUBSET Items,
     todo : SUBSET Items, attempt : 0..MaxRetries, result : {"none"} \cup RunEnded,
     failed : SUBSET (Rounds \X Items), roundLost : BOOLEAN, aborted : BOOLEAN,
     stopped : BOOLEAN, ids : SUBSET Runs, raised : BOOLEAN, snap : Snapshot]
TypeOK ==
    /\ planRun \in PlanRun /\ planStatus \in {"ready", "running"}
    /\ run \in [Runs -> RunStatus] /\ started \subseteq Runs
    /\ ex \in [Executors -> Executor]
    /\ closer \in [Closers -> [pc : {"idle", "children", "release", "done"},
                               ids : SUBSET Runs]]
    /\ reader \in [Readers -> [pc : {"idle", "reconcile", "recover"},
                               verdict : {"none"} \cup Terminal]]
    /\ overdue \in BOOLEAN /\ won \subseteq Runs /\ late \subseteq Runs

\* An executor that is about to declare the plan run succeeded has walked the whole plan:
\* in every round every item has had a run that succeeded.
ItemWon(r, i) == \E a \in 0..MaxRetries : <<r, i, a>> \in won
AllItemsWon == \A r \in Rounds, i \in Items : ItemWon(r, i)
SuccessIsEarned == \A x \in Executors : ex[x].pc = "succeed" => AllItemsWon

\* After the plan run has ended an executor starts at most one more run, the one it had
\* looked before starting; a transaction opened before the end lets one retry through too.
LatePerExecutor == IF SnapshotReads THEN 2 ELSE 1
StopIsPrompt == Cardinality(late) <= LatePerExecutor * Cardinality(Executors)

\* A plan run that has ended becomes active again only at the entry of an executor,
\* whatever rows the executors, closers and readers write back.
RevivedOnlyAtEntry ==
    [][Ended /\ planRun'.status \notin Terminal
         => \E x \in Executors : ex[x].pc = "begin" /\ ex'[x].pc = "batch"]_vars

\* Once nobody is at work on an ended plan run, its plan can be executed again.
PlanIsReleased ==
    Ended /\ (\A x \in Executors : ex[x].pc \in {"queued", "done"})
          /\ (\A c \in Closers : closer[c].pc \notin {"children", "release"})
    => planStatus = "ready"

\* An ABORT item that fails ends its round: no item of a later batch is launched in it.
\* Only the last round's failure ends the plan run, see AbortEndsPlanRun.
Launched(r, i) == \E a \in 0..MaxRetries : run[<<r, i, a>>] # "none"
AbortEndsRound ==
    \A x \in Executors, r \in Rounds, b, c \in 1..Len(Batches) :
       \A i \in Batches[b] \cap AbortItems, j \in Batches[c] :
          b < c /\ <<r, i>> \in ex[x].failed => ~Launched(r, j)

\* Whatever happens to messages and workers, a plan run ends and stays ended.
EveryPlanRunEnds == <>[]Ended

(* Violated by the code *)

\* "Terminal guard": an ended plan run is not executed again.
EndedIsNotExecuted == [][Ended => planRun'.status \in Terminal]_vars

\* "ABORT aborts the whole PlanRun": after a failure that aborts, nothing more is launched,
\* in its round or in a later one.
AbortEndsPlanRun ==
    \A x \in Executors, q, r \in Rounds, b, c \in 1..Len(Batches) :
       \A i \in Batches[b] \cap AbortItems, j \in Batches[c] :
          <<q, i>> \in ex[x].failed /\ (q < r \/ (q = r /\ b < c)) => ~Launched(r, j)

\* A plan run all of whose items succeeded, some after a retry, is not failed by a look at it.
RetriedSuccessStands ==
    [][planRun.status = "succeeded" /\ AllItemsWon => planRun'.status = "succeeded"]_vars
=============================================================================
