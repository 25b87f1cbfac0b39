# Formal models of OpenLoadHub

OpenLoadHub is a self-hosted control plane for JMeter and k6 load tests.  This directory
holds TLA+ models of the parts of it that are hard to test - processes that share nothing
but database rows, threads inside an agent, figures merged from agents that fall silent -
with the TLC runs that check them on small instances, and proofs, checked by TLAPS, that
hold for every instance.  `PROJECT.json` maps each definition to the lines it models and
lists every run, theorem, mutant, hazard and component.

Contents: 1 the system - 2 the modules - 3 RunLifecycle - 4 PlanExecution - 5 the agent -
6 scheduler, pool and jobs - 7 the services around a run - 8 runs and bounds - 9 fairness -
10 proofs - 11 where the code disagrees with its own words - 12 not modelled - 13 plan -
14 how to run.

File names are shortened: TE is `tasks/test_executor.py`, PE `tasks/plan_executor.py`, RS
`services/run_service.py`, PS `services/plan_service.py`, RPS `services/report_service.py`
(all in `src/backend/ptp-admin/app`), EX `api/execute.py` and RT `core/runtime_store.py` (in
`src/backend/ptp-agent/app`).

## 1. The system

| Part | State it keeps | Operations | Talks to |
|---|---|---|---|
| Run lifecycle (TE, RS) | `Run` row: status, reason, detail, agent entries, timestamps | create, dispatch, poll, evidence after exhausted retries, stop, time out, sync on read | agents by HTTP, itself by Celery messages |
| Plan execution (PE, PS) | `PlanRun` row: status, run list, status detail; `Plan.status` | execute, stop, time out, recover a stale row, reconcile an ended one | creates Runs, waits for their rows |
| Plan scheduler (PE:294-705) | cron cursor on `Plan`, active `PlanRun`s | scan, check capacity, enqueue | plan execution, agent pool |
| Agent pool (`core/agent_orchestrator.py`) | cached list of healthy agents; Kubernetes jobs | discover, probe, rank, select, launch, stop | Nacos, agents, kubectl |
| Agent runtime (`ptp-agent`) | run token -> state, process, threads, log, readings | execute, status, stop, upload, sample | load tools; answers the control plane |
| Notifications (`notification_service.py`) | webhook configurations and records | send, retry, edit | external endpoints |
| Tasks, task assets, scripts | definitions and files | edit, clone, upload, cut, delete | read when a run is created |
| Run queries, verdicts, baselines, analyst (RS) | figures stored with a run, baselines | merge, poll, sync, judge, answer | agents, Prometheus, archives |
| Reports, readiness, quality gates | report rows and files | generate, choose, open a gate | runs |
| Plan pages, lists, deadlines (PS) | nothing of their own | compute, filter, page, repair rows | plan runs and their runs |
| k6 live control, accounts, permissions, audit, push, web UI | accounts, records | requests | the services above |

What makes it correct, and what makes that hard:

* **Run**: load is started at most once per agent; an ended run stays ended; success is not
  claimed over an agent that still drives load; every run ends.  Dispatcher, poll chain,
  stop, watchdog and readers each load the row, talk to agents for seconds, and write back
  what they computed.  Celery acknowledges late, so messages come twice; agents lose
  answers and restart; a retry budget runs out in the middle.
* **Plan run**: success only when every item succeeded; ABORT ends its round (and not, as the
  schema says, the plan run: section 11); a stop is prompt and final; the plan is given back; every plan run ends.  The executor waits for
  hours between looks, with a transaction open, while users, the watchdog and page views
  write the row it is going to write.
* **Scheduler and pool**: one start per occasion, no more load of an environment than agents,
  no silent agent chosen, no job left behind, a deleted plan gone for good: all are
  check-then-act across transactions.
* **Agent**: a stop before, during or after the start of the load process wins; what the
  agent answers in the window between process end and verdict is not read as a success.
* **Services**: figures, pages, reports and notifications are put together from answers and
  rows of different moments; each must say nothing that was true at none of them.

The complete list of hazards, with the line where each bites and the properties that would
catch it, is `hazards` in `PROJECT.json`.

Two facts about the database decide what a stale look is.  Sessions are created with
`autoflush=False` and the default `expire_on_commit`, and the engine sets no isolation
level (`backend/common/db/database.py:6-13`): under MySQL a transaction re-reads what it
first saw until it commits, and writes back only the columns it changed.  Both large models
carry this: a session has a *view* (or *snapshot*) and a write touches the dirty columns.
The constant `SnapshotReads` turns repeatable reads off.

## 2. The modules

| Module | Models | Proofs in |
|---|---|---|
| `RunLifecycle` | one Run: dispatcher deliveries, poll chain, stoppers, watchdog, readers, agents | `RunLifecycleProofs` |
| `RunContract` | what a Run promises those who watch it (abstract) | `RunLifecycleProofs` (refinement) |
| `PlanExecution` | one PlanRun: executors, closers (stop, watchdog), readers, child runs as `RunContract` promises them | `PlanExecutionProofs` |
| `AgentRuntime` | one run inside an agent | `AgentRuntimeProofs` |
| `AgentPool` | registry, probes, cache, capacity check, selection, dispatch | `PlanSchedulerProofs` |
| `PlanScheduler` | extends `AgentPool`: scans, plan runs of several plans, users | `PlanSchedulerProofs` |
| `ClusterJobs` | agents that are Kubernetes jobs; the stop of all runs | `PlanSchedulerProofs` |
| `PodReadings` | the readings of an agent's machine by three threads | `PlanSchedulerProofs` |
| `DataSlices` | a data file from its upload to the agents' lines | `FigureProofs` |
| `TaskAssets` | rows and stored objects of task files | `ServiceProofs` |
| `ScriptLibrary` | scripts shared by tasks, clone before edit | `ServiceProofs` |
| `LogPages` | pages of a log merged from agents | `FigureProofs` |
| `Webhooks` | who is told of the end of a plan run | `ServiceProofs` |
| `Reports` | generations, files and the front door | `ServiceProofs` |
| `LoadShares` | the target divided among agents and scenarios | `FigureProofs` |
| `PlanDeadlines` | what a plan run takes against estimate and deadline | `ServiceProofs` |
| `PlanPages`, `PlanLists` | the page of a plan run; lists, filters, paging, repair | `PageProofs` |
| `RunFigures`, `RunSources`, `RunPods` | merged figures, order of sources, pages of pods | `FigureProofs` |
| `RunJudgements`, `EvidenceGates` | baselines, verdicts, analyst; the two gates | `ServiceProofs` |
| `MCRunLifecycle`, `MCPlanExecution`, `MCPlanPages`, `MCRunFigures` | instances for TLC | |
| `MCPlanScheduler` | composes scheduler, jobs and readings | `PlanSchedulerProofs` |
| `MCServices` | composes the services | `ServiceProofs`, `FigureProofs`, `PageProofs` |
| `FoldProofs` | (a library of lemmas: division, induction over sets, sums, folds) | |

Each module's head says what it models and what it abstracts; each variable has a comment.
`MCPlanScheduler` and `MCServices` choose at the start which part a behaviour is about; the
variables of the others rest.  The parts share no state in the code either, or only rows
that the one reads and never writes, so that nothing is lost by following them one by one.

## 3. RunLifecycle

| Variable | Code |
|---|---|
| `row` | the committed `Run` row: `status`, `reason` (end reason), `detail`, `agent_runs` (agents recorded with their last status) |
| `agent`, `stopping` | what each agent's process does, and the stop requests under way |
| `pc`, `view`, `got` | for each actor: where it is, the row its session loaded, the agents' answers it holds |
| `tries` | Celery retries left |
| `start`, `acked` | per delivery: next agent to launch, agents that acknowledged |
| `expired`, `overdue` | the poller's timeout and the watchdog's have passed |
| `launches`, `asked`, `by` | history: loads started per agent, agents told to stop, who ended the run |

Actors: **deliveries** of `execute_test_task` (`Claim` is the conditional UPDATE
PREPARING -> RUNNING; then agent selection, launch in waves, abort of a failed launch, the
three commits that follow, and the poll message); the **poller**, the chain of
`poll_run_status` tasks with its evidence handler; **closers**, `stop_run` as a user or the
timeout watchdog calls it; **readers**, requests that sync the row from the agents.  Agents
may answer, time out, be restarted or lose an answer after having acted on the request.

Folded or abstracted: `Claim` includes the refresh after the commit; the detail text
"preparing_init" and the like are one value; the normalisation of "running without pid" is
an agent that ended (`AgentEnds`); a bulk stop is a loop of the modelled stop.

## 4. PlanExecution

| Variable | Code |
|---|---|
| `planRun` | the `PlanRun` row: `status`, `launched` (`launched_run_ids`), `cause` (the part of `status_detail` that later repairs look at) |
| `planStatus` | `Plan.status` |
| `run`, `started`, `won` | the child Run behind each idempotency key, whether its thread was started, whether it ever succeeded |
| `ex[x]` | the local variables of one execution of `execute_plan_task`, with its place in the code and its open transaction's snapshot |
| `closer`, `reader` | `stop_plan_run` (user or watchdog) and the repairs done on reads |
| `overdue`, `late` | the plan run's timeout has passed; runs started since the plan run ended |

One action per step of the executor between two looks at, or writes to, a row.  The
operators `NextBatch`, `NextItem`, `Fails`, `GiveUpOrRetry`, `LeaveStopped` compute its next
local state and are the loop structure of the code.  A batch that is empty is a sleep
postprocessor, which looks at the plan run every second.  A child run is what
`RunContract` promises: active, then ended, its end possibly corrected (`Corrections`); the
status "active" stands for PREPARING and RUNNING.

Steps folded into one, because nothing is looked at in between: `create_run`,
`_persist_run_ids` and the detail commit (`CreateItem`); creating and starting a retry
(`RetryItem`); the refresh inside `_stop_plan_run_from_child_run`.  Left out: the exits for
a missing plan or an empty plan, the wording of `status_detail`.  Grace periods and
durations are abstract: a recovery or the watchdog may come at any time the code's
conditions on rows allow.

A redelivery while the first executor is still at work is possible: the broker is Redis
(`common/config/settings.py:357`), acknowledgement is late (`celery_app.py:82`), and no
visibility timeout is set, so it is one hour, shorter than many plans.  A redelivered
executor finds the runs of the first by their idempotency key and attaches to them.

## 5. The agent

`AgentRuntime` has the coroutine of one run (`main`), its process (`proc`), the sampling and
upload threads (`sampler`, `uploader`), stop requests and readers, at the granularity of the
interpreter: code that tests a field and writes it with no call in between is one step.
The log is a number (`LogLevel`), so that "what was uploaded" can be compared with "what was
written".  Uploads may fail, and the code passes over it (EX:4557, 4571, 5453): `lost` notes
which of the two last uploads, the thread's and the coroutine's own, left no log in S3, and
`ArchiveIsComplete` holds unless it is both.  The two threads are started one after the
other, and each start may raise (EX:3742-3750, 3954-3962); the exception's path fails the run
and stops neither the process nor an upload thread that has been started, as the code does
not (only EX:3774 and 3969 stop it): `RunEnds` claims them ended only if the coroutine saw its
process end (`finished`).  `StoppedMeansIdle` holds *unless a stop found no pid* (`missed`): then
the load runs on and no later stop reaches it, the hazard at EX:3268.  `SuccessIsSound` is about the
two ways the control plane reads an answer, the poller's and the page's.

`PodReadings` has three takers of machine readings which interleave; `ReadingsAreSound`
says that a rate is the growth of one counter, that a curve's points are a step apart and
its last point shows the last reading, and that only readings begun before the last one
of a run are added after it.

## 6. Scheduler, pool and jobs

`AgentPool`: `listed` and `silent` are the world; `cache` and `age` the orchestrator's list of
agents; `row`, `step`, `chosen` and `token` take a run from its capacity check
(`Validate`) through selection to the agents it is launched on; `excuse` records what
makes the code's own check insufficient (two checks of one environment overlapped, an agent
was missing, a load could not be seen), so that `AgentsNotShared` says *only these* let two
runs of one environment meet.  The hosts are those of all environments and the use is that of
one (`Idle(e)`, `UsageOn(e, a)`; `task_service.py:818-821, 993`): runs of different environments are
given the same agents without any of these excuses, and no property denies it.  While the
registry cannot be asked its client lists nobody, and a discovery may break off and hand out
the cache whatever its age (`agent_orchestrator.py:419`): `SelectedRecently` leaves that one
case out.

`PlanScheduler` adds plans, plan runs, workers' messages, scans (`ScanCollects` against the idle
pool of each plan's environment, then the plans launched one by one), and users who edit,
start, stop and delete.  A plan whose request or pool cannot be told passes the check and
reserves nothing (PE:486, 496; `unchecked`), so that what `PoolIsKept` bounds is the plans of one
environment that a scan has checked; those of two environments may together exceed the agents.
A first wave is one run in one environment.  An edit is two steps, a load and a commit (PS:621,
643), between which anything may happen; it may name any status but "deleted", and a field
that is as it was loaded is not written.  `overlap` and `raced` are histories like `excuse`:
`StartedOnce` leaves out the occasions of scans that overlap, which the code starts twice, and
`DeletedStaysDeleted` the plans that a scan, a worker or an edit was at when they were
deleted, which it revives.  `ClusterJobs` has jobs named
after runs, cached instances that point to a job, dispatch with retries, and the bulk stop;
`left` names the gaps by which a job outlives its run.

## 7. The services around a run

| Part of `MCServices` | Invariant | Says |
|---|---|---|
| slices | `SlicesHold` | every line is driven once, if the counts agree; shards make up the file, none empty; a count that the run gives as a number is read alike by check, launch and pool |
| assets | `AssetsHold` | rows have their objects and objects their rows, up to the mishaps named (a clone or a deletion that races a deletion of the same file, a shard's name that two files have in common, a failed upload that removes what another row has, an insert that fails and leaves its objects, an object that the store refuses to delete: `_remove_file` swallows that and the row goes) |
| scripts | `EditStaysPrivate` | an edit from one task reaches no other task, but one bound to the script meanwhile |
| logs | `LogsHold` | pages join: no line twice or left out between them, while the same agents answer |
| hooks | `HooksHold` | records say what was sent; no hook is forgotten because of another, but those behind one whose refused statement breaks the round: the handler reads the hook's row before it rolls back (`notification_service.py:349`), which raises in turn |
| reports | `ReportsHold` | what the front door calls ready, the local file or the cached copy of an object, is a file written to its end, unless two generations have crossed, a user has marked the row completed or given it a path (`PUT /reports/{id}`), or a generation has opened the local file since the row was loaded |
| shares | `SharesHold` | the shares add up to the target, scenarios to their weights, virtual users fit |
| deadlines | `DeadlinesHold` | the watchdog leaves alone a plan run whose runs keep their timeouts; the estimate is exact when runs take their durations |
| pages, lists | `PagesHold` | a plan run's page hides no run and puts it at its own place until something fails; lists keep their filter; a walk meets every row that stands still once.  Both lists are filtered by status, which workers and repairs write |
| figures, sources, pods | `FiguresHold` | figures never exceed what agents did and add up of those that answer; where a page shows some agents' work as all of a run that succeeded, one of the named sources is short; counts are ordered |
| judgements, gates | `JudgementsHold` | baselines have ended; verdicts only get worse with worse figures; each hypothesis has evidence in the answer; a gate opens on no less than it asks for |

Where an invariant says "unless", the exception is a history variable (`mishap`, `crossed`,
`edited`, `spoilt`, `odd`, `left`, `excuse`, `overlap`, `raced`, `missed`, `lost`) which only the step at
fault sets.  A cached copy that another viewer is rewriting may be read in part, and a download
streams it (`api/v1/report.py:126`); a part has the markers only if the object has them, so that
`ReportsHold` speaks of the object and claims nothing of the bytes of a download.

## 8. Runs and bounds

Passing runs (distinct states in brackets where there are many):

| Run | Asks | Bounds and why they are enough |
|---|---|---|
| `delivery` (`RunDelivery.cfg`) | The load starts once, a stop of a queued run is final, the contract is kept, every run ends | 1 agent, 2 deliveries, 1 retry of a dispatch, a stop, the watchdog, with fairness: every pair of actors that can dispatch or end a run |
| `polling` (`RunPolling.cfg`, 2,162,428) | A success is true of all loaded agents, a failed launch stops them, an ended run stays ended | "waves": 2 agents launched one by one, 1 retry of the poll (once used, then none left), only the first agent fails or restarts; "reading": 1 agent and a reader, the poll is not retried |
| `plan_steps` (`PlanSteps.cfg`, about 1.98 million) | A plan run's success is earned, a stop is prompt, a failure that aborts ends its round only | the batches {1}, a sleep and {2}; 2 rounds; 2 retries; item 1 aborts, item 2 is retried; one executor, one stop, waits that do not time out |
| `plan_redelivered` (`PlanRedelivered.cfg`) | The plan is given back, only the entry revives an ended plan run, every plan run ends | 2 executors of one message, watchdog and reader, one item, waits that time out (`LongRuns`), with fairness |
| `agent` (`Agent.cfg`) | One run inside its agent: stop, success, archive, and that the coroutine ends | 3 engines, one stop, one reader |
| `scheduler` (`Scheduler.cfg`, about 1.33 million) | The parts of `MCPlanScheduler`: scans of two plans; users; the pool; plans of two environments ("apart"); jobs; readings | 2 agents, 2 scans, period 1, times up to 2, a grace of 1; plans 1 and 2 in one environment, plan 3 in another; one edit, begun at time 1; at time 1 every due plan can be checked, at time 2 the first may pass unchecked; jobs of 3 runs; a history of 2 readings of at most 3 |
| `services` (`Services.cfg`, about 1.06 million) | The table of section 7 | 15 parts chosen at the start, small sets in the cfg |

Other bounds, each at its line of an MC module: in `MCServices` a local store copies what
it clones, the third asset is only a clone, no step follows a race or a
second mishap of the assets, or an overlap or edit of a report that the property leaves aside, such an edit marks the local
file completed, two viewers look only at the copy of an object while no maker is at work, the third slice setting is
absent or 2, the first plan of the lists has no lines of its own and runs while the other
does not, only who reads the list of plans meets an edit that names a status, only the first
driver falters, only the first judged run gets worse, and a log has at most 3 lines, a file
4; in `MCPlanScheduler` a user stops only the first
plan run, begins one edit, at time 1, and sets another time with it, loads of "users" end by
a stop only, the first scan collects before the second, and in "pool" only the first row ends
and ages and no step follows an overlap of two checks or selections; in "jobs" only one
worker dies.  There is no
other state constraint.  One retry is enough for "again" and for "no more"; two items,
batches, rounds, agents or scans for "the next", "the last" and "the other".

Every property of a passing run has a mutant of a mapped definition in `PROJECT.json` (a
dropped guard, a missing list entry, a whole-row write) with which TLC finds it violated.

What the properties say that is not obvious from the code:

* `StopIsPrompt` - a stopped plan run starts at most two more runs: the one whose look came
  just before the stop, and one retry, because under repeatable reads the look before a retry
  is made in a transaction opened before the wait.  (With `SnapshotReads` FALSE the bound is
  one.)
* `RevivedOnlyAtEntry` - of all the writers only the executor's entry can make an ended
  plan run active, because the others write single columns and only ended statuses.
* `SuccessIsEarned` - fails with a reader (section 11), holds without.
* `SucceededMeansIdle` - not for the evidence handler's verdict, which is documented to
  decide without all the agents (section 11).

Deadlock checking is off where a run, an agent or a service is simply done.
`PlanExecution` has an explicit `Terminated` step instead.

## 9. Fairness

Celery messages, workers and poll chains may be lost for good, so no fairness is assumed of
dispatcher, poller, executor, stoppers or readers.  The beat schedule
(`celery_app.py:84-99`) starts the watchdog again and again: `Fairness` of `RunLifecycle`
is weak fairness of the watchdog's clock and of each watchdog's steps.  In `PlanExecution`
child runs also end (`EveryRunEnds` of `RunLifecycle`), and the watchdog is only assumed to
act on a plan run none of whose runs is active: it skips one that has a run within its own
deadline.  That one loop over all runs may be kept from reaching a run by an exception on
another one (PE:724) is outside the models.  In `AgentRuntime` the event loop, the threads
of the process and the load process go on and the kernel reports its end: weak fairness of
`Main`, `ProcessEnds`, `Reap`, `SamplerEnds`, `UploaderReads`, `UploaderPuts`, of which the last and
the coroutine's own upload may fail and still be done; nothing is assumed of requests.  The scheduler's and the services' modules state no liveness: their workers and
messages may be lost, and there is no one to come after them.

## 10. Proofs

Everything below is proved from the named `ASSUME`s of the modules alone, for every value of
the constants; TLC evaluates those assumptions in every run.  They say that sizes are
natural numbers, that agents, runs, pods and endpoints are finitely many and actors
distinct, and what the code itself guarantees of its data: the batches of a plan are disjoint
(`PlanAssumption`), one Celery message is the first (`ProcessAssumption`), rows are numbered
(`HookAssumption`, `AssetAssumption`), a plan that is started has stages
(`DeadlineAssumption`; PS:718 refuses others), a page has at least one row and a list is
asked for a status that its rows can have (`ListAssumption`), a script has at most as many scenarios as it may
have virtual users (`LoadAssumption`), no fewer pods are asked for than there are
(`PodsAssumption`).  Further conditions stand in the theorem's ASSUME.

Every safety invariant and every action property that a passing run checks is stated by a
theorem, the type invariants included; two of them, `SuccessIsEarned` and `AbortEndsRound`, under
the conditions named there.

### A run: `RunLifecycleProofs`

For every number of agents, wave size, set of actors and retry budget:

* `TypeCorrect` - `TypeOK`.
* `EndIsFinal` - `EndedStaysEnded`: each write of a session touches the columns it
  changed, and no action changes a status to an active one but `Claim`, whose condition is
  evaluated on the committed row.
* `LaunchOnce` - `LaunchedAtMostOnce`.  Not inductive: `DispatchInv` adds that nothing is
  launched before the claim, that one delivery owns the claim, and that the agents from its
  `start` on have not been touched (`NothingBeforeClaim`, `OneOwner`, `WavesAhead`).
* `QueuedStopFinal` - `QueuedStopIsFinal`: a row that ended before any claim keeps the
  claim's condition false (`Dead`), whatever is redelivered.
* `RunKeepsContract` - `RunLifecycle` implements `RunContract` under `status <- row.status`:
  each step is a `Claim`, `Launch`, `End` or a stutter.
* `SuccessIsTrue` - `SucceededMeansIdle`, and `FailureIsCleanedUp` - `FailureStopsAgents`, from
  `RecordInv`.  What has to be carried along is not in the row alone: every session's view and
  every set of answers in flight tells the truth about the agents it names
  (`EntriesInv`), what a delivery has launched and not yet recorded (`LaunchInv`), that a
  session which will end the run loaded it active (`SessionInv`), and that agents which a
  success speaks of have ended for good (`SuccessInv`).  The attempt to prove the second
  property as it first stood failed for a good reason: a watchdog's reason "timeout" may
  stand beside the poller's detail "expand_failed", each session writing its own columns,
  with agents that nobody told to stop.  The property now says so (`by`, `Watchdogs`).

### A plan run: `PlanExecutionProofs`

For every plan (items, stages, rounds, retry counts, failure policies), with and without
repeatable reads:

* `PlanTypeCorrect` - `TypeOK`, from `TypeInv`, which adds that an executor about to retry
  has a retry left and that a reader about to write has a verdict.
* `RevivedAtEntry` - `RevivedOnlyAtEntry`, for any number of executors, closers, readers.
* `SuccessEarned` - `SuccessIsEarned` **for a single executor and no reader**, which its
  ASSUME states; without them the property is false (section 11).  `EarnedInv` follows the
  executor: as long as nothing has failed and no stop was seen, every item of the rounds and
  batches behind it, and every item of this batch that is neither to be launched nor waited
  for, has a run that succeeded; a lost round has a failed item; nobody else ends the plan
  run other than by a stop.  `NextBatchWalked` and `NextItemWalked` are the heart.
* `PlanReleased` - `PlanIsReleased`, for any number of executors.  `ReleaseInv`: a plan marked
  running has an executor that will still answer for it (`Answers`), wherever it stands.
* `StopPrompt` - `StopIsPrompt` for any finite set of executors.  `PromptInv` splits the runs
  started since the end into shares of the executors: what one has started plus what it can
  still start without a look (`Budget`) stays within its two.
* `AbortRespected` - `AbortEndsRound` **for one executor** (two executors of a redelivered
  message do not tell each other of a failure).  `AbortInv` relates each executor's lists
  to the runs of its round.

### The agent: `AgentRuntimeProofs`

For every set of engines, any number of stops and readers: `AgentTypeCorrect`, `StopFinal`
(an action property, each write of the status looked at in turn), and from one inductive
invariant `IInv` the three safety properties `StoppedIdle`, `SuccessSound`,
`ArchiveComplete`.  Its conjuncts are `ProcessInv` (what the coroutine's place says of the
process), `StopInv` (a stop marks the run only after the load is over or was missed),
`VerdictInv` (a verdict is earned, and a running run keeps its pid), `AnswerInv` (the same
of every answer that is still under way) and `ArchiveInv` (what uploader and coroutine have
read is at least what was flushed).  `ArchiveComplete` says less than one would wish, and as much
as the code gives: the log is whole in S3 unless the last uploads of both were lost.

### Scheduler, pool, jobs and readings: `PlanSchedulerProofs`

For all plans, agents, runs, scans and times:

* `SchedulerTypeCorrect` - `TypeOK` of scheduler and pool.
* `OccasionStartsOnce` - `StartedOnce`.  Two invariants: `Always`, what cursor, plan runs and
  scans say of the occasions behind them, whoever acted; and `Unlapped`, which only holds
  while no two scans have overlapped: one scan is at work, later plan runs have later
  occasions (`StartsInOrder`), and what it has still to launch is ahead of them (`DueIsNew`).
* `DeletionStays` - `DeletedStaysDeleted`: the steps that write a plan's status without a look
  belong to activities that `raced` has noted, an edit that is under way among them.
* `SelectionRecent` - `SelectedRecently`.  `CacheIsRecent`: an agent in the cache has not been
  silent for longer than the cache is old, and the age is not renewed by use; a discovery that
  breaks off is the exception the property names.
* `PoolStaysKept` - `PoolIsKept`: the same, and that a scan stays within the idle pool it has
  counted, for each environment and the plans it has checked.  These are taken one by one out of
  what is left, so that the sum of their needs stays below it (`ScanFits`, `FoldProofs`).
* `AgentsStayUnshared` - `AgentsNotShared`, for any finite set of agents and any environments; all
  of the following is said of one environment at a time.  Nothing in the
  code keeps two runs apart but counting, and so does the invariant: as long as there is no
  `excuse`, one run at a time is between its check and its selection (`OneAtATime`), what all
  runs claim is not more than there are agents (`ClaimsFit`, a sum over the runs that each
  step changes in one place), the agents it will be launched on bear no load
  (`DispatchIsFree`), and no two loads meet (`OneLoadEach`).  `RunsKnown` says of each run
  which agents it holds, with or without an excuse.
* `ReadingsHoldThere` - `ReadingsHold`, for any step, length of a history and clock.  `RatesInv`
  keeps the two counters that a rate is the difference of, `HistoryInv` and `LastInv` say
  what has been taken when; the curve is a fold over the history, for which `PointsFold` and
  `PointsStand` carry "a step apart, ends at the last reading" from one reading to the next.
* `JobsEndWell` - `JobTypeOK` and `JobsEnd` for any number of runs, slots and posts, from
  `JobInv`, `LoadsAreServed` and `ToldIsOver`; `JobsHoldThere` carries it over to `JobsHold` of
  the composed module.

### The services: `ServiceProofs`

Each component on its own, then (`...There`) in the composed module that TLC checks:

* `HooksHear` - `HooksAreTold`, for any finite set of hooks.  `HookInv`: the hook a round is at,
  those before it and those ahead (`BeingTold`, `ToldAlready`, `UntoldYet`), and that the
  hooks whose telling failed lie before those still ahead (`SpoiltFirst`).
* `EditsArePrivate` - `EditStaysPrivate`.  `LibraryInv`: a user about to write holds a
  script that nobody else used when it was counted (`WritesOwn`, `LoneUser`).
* `ReadyReportsWhole` - `ReadyIsWhole`.  `ReportInv`: a report completed, not crossed and not
  edited has a whole file, or a whole object, unless a maker is at work on it alone
  (`OneAtATime`, `CompletedIsWhole`).
* `RunsJudgedWell` - `JudgementsAreSound`: baselines have ended (`BaselinesEnded`), what
  the analyst read is what runs can be (`AnalystSees`), verdicts are monotone in every figure,
  each hypothesis has evidence; `GatesAreSound` - `GatesHold`, monotone in what is known.
* `FilesAreKept` - `StoreIsKept`, for any number of rows, upload sessions and tasks.
  `AssetInv` is the longest: what each kind of request holds at each of its steps
  (`RequestFits`), that names of files are new, that a shard belongs to one file, that a
  deletion of the last row is alone at its file (`DeletesAlone`), that a clone's source has
  its file (`ClonesHaveSource`), and where each object comes from (`ObjectsHeld`).
* `TimesAreKept`, `DeadlinesHoldThere` - `TimesAgree`, for any plans, rounds and timeouts.
  Deadline and estimate are folds of sums of maxima; `Planned` is their value for the part of
  the plan that lies behind the executor, and the proof follows it from wave to wave
  (`BatchTakes`, `PlaceEnds`).  `OnTime`: nothing is later than the timeouts so far allow, but
  for what somebody was late; `ToPlan`: if nothing fails the clock is at the estimate.

### Figures, slices, shares and log pages: `FigureProofs`

* `PodsAgree` - `PodsAddUp`, and `SourcesAgree` - `SourcesHold`: `PodsInv` and `SourceInv` say what
  a run that has succeeded has stored.  `PartsExplained` goes through the sources of each page:
  whatever is up, the work of some agents is shown as that of all only where an agent is silent,
  Prometheus has heard of some agents only, or JMeter's trends are those of an earlier poll.
* `FiguresAreWhole` - `FiguresAddUp`, for any agents, endpoints, rates and buckets.  `FigureInv`:
  the rows of a run are the table of some agents at an earlier moment, of a run that has
  succeeded at their end (`IsTable`, `IsLastTable`).  The rest is arithmetic of merging: that
  counts add up, and that a weighted mean of means is the mean of the whole (`MergeIs`,
  `TableIsWhole`).
* `FiguresHoldThere` - the three together, as `FiguresHold` of the composed module.
* `SlicesAreRight`, `SlicesHoldThere` - `SlicesAreSound`, for any file and number of agents and
  shards.  `SliceInv` is small; the heart is that the loop which hands out the lines has the
  closed form `EndsAre`, whose parts are disjoint and make up the file.
* `LoadsAreShared`, `SharesHoldThere` - `LoadIsShared`.  For k6 the scaled weights are multiples
  of one unit, never more than the target allows (`ScaleFits`, `AllocateFits`, `RatesExact`)
  and virtual users stay within their caps (`PreAllocatedFits`, `MaxVusFit`); for JMeter the
  shares are off by the rounding only (`SharesRounded`).
* `PagesAreJoined`, `LogsHoldThere` - `PagesJoin`, for any agents, lines and page lengths.
  `LogInv`: what has been shown is a run of the list, from its beginning or from where its end
  was when the first page was asked for, and the cursor is where it stops.  A place in
  the list is a rank, the number of lines before it, and a rank does not change while lines
  are only added (`InTimeIs`, `NothingBetween`, `PaginateForwards`, `PaginateBackwards`).

### Pages of plans, and all types: `PageProofs`

* `RunsAreTold` - `PagesTellTheRuns`, for any items, rounds and edits.  `PageInv`: until
  something is retried or abandoned, the number of a run in the list is that of its item,
  counted through all rounds (`ByTheItems`, `UpToDate`); `Sleeping` and `Counting` relate the
  marker of a sleep to it, `WhenOver` the reports to the end.  That the rounds of the page
  put together are the whole list (`NoneHidden`) needs the closed form of the
  concatenation (`Concatenation`).
* `ListsAreKept` - `ListsHold`, for any plans, tasks, filters and page sizes.  `ListInv`: a reader
  who is at page n has read what was the beginning of the list, and what is due and not yet
  read lies behind (`Along`); a row can only leave by ending (`LeftHaveEnded`).  Repair after
  a page was cut takes rows away that were shown already (`ReadingTakesAway`), new rows and
  edited plans come in front (`FurtherBehind`), and those steps are what `came` and `gone` note;
  so do workers and repairs where the list of plans is filtered by a status.
* `PagesHoldThere` - both, as `PagesHold` of the composed module.
* `TypesHoldThere` - `MCServices.TypeOK`: from the inductive invariants of all fifteen parts.

`FoldProofs` is the library under these: division, induction over numbers and finite sets for
a *set* of values (the library's induction theorems take an operator, which the provers
cannot instantiate), the equations of `SumFunction` and of folds, whose definitions are a
recursive function behind a `CHOOSE`, and sums that are added, split, renamed and bounded.

### Only model-checked

* Liveness: `EveryRunEnds`, `EveryPlanRunEnds`, `RunEnds`; fairness and ENABLED are out of the
  prover's reach.
* The five runs that expect a violation: what they refute cannot be proved, and their
  counterexamples are TLC's.

Some definitions were given a form that can be reasoned about: `SelectSeq` and `SortSeq`
are recursive and are not expanded by the prover, so that lists in an order are written by
rank (`InTime`, `NewestFirst`), which says the same of a set of numbers.

## 11. Where the code disagrees with its own words

Each of these is a run that expects a violation, with the quoted line in `findings`:

| Run | In a sentence |
|---|---|
| `evidence_overwrites` | "never overwrites a terminal run" is checked on the row loaded when the task began |
| `plan_revived` | a stop between the terminal guard and RUNNING is overwritten |
| `plan_retry_undone` | a plan run that succeeded on a retry is failed by the next page view |
| `plan_success_unearned` | a plan run repaired to FAILED while its executor waits is then declared SUCCEEDED |
| `plan_abort_goes_on` | "aborts the whole PlanRun, sets it FAILED": an ABORT failure ends its round; the rounds after it are launched |

More behaviours that the models have, as the code has them, without a run of their own.

Runs and plan runs:
* under repeatable reads a dispatch failure is written over a stop although TE:2339 means it
  not to be; a poll message that could not be sent leaves the run to the watchdog (TE:2331);
* the evidence verdict is "succeeded" when all agents that *answered* succeeded (TE:2588);
  one failed agent ends the run without the others being told to stop (TE:1388); the evidence
  handler's time may exceed the watchdog's grace (TE:2018); the variable
  `PTP_POLL_RUN_STATUS_TERMINAL_EVIDENCE_MAX_RETRIES` (TE:2785) is read by no code;
* a run that outlasts the 1800 s wait is retried beside itself (PE:815); the executor's
  closing writes replace a stop it did not see (PE:1522, PE:1613); the list of runs is
  replaced, not merged, by the last writer (PE:824).

Agent, pool and jobs:
* a stop that comes before the process has a pid leaves the load running; only the first
  seconds of a host's readings are of the load: once its process is gone the CPU figure is
  that of the host (RT:883); a run polled by pages more often than the step of its curve
  collapses into few points, because a merged point's time moves on (RT:1160);
* an exception after the load has been started fails the run and leaves the load, and an upload
  thread that has been started, alone (EX:3954-3969); uploads that fail are passed over;
* runs of two environments are given the same agents, plans of two environments the same idle
  ones (`task_service.py:818`); a discovery that breaks off hands out a cache of any age;
* scans that overlap start one occasion twice (PE:640); an edit or a worker under way brings a
  deleted plan back (PS:640, PE:1304);
* a dispatch that fails leaves its Kubernetes job, as does a stop during the dispatch; a
  launch that is repeated posts to the same job twice; a cached instance keeps the job's host.

Figures, pages and reports:
* the rows stored by a poll are those of the agents that answered it; pages assign live
  figures to mapped rows (RS:1049-1065), and a later commit of the same session stores them
  (RPS:1323), so that the table of an ended run shrinks to the agents that still answer, although
  the docstring of `get_summary_metrics` (RS:6586) names the stored rows first; `_decorate_plan_summaries` (PS:1157) does the same to plans, whose derived
  values an audit record's commit then freezes;
* throughput of endpoint trends is summed within a bucket (EX:4616, RS:9691); the chart makes
  a curve up when no source answers (RS:4016); gauges of one agent's token are shown as the
  run's total (RS:4170); the unweighted mean of checks replaces an error rate;
* the archive holds only rates and response times (RT:780-791) and so can never give the
  rows it is listed as a source of (RS:6675, 7488, 9170);
* a filtered list is reconciled after it was cut: it shows rows of another status and the next
  page skips one (PS:868); an edit between two pages reorders the list (PS:641); of two active
  rows of one plan that one read closes, each is counted for the other, as the session does not
  flush, and the plan stays RUNNING (PS:1584);
* the marker of a sleep counts items of all rounds while the page counts within one (PE:1334,
  PS:3888); rounds before the current one are shown as succeeded whatever failed in them;
* a stopped run, or one without figures, gets the verdict "pass"; a baseline may be a failed
  or stopped run; the analyst's answer is read twice while the run may end in between
  (RS:2180), and its confidence can be high for a run that is still on (RS:2320).

## 12. Not modelled

`components` in `PROJECT.json` has a note for each part.  Left aside as a whole: k6 live
control (the agent's side is a stub that answers without changing the rate), accounts and
permissions, audit and self-monitoring, WebSocket push, routing and repositories, schemas
and migrations, demo and dashboards.  Left out of the modelled parts: parsing and rewriting
of JMX, k6 and JTL text, wording and layout of documents, previews and content sniffing,
alerts, ramp shapes, unequal agents, versions and labels of tasks, validation in `create_run`
and its seeded statuses, the inline execution used when no worker is configured.

## 13. Plan

Done: all modules of section 2, their runs, and the proofs of section 10, which leave no
safety property of a run without a theorem.  What would come next is more of the code: the
validation in `create_run` with its seeded statuses, unequal agents in the pool, the ramp
shapes of a load, and notifications of alerts.  A proof of `SuccessIsEarned` for several
executors would need them to be told of each other first (section 11).

## 14. How to run

    tlc -workers 2 -config RunDelivery.cfg RunLifecycle.tla
    tlc -workers 2 -config PlanSteps.cfg MCPlanExecution.tla
    tlc -workers 2 -config Services.cfg MCServices.tla
    tlapm RunLifecycleProofs.tla
    tlapm ServiceProofs.tla
    tlapm PageProofs.tla

The runs take between a few seconds and four minutes.  From nothing, `ServiceProofs`,
`FigureProofs` and `PageProofs` take ten to fifteen minutes each, the other proof modules a
few minutes.
