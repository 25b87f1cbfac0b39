---------------------------- MODULE RunLifecycle ----------------------------
(***************************************************************************)
(* The life of one Run: a row of the `runs` table that Celery workers, the *)
(* REST API and the timeout watchdog read, work on for a while (network    *)
(* calls to the agents) and write back, each through a session of its own. *)
(*                                                                         *)
(*   dispatcher   tasks/test_executor.py  _execute_test_task_impl          *)
(*   poller       tasks/test_executor.py  poll_run_status (one chain)      *)
(*   stoppers     services/run_service.py stop_run                         *)
(*   watchdogs    tasks/plan_executor.py  _govern_timed_out_active_runs    *)
(*   readers      services/run_service.py get_run (terminal status sync)   *)
(*                                                                         *)
(* No step reads or writes two rows, so one Run is modelled.  `view` is    *)
(* what an actor's session holds of the row: SQLAlchemy writes back only   *)
(* the columns whose value differs from the one the session loaded.        *)
(***************************************************************************)
EXTENDS Integers, FiniteSets

CONSTANTS
    NumAgents,        \* agents the run asks for (pod_count), numbered 1..NumAgents
    WaveSize,         \* agents launched in one wave
    Deliveries,       \* deliveries of the execute_test_task message
    Poller,           \* the chain of poll_run_status tasks
    Stoppers,         \* calls of stop_run
    Watchdogs,        \* runs of the timeout watchdog
    Readers,          \* requests for the run's page
    DispatchRetries,  \* Celery retries of execute_test_task
    PollRetries,      \* Celery retries of poll_run_status
    SnapshotReads     \* TRUE: a transaction re-reads what it first saw (MySQL default)

Agents == 1..NumAgents
Closers == Stoppers \cup Watchdogs
Actors == Deliveries \cup {Poller} \cup Closers \cup Readers

ASSUME SizesAssumption ==
    /\ NumAgents \in Nat \ {0} /\ WaveSize \in Nat \ {0}
    /\ DispatchRetries \in Nat /\ PollRetries \in Nat /\ SnapshotReads \in BOOLEAN
ASSUME ActorsAssumption ==
    /\ Poller \notin Deliveries \cup Closers \cup Readers
    /\ Deliveries \cap (Closers \cup Readers) = {}
    /\ Closers \cap Readers = {} /\ Stoppers \cap Watchdogs = {}

Terminal == {"succeeded", "failed", "stopped"}
RunStatus == {"preparing", "running"} \cup Terminal
\* Mutants: a redelivered message is claimed again; a stopped run is.
DispatchAllowedTwice == {"preparing", "running"}
DispatchAllowedAfterStop == {"preparing", "stopped"}
\* _DISPATCH_ALLOWED_RUN_STATUSES: the statuses a delivery may claim.
DispatchAllowed == {"preparing"}
Detail == {"none", "dispatching_data", "expand_failed", "no_healthy_agents",
           "timeout_watchdog"}
Reason == {"none", "user", "timeout", "dispatch_error", "agent_error", "poll_error"}
\* params["agent_runs"]: no entry for an agent, an entry without a status, or the status.
EntryStatus == {"absent", "blank", "running"} \cup Terminal
Entries == [Agents -> EntryStatus]
Row == [status : RunStatus, detail : Detail, reason : Reason, agent_runs : Entries]
AgentStatus == {"idle", "running", "gone"} \cup Terminal

NoEntries == [a \in Agents |-> "absent"]
NewRow == [status |-> "preparing", detail |-> "none", reason |-> "none",
           agent_runs |-> NoEntries]

VARIABLES
    row,          \* the committed row
    agent,        \* each agent's status of this run; "gone": its process restarted
    stopping,     \* agents that are executing a stop request
    pc, view,     \* of each actor: its next step, the row its session holds
    got,          \* of each actor: the statuses it fetched from the agents
    tries,        \* of each actor: retries left to it
    start, acked, \* of each delivery: wave_start, the agents that returned a token
    expired,      \* the poller's elapsed time has reached its timeout
    overdue,      \* the watchdog's deadline for the run has passed
    launches,     \* history: how often each agent started a load for this run
    asked,        \* history: agents some actor has sent a stop request to
    by            \* history: who last applied a verdict of the agents to the row

vars == <<row, agent, stopping, pc, view, got, tries, start, acked, expired,
          overdue, launches, asked, by>>
fleet == <<agent, stopping, launches, asked>>
clock == <<expired, overdue>>
session == <<view, got>>
local == <<session, tries, start, acked>>

Init ==
    /\ row = NewRow
    /\ agent = [a \in Agents |-> "idle"] /\ stopping = {}
    /\ pc = [x \in Actors |-> IF x \in Deliveries THEN "queued"
                              ELSE IF x = Poller THEN "off" ELSE "idle"]
    /\ view = [x \in Actors |-> NewRow] /\ got = [x \in Actors |-> NoEntries]
    /\ tries = [x \in Actors |-> IF x \in Deliveries THEN DispatchRetries
                                 ELSE IF x = Poller THEN PollRetries ELSE 0]
    /\ start = [d \in Deliveries |-> 0] /\ acked = [d \in Deliveries |-> {}]
    /\ expired = FALSE /\ overdue = FALSE
    /\ launches = [a \in Agents |-> 0] /\ asked = {} /\ by = "none"

-----------------------------------------------------------------------------
(* Sessions and agents *)

Active(r) == r.status \notin Terminal
Goto(x, label) == pc' = [pc EXCEPT ![x] = label]
Load(x) == view' = [view EXCEPT ![x] = row]
\* The task or request is over and closes its session.
Leave(x, label) ==
    /\ Goto(x, label)
    /\ view' = [view EXCEPT ![x] = NewRow] /\ got' = [got EXCEPT ![x] = NoEntries]

\* Mutant: the session writes every column, changed or not.
DirtyAll(loaded, new, current) == new
\* What a commit leaves in a column: the session's value only if the session changed it.
Dirty(loaded, new, current) == IF new # loaded THEN new ELSE current
Flush(loaded, new) ==
    [status     |-> Dirty(loaded.status, new.status, row.status),
     detail     |-> Dirty(loaded.detail, new.detail, row.detail),
     reason     |-> Dirty(loaded.reason, new.reason, row.reason),
     agent_runs |-> Dirty(loaded.agent_runs, new.agent_runs, row.agent_runs)]

\* _mark_failed on a session that holds `held`: nothing if `held` is terminal.
MarkFailed(held, reason, detail) ==
    row' = IF Active(held)
           THEN Flush(held, [held EXCEPT !.status = "failed", !.detail = detail,
                                         !.reason = reason])
           ELSE row

\* One stop request to each target; a request may be lost, a finished agent ignores it.
StopAgents(targets) ==
    /\ asked' = asked \cup targets
    /\ \E reached \in SUBSET targets :
          stopping' = stopping \cup {a \in reached : agent[a] = "running"}
    /\ UNCHANGED <<agent, launches>>

\* One status request to each target; an agent that does not answer leaves "blank".
Fetch(x, targets) ==
    \E reached \in SUBSET {a \in targets : agent[a] \notin {"idle", "gone"}} :
        got' = [got EXCEPT ![x] = [a \in Agents |->
                   IF a \in reached THEN agent[a]
                   ELSE IF a \in targets THEN "blank" ELSE "absent"]]

Contexts(r) == {a \in DOMAIN r.agent_runs : r.agent_runs[a] # "absent"}
Saw(entries, s) == \E a \in Agents : entries[a] = s

-----------------------------------------------------------------------------
(* The dispatcher: one delivery of execute_test_task *)

\* The conditional UPDATE preparing -> running; a delivery that changes no row returns.
Claim(d) ==
    /\ pc[d] = "queued"
    /\ IF row.status \in DispatchAllowed
       THEN /\ row' = [row EXCEPT !.status = "running", !.detail = "dispatching_data",
                                  !.reason = "none"]
            /\ view' = [view EXCEPT ![d] = row']
            /\ Goto(d, "prepare")
       ELSE /\ Goto(d, "done")
            /\ UNCHANGED <<row, view>>
    /\ UNCHANGED <<fleet, clock, by, got, tries, start, acked>>

\* The exception leaves the task; Celery queues it again while it has retries.
Requeue(d) ==
    IF tries[d] > 0
    THEN Leave(d, "queued") /\ tries' = [tries EXCEPT ![d] = @ - 1]
    ELSE Leave(d, "done") /\ UNCHANGED tries

\* Building the payload raises.  The except branch refreshes the row in the
\* transaction opened after the claim, so under snapshot reads it sees the claim.
PrepareFails(d) ==
    /\ pc[d] = "prepare"
    /\ MarkFailed(IF SnapshotReads THEN view[d] ELSE row, "dispatch_error", "expand_failed")
    /\ Requeue(d)
    /\ UNCHANGED <<fleet, clock, by, start, acked>>

\* select_agents finds none, or fewer than asked for: persisted, then marked failed.
NoAgents(d) ==
    /\ pc[d] = "prepare"
    /\ \/ MarkFailed(row, "dispatch_error", "no_healthy_agents") /\ Leave(d, "done")
          /\ UNCHANGED tries
       \/ MarkFailed(row, "dispatch_error", "expand_failed") /\ Requeue(d)
    /\ UNCHANGED <<fleet, clock, by, start, acked>>

SelectAgents(d) ==
    /\ pc[d] = "prepare"
    /\ Goto(d, "wave")
    /\ UNCHANGED <<row, fleet, clock, by, local>>

Wave(d) == {a \in Agents : start[d] < a /\ a <= start[d] + WaveSize}

\* One wave, gathered: an agent acknowledges with a token, refuses, or starts
\* and its answer is lost.  The first wave that is not all acknowledged is the last.
LaunchWave(d) ==
    /\ pc[d] = "wave"
    /\ \E ok \in SUBSET Wave(d) : \E lost \in SUBSET (Wave(d) \ ok) :
          /\ agent' = [a \in Agents |-> IF a \in ok \cup lost THEN "running" ELSE agent[a]]
          /\ launches' = [a \in Agents |->
                             IF a \in ok \cup lost THEN launches[a] + 1 ELSE launches[a]]
          /\ acked' = [acked EXCEPT ![d] = @ \cup ok]
          /\ Goto(d, IF ok # Wave(d) THEN "abort"
                     ELSE IF start[d] + WaveSize < NumAgents THEN "wave" ELSE "launched")
    /\ start' = [start EXCEPT ![d] = @ + WaveSize]
    /\ UNCHANGED <<row, stopping, asked, clock, by, view, got, tries>>

\* Mutant: the launched agents are recorded but left running.
AbortSilently(d) ==
    /\ pc[d] = "abort"
    /\ Goto(d, "aborted")
    /\ UNCHANGED <<row, fleet, clock, by, local>>
\* A wave failed: every agent that acknowledged is told to stop.
Abort(d) ==
    /\ pc[d] = "abort"
    /\ StopAgents(acked[d])
    /\ Goto(d, "aborted")
    /\ UNCHANGED <<row, clock, by, local>>

Launched(d) == [a \in Agents |-> IF a \in acked[d] THEN "blank" ELSE "absent"]

PersistAborted(d) ==
    /\ pc[d] = "aborted"
    /\ row' = Flush(view[d], [view[d] EXCEPT !.agent_runs = Launched(d)])
    /\ Goto(d, "raise")
    /\ UNCHANGED <<fleet, clock, by, local>>

\* The commit has expired the session: the refresh reads the row anew.
DispatchRaises(d) ==
    /\ pc[d] = "raise"
    /\ MarkFailed(row, "dispatch_error", "expand_failed")
    /\ Requeue(d)
    /\ UNCHANGED <<fleet, clock, by, start, acked>>

PersistLaunched(d) ==
    /\ pc[d] = "launched"
    /\ row' = Flush(view[d], [view[d] EXCEPT !.agent_runs = Launched(d)])
    /\ Goto(d, "persisted")
    /\ UNCHANGED <<fleet, clock, by, local>>

\* The second conditional UPDATE: the detail goes unless the run has ended.
ClearDetail(d) ==
    /\ pc[d] = "persisted"
    /\ row' = IF Active(row) THEN [row EXCEPT !.detail = "none"] ELSE row
    /\ Goto(d, "cleared")
    /\ UNCHANGED <<fleet, clock, by, local>>

\* A run that ended meanwhile is left as it is, its agents too.
CheckStopped(d) ==
    /\ pc[d] = "cleared"
    /\ IF Active(row)
       THEN Load(d) /\ Goto(d, "sending") /\ UNCHANGED got
       ELSE Leave(d, "done")
    /\ UNCHANGED <<row, fleet, clock, by, tries, start, acked>>

StartPolling(d) ==
    /\ pc[d] = "sending"
    /\ pc' = [pc EXCEPT ![d] = "done", ![Poller] = "due"]
    /\ view' = [view EXCEPT ![d] = NewRow]
    /\ UNCHANGED <<row, fleet, clock, by, got, tries, start, acked>>

\* The poll message cannot be sent; the refresh is one more read of the same transaction.
StartPollingFails(d) ==
    /\ pc[d] = "sending"
    /\ MarkFailed(IF SnapshotReads THEN view[d] ELSE row, "dispatch_error", "expand_failed")
    /\ Requeue(d)
    /\ UNCHANGED <<fleet, clock, by, start, acked>>

\* The worker process is killed; the redelivered message is another delivery.
WorkerDies(d) ==
    /\ pc[d] \notin {"queued", "done"}
    /\ Leave(d, "done")
    /\ UNCHANGED <<row, fleet, clock, by, tries, start, acked>>

Dispatch(d) ==
    \/ Claim(d) \/ PrepareFails(d) \/ NoAgents(d) \/ SelectAgents(d) \/ LaunchWave(d)
    \/ Abort(d) \/ PersistAborted(d) \/ DispatchRaises(d)
    \/ PersistLaunched(d) \/ ClearDetail(d) \/ CheckStopped(d) \/ StartPolling(d)
    \/ StartPollingFails(d) \/ WorkerDies(d)

-----------------------------------------------------------------------------
(* The poller: poll_run_status, its retries and its exhausted-retry handler *)

\* Mutant: an agent that did not answer is left out of the verdict.
AggregateOfAnswers(s) ==
    IF Saw(s, "failed") THEN "failed"
    ELSE IF Saw(s, "running") THEN "running"
    ELSE IF Saw(s, "stopped") THEN "stopped"
    ELSE "succeeded"
\* _aggregate_poll_status: an agent that failed decides; one not known to have
\* ended keeps the run going.
Aggregate(s) ==
    IF Saw(s, "failed") THEN "failed"
    ELSE IF Saw(s, "running") \/ Saw(s, "blank") THEN "running"
    ELSE IF Saw(s, "stopped") THEN "stopped"
    ELSE "succeeded"

\* _summarize_terminal_evidence: an agent that did not answer counts only if none did.
EvidenceVerdict(s) ==
    IF Saw(s, "running") THEN "running"
    ELSE IF Saw(s, "failed") THEN "failed"
    ELSE IF Saw(s, "stopped") THEN "stopped"
    ELSE IF Saw(s, "succeeded") THEN "succeeded"
    ELSE "unknown"

\* agent_runs is one key of the JSON column `params`, written whole when any key changed.
Saves(loaded, new) ==
    {Flush(loaded, new), [Flush(loaded, new) EXCEPT !.agent_runs = new.agent_runs]}

\* The row a session writes for a verdict of the agents.
Outcome(loaded, verdict, entries, why) ==
    [status     |-> verdict,
     detail     |-> IF verdict = "failed" THEN "expand_failed" ELSE "none",
     reason     |-> IF verdict = "succeeded" THEN "none" ELSE why,
     agent_runs |-> entries]

Reschedule == Leave(Poller, "due") /\ tries' = [tries EXCEPT ![Poller] = PollRetries]

PollLoad ==
    /\ pc[Poller] = "due"
    /\ IF Active(row)
       THEN Load(Poller) /\ Goto(Poller, "loaded")
       ELSE Goto(Poller, "off") /\ UNCHANGED view
    /\ UNCHANGED <<row, fleet, clock, by, got, tries, start, acked>>

PollFetch ==
    /\ pc[Poller] = "loaded"
    /\ Fetch(Poller, Agents)
    /\ Goto(Poller, "fetched")
    /\ UNCHANGED <<row, fleet, clock, by, view, tries, start, acked>>

\* A terminal verdict is written over whatever the row has become since PollLoad.
PollFinishes ==
    LET verdict == Aggregate(got[Poller]) IN
    /\ pc[Poller] = "fetched" /\ verdict \in Terminal
    /\ \E why \in {"agent_error", view[Poller].reason} :
          row' \in Saves(view[Poller], Outcome(view[Poller], verdict, got[Poller], why))
    /\ by' = "poll"
    /\ Leave(Poller, "off")
    /\ UNCHANGED <<fleet, clock, tries, start, acked>>

PollSaves ==
    /\ pc[Poller] = "fetched" /\ Aggregate(got[Poller]) = "running"
    /\ row' \in Saves(view[Poller], [view[Poller] EXCEPT !.agent_runs = got[Poller]])
    /\ Goto(Poller, "decide")
    /\ UNCHANGED <<fleet, clock, by, local>>

\* Past the timeout the chain goes on only while the first agent answers (the
\* final grace window, or evidence of progress).
PollDecides ==
    /\ pc[Poller] = "decide"
    /\ \/ /\ ~expired \/ got[Poller][1] # "blank"
          /\ Reschedule
       \/ /\ expired
          /\ Leave(Poller, "expire") /\ UNCHANGED tries
    /\ UNCHANGED <<row, fleet, clock, by, start, acked>>

PollStopsAgents ==
    /\ pc[Poller] = "expire"
    /\ StopAgents(Agents)
    /\ Goto(Poller, "expired")
    /\ UNCHANGED <<row, clock, by, local>>

\* _mark_failed after a commit: the session reads the row anew.
PollTimesOut ==
    /\ pc[Poller] = "expired"
    /\ MarkFailed(row, "timeout", "expand_failed")
    /\ Goto(Poller, "off")
    /\ UNCHANGED <<fleet, clock, by, local>>

\* Mutant: retried however often it has failed.
PollRaisesForever ==
    /\ pc[Poller] \in {"loaded", "fetched"}
    /\ Leave(Poller, "due") /\ tries' = [tries EXCEPT ![Poller] = @ - 1]
    /\ UNCHANGED <<row, fleet, clock, by, start, acked>>
\* The task raises before it commits: retried, or the evidence handler runs on
\* the session as it is.
PollRaises ==
    /\ pc[Poller] \in {"loaded", "fetched"}
    /\ IF tries[Poller] > 0
       THEN Leave(Poller, "due") /\ tries' = [tries EXCEPT ![Poller] = @ - 1]
       ELSE Goto(Poller, "evidence") /\ UNCHANGED <<session, tries>>
    /\ UNCHANGED <<row, fleet, clock, by, start, acked>>

\* The next poll message cannot be sent.  PollSaves has committed, so the handler
\* reads the row anew, and returns if it has ended.
PollUnsent ==
    /\ pc[Poller] = "decide"
    /\ IF tries[Poller] > 0
       THEN Leave(Poller, "due") /\ tries' = [tries EXCEPT ![Poller] = @ - 1]
       ELSE /\ IF Active(row)
               THEN Load(Poller) /\ Goto(Poller, "evidence") /\ UNCHANGED got
               ELSE Leave(Poller, "off")
            /\ UNCHANGED tries
    /\ UNCHANGED <<row, fleet, clock, by, start, acked>>

EvidenceFetch ==
    /\ pc[Poller] \in {"evidence", "recheck"}
    /\ Fetch(Poller, Agents)
    /\ Goto(Poller, IF pc[Poller] = "evidence" THEN "verdict" ELSE "reverdict")
    /\ UNCHANGED <<row, fleet, clock, by, view, tries, start, acked>>

\* _apply_terminal_evidence_outcome: its guard looks at the session's row.
EvidenceFinishes ==
    LET verdict == EvidenceVerdict(got[Poller]) IN
    /\ pc[Poller] \in {"verdict", "reverdict"} /\ verdict \in Terminal
    /\ IF Active(view[Poller])
       THEN /\ \E why \in IF verdict = "failed" THEN {"agent_error", "poll_error"} ELSE {"none"} :
                  row' \in Saves(view[Poller],
                                 Outcome(view[Poller], verdict, got[Poller], why))
            /\ by' = "evidence"
       ELSE UNCHANGED <<row, by>>
    /\ Leave(Poller, "off")
    /\ UNCHANGED <<fleet, clock, tries, start, acked>>

EvidenceStopsAgents ==
    /\ pc[Poller] = "verdict" /\ EvidenceVerdict(got[Poller]) = "unknown"
    /\ StopAgents(Agents)
    /\ Goto(Poller, "recheck")
    /\ UNCHANGED <<row, clock, by, local>>

\* No terminal evidence: the retry counter is put into params, the chain goes on.
EvidenceKeepsRunning ==
    /\ \/ pc[Poller] = "verdict" /\ EvidenceVerdict(got[Poller]) = "running"
       \/ pc[Poller] = "reverdict" /\ EvidenceVerdict(got[Poller]) \in {"running", "unknown"}
    /\ row' = [row EXCEPT !.agent_runs = view[Poller].agent_runs]
    /\ Reschedule
    /\ UNCHANGED <<fleet, clock, by, start, acked>>

\* The chain ends without a word: the worker dies or the handler itself raises.
PollDies ==
    /\ pc[Poller] # "off"
    /\ Leave(Poller, "off")
    /\ UNCHANGED <<row, fleet, clock, by, tries, start, acked>>

Poll ==
    \/ PollLoad \/ PollFetch \/ PollFinishes \/ PollSaves \/ PollDecides
    \/ PollStopsAgents \/ PollTimesOut \/ PollRaises \/ PollUnsent
    \/ EvidenceFetch \/ EvidenceFinishes \/ EvidenceStopsAgents \/ EvidenceKeepsRunning
    \/ PollDies

-----------------------------------------------------------------------------
(* stop_run, and govern_timed_out_run as the watchdog calls it *)

\* Mutant: the watchdog looks at running runs only.
CloserLoadsRunning(x) ==
    /\ pc[x] = "idle" /\ Active(row) /\ row.status = "running"
    /\ x \in Watchdogs => overdue
    /\ Load(x) /\ Goto(x, "loaded")
    /\ UNCHANGED <<row, fleet, clock, by, got, tries, start, acked>>
CloserLoads(x) ==
    /\ pc[x] = "idle" /\ Active(row)
    /\ x \in Watchdogs => overdue
    /\ Load(x) /\ Goto(x, "loaded")
    /\ UNCHANGED <<row, fleet, clock, by, got, tries, start, acked>>

CloserStopsAgents(x) ==
    /\ pc[x] = "loaded"
    /\ StopAgents(Contexts(view[x]))
    /\ Goto(x, "stopped")
    /\ UNCHANGED <<row, clock, by, local>>

\* _finalize_active_run writes without another look at the row.
CloserWrites(x) ==
    /\ pc[x] = "stopped"
    /\ row' = Flush(view[x],
                 IF x \in Watchdogs
                 THEN [view[x] EXCEPT !.status = "failed", !.detail = "timeout_watchdog",
                                      !.reason = "timeout"]
                 ELSE [view[x] EXCEPT !.status = "stopped", !.detail = "none",
                                      !.reason = "user"])
    /\ Leave(x, IF x \in Watchdogs THEN "idle" ELSE "done")
    /\ UNCHANGED <<fleet, clock, by, tries, start, acked>>

Close(x) == CloserLoads(x) \/ CloserStopsAgents(x) \/ CloserWrites(x)

-----------------------------------------------------------------------------
(* get_run: the row is brought in line with what the agents say *)

ShouldSync(r) ==
    \/ r.status = "running"
    \/ r.status = "succeeded"  \* entries without a terminal status, or no request totals
    \/ r.status = "stopped" /\ (Saw(r.agent_runs, "blank") \/ Saw(r.agent_runs, "running"))
    \/ r.status = "failed" /\ r.detail = "expand_failed"
                           /\ r.reason \in {"none", "timeout", "poll_error"}

ReaderLoads(x) ==
    /\ pc[x] = "idle" /\ ShouldSync(row) /\ Contexts(row) # {}
    /\ Load(x) /\ Goto(x, "loaded")
    /\ UNCHANGED <<row, fleet, clock, by, got, tries, start, acked>>

ReaderFetches(x) ==
    /\ pc[x] = "loaded"
    /\ Fetch(x, Contexts(view[x]))
    /\ Goto(x, "fetched")
    /\ UNCHANGED <<row, fleet, clock, by, view, tries, start, acked>>

ReaderWrites(x) ==
    LET verdict == Aggregate(got[x]) IN
    /\ pc[x] = "fetched"
    /\ IF Saw(got[x], "blank") \/ Saw(got[x], "running")
       THEN UNCHANGED <<row, by>>
       ELSE /\ \E why \in {"agent_error", view[x].reason} :
                  row' \in Saves(view[x], Outcome(view[x], verdict, got[x], why))
            /\ by' = "sync"
    /\ Leave(x, "idle")
    /\ UNCHANGED <<fleet, clock, tries, start, acked>>

Read(x) == ReaderLoads(x) \/ ReaderFetches(x) \/ ReaderWrites(x)

-----------------------------------------------------------------------------
(* The agents and the clocks *)

AgentEnds(a) ==
    /\ agent[a] = "running"
    /\ \E s \in {"succeeded", "failed"} : agent' = [agent EXCEPT ![a] = s]
    /\ UNCHANGED <<row, stopping, launches, asked, clock, by, pc, local>>

\* The stop handler, once the process is gone, writes "stopped" over any status.
AgentStops(a) ==
    /\ a \in stopping
    /\ agent' = [agent EXCEPT ![a] = "stopped"] /\ stopping' = stopping \ {a}
    /\ UNCHANGED <<row, launches, asked, clock, by, pc, local>>

\* The agent keeps its runs in memory only: after a restart it answers 404.
AgentRestarts(a) ==
    /\ agent[a] \notin {"idle", "gone"}
    /\ agent' = [agent EXCEPT ![a] = "gone"] /\ stopping' = stopping \ {a}
    /\ UNCHANGED <<row, launches, asked, clock, by, pc, local>>

PollClock ==
    /\ ~expired /\ pc[Poller] # "off"
    /\ expired' = TRUE
    /\ UNCHANGED <<row, fleet, overdue, by, pc, local>>

WatchdogClock ==
    /\ ~overdue
    /\ overdue' = TRUE
    /\ UNCHANGED <<row, fleet, expired, by, pc, local>>

Environment ==
    \/ \E a \in Agents : AgentEnds(a) \/ AgentStops(a) \/ AgentRestarts(a)
    \/ PollClock \/ WatchdogClock

Next ==
    \/ \E d \in Deliveries : Dispatch(d)
    \/ Poll
    \/ \E x \in Closers : Close(x)
    \/ \E x \in Readers : Read(x)
    \/ Environment

\* Celery beat starts the watchdog every 30 s and time passes; nothing else is promised.
Fairness == WF_vars(WatchdogClock) /\ \A x \in Watchdogs : WF_vars(Close(x))

Spec == Init /\ [][Next]_vars
FairSpec == Spec /\ Fairness

-----------------------------------------------------------------------------
(* Properties *)

Label == {"queued", "prepare", "wave", "abort", "aborted", "raise", "launched",
          "persisted", "cleared", "sending", "done", "off", "due", "loaded", "fetched", "decide",
          "expire", "expired", "evidence", "verdict", "recheck", "reverdict", "idle",
          "stopped"}

\* The variables keep the shape their declarations describe.
TypeOK ==
    /\ row \in Row
    /\ agent \in [Agents -> AgentStatus] /\ stopping \subseteq Agents
    /\ pc \in [Actors -> Label] /\ view \in [Actors -> Row] /\ got \in [Actors -> Entries]
    /\ tries \in [Actors -> Nat]
    /\ start \in [Deliveries -> Nat] /\ acked \in [Deliveries -> SUBSET Agents]
    /\ expired \in BOOLEAN /\ overdue \in BOOLEAN
    /\ launches \in [Agents -> Nat] /\ asked \subseteq Agents
    /\ by \in {"none", "poll", "sync", "evidence"}

\* However often the message is delivered, retried or overtaken by a stop, no agent is
\* made to start a load twice for one run: each POST /agent/execute starts a new one.
LaunchedAtMostOnce == \A a \in Agents : launches[a] <= 1

\* A run that has ended stays ended: no session that loaded it while it was active
\* brings it back, whatever it commits afterwards.
EndedStaysEnded == [][row.status \in Terminal => row'.status \in Terminal]_vars

\* A run that ended while its message still waited in the queue is never launched, by
\* no later delivery of it.
Unlaunched == \A a \in Agents : launches[a] = 0
QueuedStopIsFinal ==
    []( (row.status \in Terminal /\ Unlaunched /\ \A d \in Deliveries : pc[d] = "queued")
        => []Unlaunched )

\* The interface of a run, kept by all of its actors together: RunContract says it.
Contract == INSTANCE RunContract WITH status <- row.status
KeepsContract == Contract!Spec

\* A run that the poller or a reader has declared succeeded has no recorded agent that
\* still drives load, whichever sessions interleaved with theirs.
SucceededMeansIdle ==
    (row.status = "succeeded" /\ by # "evidence")
        => \A a \in Contexts(row) : agent[a] # "running"

\* A run whose launch failed half way, and a run that the poller timed out, leave no
\* recorded agent that was not told to stop.  (The watchdog's reason may stand beside the
\* detail of a session that it overtook: columns are written back one by one.)
FailureStopsAgents ==
    /\ row.reason = "dispatch_error" /\ Contexts(row) # DOMAIN agent => Contexts(row) \subseteq asked
    /\ row.reason = "timeout" /\ row.detail = "expand_failed" /\ (by = "none" \/ Watchdogs = {})
          => Contexts(row) \subseteq asked

\* Every run ends, also when its message or its poll chain is lost.
EveryRunEnds == <>[](row.status \in Terminal)

\* "never overwrites a run that is already terminal" (docstring of
\* _apply_terminal_evidence_outcome).
EvidenceNeverOverwrites ==
    [][(pc[Poller] \in {"verdict", "reverdict"} /\ row.status \in Terminal
        /\ pc'[Poller] # pc[Poller]) => row'.status = row.status]_vars

=============================================================================
