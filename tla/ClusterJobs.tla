---------------------------- MODULE ClusterJobs ----------------------------
(***************************************************************************)
(* Runs whose agents are made for them, as Kubernetes jobs                 *)
(* (agent_orchestrator.py with USE_K8S_AGENT), from the dispatch to the    *)
(* removal of the job; and the stop of all active runs at once             *)
(* (run_service.py, stop_active_runs_bulk).                                *)
(*                                                                         *)
(* A job is named after its run, so that all slots of a run share one.     *)
(* The agents that were selected stand in for them: their instances are    *)
(* given the job's host.  One worker process is modelled, which dispatches *)
(* one run at a time.                                                      *)
(***************************************************************************)
EXTENDS Integers, FiniteSets

CONSTANTS
    JobRuns,        \* runs: numbers from 1
    Slots,          \* run -> the number of its agents, which are its slots 1..Slots[run]
    Posts           \* run -> AGENT_EXECUTE_RETRIES of its worker

ASSUME JobsAssumption ==
    JobRuns \subseteq Nat \ {0} /\ Slots \in [JobRuns -> Nat \ {0}] /\ Posts \in [JobRuns -> Nat \ {0}]

VARIABLES
    jobRow,     \* run -> [status, meta, contexts]: meta says whether params has k8s_job
    job,        \* run -> "none", "up", "gone"
    loads,      \* loads that are driven: [run, slot, try, at, job]
    host,       \* slot -> the run whose job the cached instance points to, or Pool
    dispatch,   \* run -> [pc, slots, made, tries, answered, failed]
    polling,    \* run -> "none", "sent", "dead"
    bulk,       \* [pc, runs, told, missed]: contexts that were told to stop, or not
    left        \* history, run -> why its job may have been left

jobVars == <<jobRow, job, loads, host, dispatch, polling, bulk, left>>

Pool == 0
AllSlots == UNION {1..Slots[r] : r \in JobRuns}
NotDispatched ==
    [pc |-> "idle", slots |-> 0, made |-> {}, tries |-> [s \in AllSlots |-> 0],
     answered |-> {}, failed |-> {}]
NoBulk == [pc |-> "idle", runs |-> {}, told |-> {}, missed |-> {}]
Running(r) == jobRow[r].status = "running"
OwnJob(r) == {c \in jobRow[r].contexts : c.job}
Leaves(r, why) == left' = [left EXCEPT ![r] = @ \cup {why}]
Ends(r) == jobRow' = [jobRow EXCEPT ![r].status = "ended"]

\* cleanup_k8s_job: nobody looks at what kubectl answers.
Removes(r, wanted) ==
    IF wanted /\ job[r] = "up"
    THEN \/ job' = [job EXCEPT ![r] = "gone"] /\ UNCHANGED left
         \/ Leaves(r, "kubectl") /\ UNCHANGED job
    ELSE UNCHANGED <<job, left>>
\* Stop requests, each of which may fail; with a job its loads are gone.
Stops(contexts) ==
    \E reached \in SUBSET (contexts \cap loads) :
        loads' = {l \in loads \ reached : l.at = Pool \/ job'[l.at] = "up"}
-----------------------------------------------------------------------------
(* execute_test_task: _execute_task_async, execute_task, _launch_k8s_job *)

\* The agents are discovered anew, or the cached instances are taken, hosts and all.
Claim(r) ==
    /\ jobRow[r].status = "queued" /\ \A q \in JobRuns : dispatch[q].pc = "idle"
    /\ jobRow' = [jobRow EXCEPT ![r].status = "running"]
    /\ dispatch' = [dispatch EXCEPT ![r].pc = "agents"]
    /\ host' \in {host, [s \in AllSlots |-> Pool]}
    /\ UNCHANGED <<job, loads, polling, bulk, left>>

\* Jobs are applied one after the other, as kubectl blocks the event loop.  Without a job the
\* request goes where the instance points.
LaunchJob(r) ==
    /\ dispatch[r].pc = "agents" /\ dispatch[r].slots < Slots[r]
    /\ LET s == dispatch[r].slots + 1
       IN \/ /\ job' = [job EXCEPT ![r] = "up"] /\ host' = [host EXCEPT ![s] = r]
             /\ dispatch' = [dispatch EXCEPT ![r].slots = s, ![r].made = @ \cup {s}]
          \/ /\ dispatch' = [dispatch EXCEPT ![r].slots = s]
             /\ UNCHANGED <<job, host>>
    /\ UNCHANGED <<jobRow, loads, polling, bulk, left>>

\* The request for slot s; it is repeated when its answer is lost.
Open(r, s) == s <= dispatch[r].slots /\ s \notin dispatch[r].failed /\ \A c \in dispatch[r].answered : c.slot # s
Post(r, s) ==
    /\ dispatch[r].pc = "agents" /\ Open(r, s)
    /\ LET there == host[s] \in {Pool} \cup {q \in JobRuns : job[q] = "up"}
           load == [run |-> r, slot |-> s, try |-> dispatch[r].tries[s], at |-> host[s],
                    job |-> s \in dispatch[r].made]
           again == [dispatch EXCEPT ![r].tries[s] = @ + 1,
                        ![r].failed = IF dispatch[r].tries[s] + 1 = Posts[r] THEN @ \cup {s} ELSE @]
       IN \/ /\ there /\ loads' = loads \cup {load}
             /\ dispatch' \in {again, [dispatch EXCEPT ![r].answered = @ \cup {load}]}
          \/ dispatch' = again /\ UNCHANGED loads
    /\ UNCHANGED <<jobRow, job, host, polling, bulk, left>>

Settled(r) == dispatch[r].pc = "agents" /\ dispatch[r].slots = Slots[r] /\ \A s \in 1..Slots[r] : ~Open(r, s)
\* One slot has failed: the others are stopped, and the run has failed.  The result of the
\* dispatch names no job: _mark_failed finds none in params.
DispatchFails(r) ==
    /\ Settled(r) /\ dispatch[r].failed # {}
    /\ jobRow' = [jobRow EXCEPT ![r] = [status |-> "ended", meta |-> FALSE, contexts |-> dispatch[r].answered]]
    /\ dispatch' = [dispatch EXCEPT ![r] = NotDispatched] /\ Leaves(r, "failed")
    /\ UNCHANGED job /\ Stops(dispatch[r].answered)
    /\ UNCHANGED <<host, polling, bulk>>
Persist(r) ==
    /\ Settled(r) /\ dispatch[r].failed = {}
    /\ jobRow' = [jobRow EXCEPT ![r].contexts = dispatch[r].answered, ![r].meta = 1 \in dispatch[r].made]
    /\ dispatch' = [dispatch EXCEPT ![r] = [NotDispatched EXCEPT !.pc = "check"]]
    /\ IF dispatch[r].made \in {{}, 1..Slots[r]} THEN UNCHANGED left ELSE Leaves(r, "partly")
    /\ UNCHANGED <<job, loads, host, polling, bulk>>
\* A run that was stopped meanwhile is not polled.
StartPoll(r) ==
    /\ dispatch[r].pc = "check" /\ dispatch' = [dispatch EXCEPT ![r].pc = "idle"]
    /\ IF Running(r)
       THEN \/ polling' = [polling EXCEPT ![r] = "sent"] /\ UNCHANGED <<jobRow, job, loads, left>>
            \/ Ends(r) /\ Removes(r, jobRow[r].meta) /\ Stops({}) /\ UNCHANGED polling
       ELSE Leaves(r, "stopped") /\ UNCHANGED <<jobRow, job, loads, polling>>
    /\ UNCHANGED <<host, bulk>>
WorkerDiesInDispatch(r) ==
    /\ dispatch[r].pc # "idle" /\ dispatch' = [dispatch EXCEPT ![r] = NotDispatched]
    /\ Leaves(r, "died")
    /\ UNCHANGED <<jobRow, job, loads, host, polling, bulk>>
-----------------------------------------------------------------------------
(* poll_run_status; stop_run, govern_timed_out_run *)

\* Mutant: the poll of a run that has ended just returns.
PollEndedReturns(r) ==
    /\ polling[r] = "sent" /\ ~Running(r) /\ polling' = [polling EXCEPT ![r] = "none"]
    /\ UNCHANGED <<jobRow, job, loads, host, dispatch, bulk, left>>
PollEnded(r) ==
    /\ polling[r] = "sent" /\ ~Running(r) /\ polling' = [polling EXCEPT ![r] = "none"]
    /\ Removes(r, OwnJob(r) # {}) /\ Stops({})
    /\ UNCHANGED <<jobRow, host, dispatch, bulk>>
\* The loads are over, or the time is: then they are stopped first.
PollEnds(r) ==
    /\ polling[r] = "sent" /\ Running(r) /\ polling' = [polling EXCEPT ![r] = "none"]
    /\ Ends(r) /\ Removes(r, OwnJob(r) # {}) /\ Stops(jobRow[r].contexts)
    /\ UNCHANGED <<host, dispatch, bulk>>
PollDies(r) ==
    /\ polling[r] = "sent" /\ polling' = [polling EXCEPT ![r] = "dead"] /\ Leaves(r, "dead")
    /\ UNCHANGED <<jobRow, job, loads, host, dispatch, bulk>>

UserStops(r) ==
    /\ jobRow[r].status \in {"queued", "running"} /\ Ends(r) /\ UNCHANGED job /\ Stops(jobRow[r].contexts)
    /\ UNCHANGED <<host, dispatch, polling, bulk, left>>
Watchdog(r) ==
    /\ Running(r) /\ Ends(r) /\ Removes(r, jobRow[r].meta) /\ Stops(jobRow[r].contexts)
    /\ UNCHANGED <<host, dispatch, polling, bulk>>
JobLoadEnds(l) ==
    loads' = loads \ {l} /\ UNCHANGED <<jobRow, job, host, dispatch, polling, bulk, left>>
-----------------------------------------------------------------------------
(* stop_active_runs_bulk *)

BulkLooks ==
    /\ bulk.pc = "idle"
    /\ bulk' = [NoBulk EXCEPT !.pc = "tell", !.runs = {r \in JobRuns : jobRow[r].status # "ended"}]
    /\ UNCHANGED <<jobRow, job, loads, host, dispatch, polling, left>>
\* The contexts of the rows as they were loaded; the requests are sent side by side, and each
\* is given a few seconds.
Known == UNION {jobRow[r].contexts : r \in bulk.runs} \ (bulk.told \cup bulk.missed)
BulkTells(c) ==
    /\ bulk.pc = "tell" /\ c \in Known
    /\ \/ bulk' = [bulk EXCEPT !.told = @ \cup {c}] /\ loads' = loads \ {c}
       \/ bulk' = [bulk EXCEPT !.missed = @ \cup {c}] /\ loads' \in {loads, loads \ {c}}
    /\ UNCHANGED <<jobRow, job, host, dispatch, polling, left>>
\* Every row is written, whatever the requests have brought.
BulkWrites ==
    /\ bulk.pc = "tell" /\ Known = {} /\ bulk' = [bulk EXCEPT !.pc = "done"]
    /\ jobRow' = [r \in JobRuns |-> IF r \in bulk.runs THEN [jobRow[r] EXCEPT !.status = "ended"] ELSE jobRow[r]]
    /\ UNCHANGED <<job, loads, host, dispatch, polling, left>>
-----------------------------------------------------------------------------
\* The runs of `waiting` are queued, the others have ended.
JobInit(waiting) ==
    /\ jobRow = [r \in JobRuns |-> [status |-> IF r \in waiting THEN "queued" ELSE "ended", meta |-> FALSE, contexts |-> {}]]
    /\ job = [r \in JobRuns |-> "none"] /\ loads = {} /\ host = [s \in AllSlots |-> Pool]
    /\ dispatch = [r \in JobRuns |-> NotDispatched] /\ polling = [r \in JobRuns |-> "none"]
    /\ bulk = NoBulk /\ left = [r \in JobRuns |-> {}]
JobNext ==
    \/ \E r \in JobRuns :
          \/ Claim(r) \/ LaunchJob(r) \/ DispatchFails(r) \/ Persist(r) \/ StartPoll(r)
          \/ WorkerDiesInDispatch(r) \/ PollEnded(r) \/ PollEnds(r) \/ PollDies(r)
          \/ UserStops(r) \/ Watchdog(r) \/ \E s \in 1..Slots[r] : Post(r, s)
    \/ \E l \in loads : JobLoadEnds(l)
    \/ BulkLooks \/ BulkWrites \/ \E r \in bulk.runs : \E c \in jobRow[r].contexts : BulkTells(c)
JobSpec == JobInit(JobRuns) /\ [][JobNext]_jobVars
-----------------------------------------------------------------------------
(* Properties *)

JobTypeOK ==
    /\ \A r \in JobRuns :
          /\ jobRow[r].status \in {"queued", "running", "ended"} /\ job[r] \in {"none", "up", "gone"}
          /\ dispatch[r].pc \in {"idle", "agents", "check"} /\ polling[r] \in {"none", "sent", "dead"}
    /\ \A l \in loads : l.run \in JobRuns /\ l.try < Posts[l.run]
    /\ bulk.pc \in {"idle", "tell", "done"}

\* The job of a run that is polled is there, and so is every job that its loads are in.
JobsServe ==
    \A r \in JobRuns :
        /\ Running(r) /\ polling[r] = "sent" /\ OwnJob(r) # {} => job[r] = "up"
        /\ \A l \in loads : l.at = r => job[r] = "up"
\* Once nobody is about to do anything for a run that has ended, its job is gone, unless one
\* of these has happened: the dispatch failed, or its worker died; only some of the slots were
\* given the job; the run was stopped during the dispatch, or its poll died; or kubectl failed.
JobsAreRemoved ==
    \A r \in JobRuns :
        jobRow[r].status = "ended" /\ dispatch[r].pc = "idle" /\ polling[r] # "sent" /\ left[r] = {}
            => job[r] # "up"
\* After a bulk stop no run that it found goes on, and the loads that it counts as stopped are.
BulkStops ==
    bulk.pc = "done" =>
        /\ bulk.told \cap loads = {}
        /\ \A r \in bulk.runs : jobRow[r].status = "ended"
JobsEnd == JobsServe /\ JobsAreRemoved /\ BulkStops
=============================================================================
