--------------------------- MODULE PlanScheduler ---------------------------
(***************************************************************************)
(* The scheduler: every scan collects the plans that are due and for whose *)
(* first wave the pool has agents, then launches them one by one; workers  *)
(* execute the plan runs it creates beside those that users start.  A plan *)
(* run launches one run, its first wave (PlanExecution has the whole of a  *)
(* plan run); a plan run and its run have the same name here.              *)
(* Source: backend/ptp-admin/app/tasks/plan_executor.py,                   *)
(* services/plan_service.py, repositories/plan_repository.py.              *)
(***************************************************************************)
EXTENDS AgentPool

CONSTANTS
    Exec,       \* per plan: "fixed", "cron" or "manual"
    Period,     \* a cron plan is to start at every multiple of it
    MaxTime,    \* the bound of the clock
    Scans       \* scan_scheduled_plans tasks that workers may execute

Plans == DOMAIN Exec
Names == [plan : Plans, n : Nat]

ASSUME SchedulerAssumption ==
    /\ Plans \subseteq Nat /\ IsFiniteSet(Plans) /\ Runs \subseteq Names
    /\ \A p \in Plans : \E k \in Runs : k.plan = p
    /\ \A p \in Plans : Exec[p] \in {"fixed", "cron", "manual"}
    /\ Period \in Nat \ {0} /\ MaxTime \in Nat

VARIABLES
    now,
    plan,       \* per plan: [status, at], at being scheduled_at
    planRun,    \* per plan run: [status, trigger, started], and what it was due for
    exec,       \* per plan run: its message and the worker that has it
    scan,       \* per scan: [pc, now, due]
    overlap,    \* history: a scan has collected while another launched
    editing,    \* per plan: the status that an edit under way has loaded, or "none"
    deleting,   \* the plans whose deletion has been allowed and not yet made
    raced       \* history: the plans with an activity that their deletion did not see

schedVars == <<now, plan, planRun, exec, scan, overlap, editing, deleting, raced>>
vars == <<poolVars, schedVars>>

Of(p) == {k \in Runs : k.plan = p}
Unstarted == [status |-> "none", trigger |-> "none", started |-> 0, occasion |-> 0]
ActivePlanRun(k) == planRun[k].status \in {"preparing", "running"}
Busy(p) == \E k \in Of(p) : ActivePlanRun(k)

Init ==
    /\ PoolInit
    /\ now = 0
    /\ plan \in [Plans -> [status : {"ready", "suspended"}, at : 1..MaxTime]]
    /\ planRun = [k \in Runs |-> Unstarted] /\ exec = [k \in Runs |-> "none"]
    /\ scan = [s \in Scans |-> [pc |-> "idle", now |-> 0, due |-> {}]]
    /\ overlap = FALSE /\ editing = [p \in Plans |-> "none"] /\ deleting = {} /\ raced = {}
-----------------------------------------------------------------------------
(* Which plans are due *)

\* The plan's runs that the scheduler has started, and the latest of them.
Scheduled(p) == {k \in Of(p) : planRun[k].trigger = Exec[p]}
Latest(p) == {k \in Scheduled(p) : \A j \in Scheduled(p) : j.n <= k.n}

\* Mutant: the run that was started at the very time does not count.
ConsumedStrictly(p) == \E k \in Latest(p) : planRun[k].started > plan[p].at
\* A fixed plan is consumed if its latest scheduled run started at its time or later.
Consumed(p) == \E k \in Latest(p) : planRun[k].started >= plan[p].at

Due(p) ==
    \/ Exec[p] = "fixed" /\ plan[p].at <= now /\ ~Consumed(p)
    \/ /\ Exec[p] = "cron"
       /\ \E t \in 1..now : t % Period = 0 /\ \A k \in Latest(p) : planRun[k].started < t

\* What the plan is due for: its time, or the last multiple of its period.
Occasion(p) == IF Exec[p] = "cron" THEN now \div Period ELSE plan[p].at

\* The agents that the plan's first wave asks for, and in which environment.
Wave(p) == Pods[CHOOSE k \in Of(p) : TRUE]
EnvOf(p) == Env[CHOOSE k \in Of(p) : TRUE]
PlansIn(e, S) == {p \in S : EnvOf(p) = e}

Reserved(S) == MapThenSumSet(Wave, S)
\* In the order of their ids, the plans reserve in their environment what their first wave
\* needs.  A plan whose request cannot be told, for its task is gone, or whose pool cannot be
\* counted passes unchecked and reserves nothing.
Fits(p, S) == Reserved({q \in PlansIn(EnvOf(p), S) : q < p}) + Wave(p) <= Idle(EnvOf(p))
Collected(S, unchecked) ==
    \A p \in Plans : p \in S <=>
        /\ plan[p].status = "ready" /\ ~Busy(p) /\ Due(p)
        /\ p \in unchecked \/ Fits(p, S \ unchecked)
-----------------------------------------------------------------------------
(* The scan *)

ScanCollects(s) ==
    /\ scan[s].pc = "idle"
    /\ \E S \in (SUBSET Plans) \ {{}}, unchecked \in SUBSET Plans :
         /\ unchecked \subseteq S /\ Collected(S, unchecked)
         /\ raced' = raced \cup (deleting \cap S)
         /\ scan' = [scan EXCEPT ![s] = [pc |-> "launch", now |-> now,
                        due |-> {[plan |-> p, occasion |-> Occasion(p),
                                  checked |-> p \notin unchecked] : p \in S}]]
    /\ overlap' = (overlap \/ \E t \in Scans : scan[t].pc # "idle")
    /\ UNCHANGED <<poolVars, now, plan, planRun, exec, editing, deleting>>

\* The plan that the scan launches next, with what it is due for.
First(s) == {d \in scan[s].due : \A e \in scan[s].due : d.plan <= e.plan}

Create(k, trigger, time, occasion) ==
    /\ planRun' = [planRun EXCEPT ![k] = [status |-> "preparing", trigger |-> trigger,
                                         started |-> time, occasion |-> occasion]]
    /\ raced' = raced \cup ({k.plan} \cap deleting)
NextRun(p) == {k \in Of(p) : planRun[k].status = "none"
                             /\ \A j \in Of(p) : j.n < k.n => planRun[j].status # "none"}

\* The row of the next plan is committed with the time of the scan.
ScanCreates(s) ==
    /\ scan[s].pc = "launch"
    /\ \E d \in First(s) : \E k \in NextRun(d.plan) :
         /\ Create(k, Exec[d.plan], scan[s].now, d.occasion)
         /\ exec' = [exec EXCEPT ![k] = "created"]
    /\ scan' = [scan EXCEPT ![s].pc = "send"]
    /\ UNCHANGED <<poolVars, now, plan, overlap, editing, deleting>>
\* Then the message is sent; if it cannot be, the scan ends there.
ScanSends(s) ==
    /\ scan[s].pc = "send"
    /\ \E d \in First(s) : \E k \in Of(d.plan) :
         /\ exec[k] = "created"
         /\ \/ /\ exec' = [exec EXCEPT ![k] = "queued"]
               /\ scan' = [scan EXCEPT ![s].due = @ \ {d},
                             ![s].pc = IF scan[s].due = {d} THEN "idle" ELSE "launch"]
            \/ /\ exec' = [exec EXCEPT ![k] = "done"]
               /\ scan' = [scan EXCEPT ![s].due = {}, ![s].pc = "idle"]
    /\ UNCHANGED <<poolVars, now, plan, planRun, overlap, editing, deleting, raced>>

Scan(s) == ScanCollects(s) \/ ScanCreates(s) \/ ScanSends(s)
-----------------------------------------------------------------------------
(* Users *)

\* POST /plans/{id}/execute does not ask whether the plan is running.
Execute(p) ==
    /\ plan[p].status # "deleted"
    /\ \E k \in NextRun(p) : Create(k, "manual", now, 0) /\ exec' = [exec EXCEPT ![k] = "queued"]
    /\ UNCHANGED <<poolVars, now, plan, scan, overlap, editing, deleting>>

\* An edit loads the plan, ...
EditLoads(p) ==
    /\ plan[p].status # "deleted" /\ editing[p] = "none"      \* a bound: one edit at a time
    /\ editing' = [editing EXCEPT ![p] = plan[p].status]
    /\ raced' = raced \cup ({p} \cap deleting)
    /\ UNCHANGED <<poolVars, now, plan, planRun, exec, scan, overlap, deleting>>
\* ... gives it a time and a status, any but deleted, and commits: what is as it was loaded is
\* not written.
EditMade(p) ==
    /\ editing[p] # "none" /\ editing' = [editing EXCEPT ![p] = "none"]
    /\ \E t \in 1..MaxTime, st \in {"ready", "suspended", "running"} :
         plan' = [plan EXCEPT ![p] = [status |-> IF st = editing[p] THEN @.status ELSE st, at |-> t]]
    /\ UNCHANGED <<poolVars, now, planRun, exec, scan, overlap, deleting, raced>>

\* Mutant: a plan may be deleted while it runs.
DeleteUnchecked(p) ==
    /\ plan[p].status # "deleted" /\ p \notin deleting /\ deleting' = deleting \cup {p}
    /\ raced' = IF \/ editing[p] # "none" \/ \E s \in Scans : \E d \in scan[s].due : d.plan = p
                   \/ \E k \in Of(p) : exec[k] = "looked" /\ ~ActivePlanRun(k)
                THEN raced \cup {p} ELSE raced
    /\ UNCHANGED <<poolVars, now, plan, planRun, exec, scan, overlap, editing>>
\* DELETE /plans/{id} is refused while the plan has an active run.
DeleteAllowed(p) ==
    /\ plan[p].status # "deleted" /\ p \notin deleting /\ ~Busy(p)
    /\ deleting' = deleting \cup {p}
    /\ raced' = IF \/ editing[p] # "none" \/ \E s \in Scans : \E d \in scan[s].due : d.plan = p
                   \/ \E k \in Of(p) : exec[k] = "looked"
                THEN raced \cup {p} ELSE raced
    /\ UNCHANGED <<poolVars, now, plan, planRun, exec, scan, overlap, editing>>
DeleteMade(p) ==
    /\ p \in deleting /\ deleting' = deleting \ {p}
    /\ plan' = [plan EXCEPT ![p].status = "deleted"]
    /\ UNCHANGED <<poolVars, now, planRun, exec, scan, overlap, editing, raced>>

\* The plan is ready again when its last active run has ended.
Released(p, ended) ==
    plan' = IF plan[p].status = "running" /\ \A k \in Of(p) \ {ended} : ~ActivePlanRun(k)
            THEN [plan EXCEPT ![p].status = "ready"] ELSE plan
\* A user or the watchdog stops a plan run and the run it has launched.
Stop(k) ==
    /\ ActivePlanRun(k) /\ planRun' = [planRun EXCEPT ![k].status = "ended"]
    /\ Released(k.plan, k)
    /\ IF row[k].status = "running"
       THEN /\ row' = [row EXCEPT ![k].status = "ended"]
            /\ token' = [token EXCEPT ![k] =
                 [a \in Agents |-> IF a \in Load(k) \cap Answering THEN "ended" ELSE @[a]]]
       ELSE UNCHANGED <<row, token>>
    /\ UNCHANGED <<registry, discovery, step, chosen, excuse,
                   now, exec, scan, overlap, editing, deleting, raced>>
-----------------------------------------------------------------------------
(* The worker that executes a plan run *)

\* A plan run that has ended is left alone.
WorkerLooks(k) ==
    /\ exec[k] = "queued"
    /\ exec' = [exec EXCEPT ![k] = IF ActivePlanRun(k) THEN "looked" ELSE "done"]
    /\ UNCHANGED <<poolVars, now, plan, planRun, scan, overlap, editing, deleting, raced>>
\* Mutant: the plan gets the plan run's status.
WorkerBeginsPreparing(k) ==
    /\ exec[k] = "looked" /\ exec' = [exec EXCEPT ![k] = "running"]
    /\ plan' = [plan EXCEPT ![k.plan].status = planRun[k].status]
    /\ planRun' = [planRun EXCEPT ![k].status = "running"]
    /\ UNCHANGED <<poolVars, now, scan, overlap, editing, deleting, raced>>
\* The plan is marked running whatever it is, deleted or suspended; so is the plan run.
WorkerBegins(k) ==
    /\ exec[k] = "looked" /\ exec' = [exec EXCEPT ![k] = "running"]
    /\ plan' = [plan EXCEPT ![k.plan].status = "running"]
    /\ planRun' = [planRun EXCEPT ![k].status = "running"]
    /\ UNCHANGED <<poolVars, now, scan, overlap, editing, deleting, raced>>
\* It creates and launches the run of the wave ...
WorkerLaunches(k) ==
    /\ exec[k] = "running" /\ (Launch(k) \/ (ActivePlanRun(k) /\ Validate(k)))
    /\ UNCHANGED schedVars
\* ... and ends the plan run, unless that has been done, when the run has ended or was refused.
WorkerEnds(k) ==
    /\ exec[k] = "running" /\ exec' = [exec EXCEPT ![k] = "done"]
    /\ row[k].status = "ended" \/ step[k] = "refused" \/ ~ActivePlanRun(k)
    /\ planRun' = [planRun EXCEPT ![k].status = "ended"] /\ Released(k.plan, k)
    /\ UNCHANGED <<poolVars, now, scan, overlap, editing, deleting, raced>>
Worker(k) == WorkerLooks(k) \/ WorkerBegins(k) \/ WorkerLaunches(k) \/ WorkerEnds(k)

Clock == now < MaxTime /\ now' = now + 1
         /\ UNCHANGED <<poolVars, plan, planRun, exec, scan, overlap, editing, deleting, raced>>
-----------------------------------------------------------------------------
Next ==
    \/ Clock \/ (Weather /\ UNCHANGED schedVars)
    \/ \E k \in Runs : Worker(k) \/ Stop(k) \/ (Life(k) /\ UNCHANGED schedVars)
    \/ \E p \in Plans : Execute(p) \/ EditLoads(p) \/ EditMade(p)
                        \/ DeleteAllowed(p) \/ DeleteMade(p)
    \/ \E s \in Scans : Scan(s)
Spec == Init /\ [][Next]_vars
-----------------------------------------------------------------------------
(* Properties *)

TypeOK ==
    /\ PoolTypeOK
    /\ now \in 0..MaxTime
    /\ plan \in [Plans -> [status : {"ready", "suspended", "running", "deleted"},
                           at : 1..MaxTime]]
    /\ planRun \in [Runs -> [status : {"none", "preparing", "running", "ended"},
                             trigger : {"none", "manual", "fixed", "cron"},
                             started : 0..MaxTime, occasion : 0..MaxTime]]
    /\ exec \in [Runs -> {"none", "created", "queued", "looked", "running", "done"}]
    /\ scan \in [Scans -> [pc : {"idle", "launch", "send"}, now : 0..MaxTime,
                           due : SUBSET [plan : Plans, occasion : 0..MaxTime, checked : BOOLEAN]]]
    /\ overlap \in BOOLEAN /\ editing \in [Plans -> {"none", "ready", "suspended", "running"}]
    /\ deleting \subseteq Plans /\ raced \subseteq Plans

\* The scheduler starts a plan once for one occasion, a fixed plan's time or a multiple of a
\* cron plan's period, whatever users start, stop and edit in between; only scans that
\* overlap can start it twice.
StartedOnce ==
    ~overlap => \A p \in Plans : Exec[p] # "manual" => \A j, k \in Scheduled(p) :
        planRun[j].occasion = planRun[k].occasion => j = k

\* One scan never starts plans of one environment that together need more agents than the
\* environment found idle when it collected them, those aside that it could not check.
ScanWithinIdle ==
    [][\A s \in Scans : scan[s].pc = "idle" /\ scan'[s].pc = "launch" =>
          \A e \in Envs :
             Reserved(PlansIn(e, {d.plan : d \in {c \in scan'[s].due : c.checked}})) <= Idle(e)]_vars

\* A scan does not count on agents that are not there, nor does a dispatch.
PoolIsKept == ScanWithinIdle /\ SelectedRecently

\* A deleted plan stays deleted, unless a scan, a worker or an edit was at it while it was
\* deleted: the worker of a plan run marks the plan running and ready without a look at it, and
\* an edit commits the status that it was given.
DeletedStaysDeleted ==
    [][\A p \in Plans : plan[p].status = "deleted" /\ p \notin raced'
          => plan'[p].status = "deleted"]_vars
=============================================================================
