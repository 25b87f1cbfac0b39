-------------------------- MODULE MCPlanScheduler --------------------------
(***************************************************************************)
(* Plans, agents and what agents tell, several instances in one run of     *)
(* TLC; the part that a behaviour is about is chosen at the start.         *)
(* "plans": a fixed and a cron plan compete for the only agent there is.   *)
(* "apart": two plans of two environments; one of them needs all agents.   *)
(* "users": the fixed plan alone, edited, started by hand and deleted.     *)
(* "pool": two runs are created directly while agents fall silent and come *)
(* back.  "jobs": the agents of two runs are Kubernetes jobs; "slots": one *)
(* run has two agents in its job.  "readings": the readings that an agent  *)
(* takes while a run lasts.                                                *)
(***************************************************************************)
EXTENDS PlanScheduler, ClusterJobs, PodReadings

VARIABLE part

MCExec == <<"fixed", "cron", "fixed">>
R(p, i) == [plan |-> p, n |-> i]
MCSlots == <<1, 1, 2>>
MCPosts == <<2, 1, 2>>
MCPods == [k \in {R(1, 1), R(1, 2), R(2, 1), R(2, 2), R(3, 1)} |-> IF k.plan = 3 THEN 2 ELSE 1]
MCEnv == [k \in DOMAIN MCPods |-> IF k.plan = 3 THEN "far" ELSE "near"]

\* The runs of each part.
Mine == CASE part = "plans" -> {R(1, 1), R(2, 1), R(2, 2)}
          [] part = "apart" -> {R(1, 1), R(3, 1)}
          [] part = "users" -> {R(1, 1), R(1, 2)}
          [] part = "pool" -> {R(1, 1), R(2, 1)}
          [] OTHER -> {}

\* A scan that finds the first one at rest would do as that does.
FirstScan == CHOOSE s \in Scans : TRUE
MyScans == {s \in Scans : s = FirstScan \/ scan[s].pc # "idle"
                            \/ (part = "plans" /\ scan[FirstScan].pc # "idle")}

ReadingRest ==
    /\ place = [host |-> TRUE, groups |-> TRUE]
    /\ load = [process |-> "none", pid |-> FALSE, status |-> "running"]
    /\ clock = 0 /\ readings = [kept |-> <<>>, warm |-> FALSE, recorded |-> FALSE]
    /\ taker = [t \in {"run", "sampler", "page"} |-> NoReading]
    /\ told = "unborn" /\ taken = [n |-> 0, most |-> 0]

MCInit ==
    /\ Init /\ part \in {"plans", "apart", "users", "pool", "jobs", "slots", "readings"}
    /\ JobInit(IF part = "jobs" THEN {1, 2} ELSE {3})
    /\ IF part = "readings" THEN ReadingInit ELSE ReadingRest
    /\ Answering = IF part \in {"apart", "pool"} THEN Agents ELSE {1}
    /\ plan[1] = [status |-> "ready", at |-> 1]
    /\ plan[2] = [status |-> IF part = "plans" THEN "ready" ELSE "suspended", at |-> 1]
    /\ plan[3] = [status |-> IF part = "apart" THEN "ready" ELSE "suspended", at |-> 1]

PlanSteps ==
    /\ part \in {"plans", "apart", "users"} /\ UNCHANGED part
    /\ \/ Clock
       \/ \E k \in Mine : Worker(k)
       \/ \E k \in Mine : RowEnds(k) /\ UNCHANGED schedVars
       \* a bound: loads of "users" end by a stop only
       \/ \E k \in Mine, a \in Agents : part # "users" /\ LoadEnds(k, a) /\ UNCHANGED schedVars
       \/ \E s \in MyScans : /\ Scan(s)
                               \* bounds: in "users" and at time 1 all plans can be checked,
                               \* at time 2 all but the first plan
                               /\ \A d \in scan'[s].due :
                                     d.checked \/ (d.plan = 1 /\ now = 2 /\ part # "users")
UserSteps ==
    /\ part = "users" /\ UNCHANGED part
    /\ \/ Stop(R(1, 1))              \* a bound
       \/ Execute(1) \/ DeleteAllowed(1) \/ DeleteMade(1)
       \* bounds: one edit, begun at time 1, that sets another time
       \/ now = 1 /\ plan[1].at = 1 /\ EditLoads(1)
       \/ EditMade(1) /\ plan'[1].at = 2
PoolSteps ==
    /\ part = "pool" /\ UNCHANGED <<part, schedVars>>
    /\ "overlap" \notin excuse       \* a bound: no step follows a check or choice that overlaps
    /\ \/ Weather
       \/ \E k \in Mine : Validate(k) \/ Launch(k) \/ \E a \in Agents : LoadEnds(k, a)
       \* a bound: only the first row ends and is left alone for long
       \/ RowEnds(R(1, 1)) \/ RowAges(R(1, 1))
JobSteps ==
    /\ part \in {"jobs", "slots"} /\ JobNext /\ UNCHANGED <<part, vars, readingVars>>
    /\ "died" \notin left'[2]        \* a bound: only the worker of the other run dies
    /\ "dead" \notin left'[2]
ReadingSteps == part = "readings" /\ ReadingNext /\ UNCHANGED <<part, vars, jobVars>>
MCNext ==
    \/ (PlanSteps \/ UserSteps \/ PoolSteps) /\ UNCHANGED <<jobVars, readingVars>>
    \/ JobSteps \/ ReadingSteps
MCSpec == MCInit /\ [][MCNext]_<<vars, part, jobVars, readingVars>>

\* Kubernetes jobs: loads drive for runs, jobs are removed, a stop of all runs stops them all.
JobsHold == part \in {"jobs", "slots"} => JobTypeOK /\ JobsEnd
\* The readings of an agent: rates of one counter, a curve that is up to date, an end.
ReadingsHold == part = "readings" => ReadingTypeOK /\ ReadingsAreSound
=============================================================================
