------------------------ MODULE PlanSchedulerProofs ------------------------
(***************************************************************************)
(* Proofs about the scheduler, the pool of agents and their hosts: the     *)
(* type invariant, that one occasion starts a plan once, that a deleted    *)
(* plan stays so, that no run is handed to an agent that has been silent   *)
(* for long, that an agent bears one load, and that a scan stays within    *)
(* the idle pool.  Runs whose agents are Kubernetes jobs: loads are only   *)
(* driven in jobs that are there, a job is left behind only in the gaps    *)
(* named, and a stop of all active runs reaches each.  The readings that   *)
(* an agent takes of its host: rates are of one counter, and curves are up *)
(* to date.                                                                *)
(* Source: backend/ptp-admin/app/tasks/plan_executor.py,                   *)
(* tasks/test_executor.py, services/plan_service.py,                       *)
(* services/run_service.py, core/agent_orchestrator.py,                    *)
(* backend/ptp-agent/app/core/runtime_store.py.                            *)
(***************************************************************************)
EXTENDS MCPlanScheduler, FoldProofs

-----------------------------------------------------------------------------
(* Types *)

LEMMA OldTyped == Old \in Nat /\ Old = Grace + 1
  BY PoolAssumption DEF Old

LEMMA PoolInitTyped == PoolInit => PoolTypeOK
<1> SUFFICES ASSUME PoolInit PROVE PoolTypeOK
  OBVIOUS
<1>1. silent \in [Agents -> 0..Old + 1] /\ age \in 0..Old
  BY OldTyped DEF PoolInit
<1>2. listed \subseteq Agents
  BY DEF PoolInit, Answering
<1> QED
  BY <1>1, <1>2 DEF PoolInit, PoolTypeOK

\* The agents that a discovery returns are agents.
LEMMA DiscoveredAreAgents == PoolTypeOK => Discovered \subseteq Agents
  BY PoolAssumption DEF PoolTypeOK, Discovered, Healthy, Candidates, Answering

Rows == [Runs -> [status : {"none", "preparing", "running", "ended"}, aged : BOOLEAN]]

\* A row that gets another status, or grows old, is a row.
LEMMA RowsChange ==
    ASSUME row \in Rows, NEW r \in Runs, NEW st \in {"none", "preparing", "running", "ended"}
    PROVE  [row EXCEPT ![r].status = st] \in Rows /\ [row EXCEPT ![r].aged = TRUE] \in Rows
  BY DEF Rows

\* So is a table of tokens in which one agent's has ended.
LEMMA TokensChange ==
    ASSUME token \in [Runs -> [Agents -> {"none", "running", "ended"}]],
           NEW r \in Runs, NEW a \in Agents
    PROVE  [token EXCEPT ![r][a] = "ended"] \in [Runs -> [Agents -> {"none", "running", "ended"}]]
<1>1. [token[r] EXCEPT ![a] = "ended"] \in [Agents -> {"none", "running", "ended"}]
  OBVIOUS
<1> QED
  BY <1>1

LEMMA PoolKeepsType == PoolTypeOK /\ [PoolNext]_poolVars => PoolTypeOK'
<1> SUFFICES ASSUME PoolTypeOK, [PoolNext]_poolVars PROVE PoolTypeOK'
  OBVIOUS
<1> USE DEF registry, discovery, runs
<1>1. ASSUME Discover PROVE cache' \subseteq Agents /\ age' \in 0..Old
  BY <1>1, DiscoveredAreAgents, OldTyped DEF Discover, PoolTypeOK
<1>0. row \in Rows
  BY DEF PoolTypeOK, Rows
<1>2. CASE Weather
  <2>1. ASSUME NEW a \in Agents, FallSilent(a) \/ Return(a) PROVE PoolTypeOK'
    <3>1. 0 \in 0..Old + 1 /\ 1 \in 0..Old + 1
      BY OldTyped, PoolAssumption
    <3>2. silent' \in [Agents -> 0..Old + 1]
      BY <2>1, <3>1 DEF FallSilent, Return, PoolTypeOK
    <3> QED
      BY <2>1, <3>2 DEF FallSilent, Return, PoolTypeOK
  <2>2. CASE RegistryFollows
    BY <2>2 DEF RegistryFollows, PoolTypeOK, Answering
  <2>3. CASE Tick
    <3>1. silent' \in [Agents -> 0..Old + 1] /\ age' \in 0..Old
      BY <2>3, OldTyped DEF Tick, PoolTypeOK
    <3> QED
      BY <2>3, <3>1 DEF Tick, PoolTypeOK
  <2>4. CASE DiscoverInVain
    BY <2>4, <1>1 DEF DiscoverInVain, PoolTypeOK
  <2> QED
    BY <1>2, <2>1, <2>2, <2>3, <2>4 DEF Weather
<1>3. ASSUME NEW r \in Runs, Validate(r) PROVE PoolTypeOK'
  BY <1>3 DEF Validate, PoolTypeOK, Note
<1>4. ASSUME NEW r \in Runs, Insert(r) PROVE PoolTypeOK'
  BY <1>4 DEF Insert, PoolTypeOK
<1>5. ASSUME NEW r \in Runs, Select(r) PROVE PoolTypeOK'
  <2>1. excuse' \subseteq {"overlap", "missing", "unseen"}
    BY <1>5 DEF Select, PoolTypeOK, Note
  <2>2. cache' \subseteq Agents /\ age' \in 0..Old
    BY <1>5, <1>1 DEF Select
  <2>3. chosen' \in [Runs -> SUBSET Agents]
    BY <1>5, <2>2 DEF Select, Selections, PoolTypeOK
  <2>4. row' \in Rows
    <3>1. row' = row \/ row' = [row EXCEPT ![r].status = "ended"]
      BY <1>5 DEF Select, Launched
    <3> QED
      BY <1>0, <3>1, RowsChange
  <2>5. step' \in [Runs -> {"idle", "refused", "checked", "created", "dispatch", "launched"}]
    BY <1>5 DEF Select, Launched, PoolTypeOK
  <2> QED
    BY <1>5, <2>1, <2>2, <2>3, <2>4, <2>5 DEF Select, PoolTypeOK, Rows
<1>6. ASSUME NEW r \in Runs, Dispatch(r) PROVE PoolTypeOK'
  <2>1. row' \in Rows
    <3>1. \E st \in {"running", "ended"} : row' = [row EXCEPT ![r].status = st]
      BY <1>6 DEF Dispatch, Launched
    <3> QED
      BY <1>0, <3>1, RowsChange
  <2>4. step' \in [Runs -> {"idle", "refused", "checked", "created", "dispatch", "launched"}]
    BY <1>6 DEF Dispatch, Launched, PoolTypeOK
  <2>2. chosen' \in [Runs -> SUBSET Agents]
    <3>1. chosen[r] \cap Answering \in SUBSET Agents
      BY DEF PoolTypeOK
    <3> QED
      BY <1>6, <3>1 DEF Dispatch, PoolTypeOK
  <2>3. token' \in [Runs -> [Agents -> {"none", "running", "ended"}]]
    BY <1>6 DEF Dispatch, PoolTypeOK
  <2> QED
    BY <1>6, <2>1, <2>2, <2>3, <2>4 DEF Dispatch, PoolTypeOK, Rows
<1>7. ASSUME NEW r \in Runs, Life(r) PROVE PoolTypeOK'
  <2>1. CASE RowEnds(r) \/ RowAges(r)
    <3>1. row' = [row EXCEPT ![r].status = "ended"] \/ row' = [row EXCEPT ![r].aged = TRUE]
      BY <2>1 DEF RowEnds, RowAges
    <3>2. row' \in Rows
      BY <1>0, <3>1, RowsChange
    <3> QED
      BY <2>1, <3>2 DEF RowEnds, RowAges, PoolTypeOK, Rows
  <2>2. ASSUME NEW a \in Agents, LoadEnds(r, a) PROVE PoolTypeOK'
    BY <2>2, TokensChange DEF LoadEnds, PoolTypeOK
  <2> QED
    BY <1>7, <2>1, <2>2 DEF Life
<1>8. CASE UNCHANGED poolVars
  BY <1>8 DEF poolVars, PoolTypeOK
<1> QED
  BY <1>2, <1>3, <1>4, <1>5, <1>6, <1>7, <1>8 DEF PoolNext, Launch
-----------------------------------------------------------------------------
(* The occasions of a cron plan *)

\* A multiple of the period after one time and no later than another tells them apart.
LEMMA OccasionsApart ==
    ASSUME NEW a \in Nat, NEW t \in Nat, NEW n \in Nat, NEW d \in Nat \ {0},
           a < t, t % d = 0, t <= n
    PROVE  a \div d < n \div d
<1> DEFINE x == a \div d
           y == n \div d
           u == t \div d
<1>1. x \in Nat /\ y \in Nat /\ u \in Nat
  BY Division
<1>2. d * x \in Int /\ d * u \in Int /\ d * y \in Int
  BY <1>1
<1>3. a = d * x + (a % d) /\ a % d \in 0..d - 1
  BY Division
<1>4. n = d * y + (n % d) /\ n % d \in 0..d - 1
  BY Division
<1>5. t = d * u + (t % d)
  BY Division
<1> HIDE DEF x, y, u
<1>6. d * x <= a /\ t = d * u /\ n < d * y + d
  BY <1>2, <1>3, <1>4, <1>5
<1>7. x < u
  <2>1. ~(u < x)
    BY <1>1, <1>2, <1>6, Multiples
  <2>2. u # x
    BY <1>1, <1>2, <1>6
  <2> QED
    BY <2>1, <2>2, <1>1
<1>8. u <= y
  <2> SUFFICES ASSUME y < u PROVE FALSE
    BY <1>1
  <2> QED
    BY <1>1, <1>2, <1>6, Multiples
<1> QED
  BY <1>1, <1>7, <1>8 DEF x, y
-----------------------------------------------------------------------------
(* The scheduler's types *)

PlanRows == [Plans -> [status : {"ready", "suspended", "running", "deleted"}, at : 1..MaxTime]]
PlanRunRows == [Runs -> [status : {"none", "preparing", "running", "ended"},
                         trigger : {"none", "manual", "fixed", "cron"},
                         started : 0..MaxTime, occasion : 0..MaxTime]]
ScanStates == [Scans -> [pc : {"idle", "launch", "send"}, now : 0..MaxTime,
                         due : SUBSET [plan : Plans, occasion : 0..MaxTime, checked : BOOLEAN]]]

LEMMA OccasionTyped ==
    ASSUME now \in 0..MaxTime, plan \in PlanRows, NEW p \in Plans
    PROVE  Occasion(p) \in 0..MaxTime
<1>0. now \in Nat /\ Period \in Nat \ {0} /\ MaxTime \in Nat /\ now <= MaxTime
  BY SchedulerAssumption
<1>1. now \div Period \in 0..MaxTime
  <2>1. now \div Period \in Nat /\ now \div Period <= now
    BY <1>0, Division, QuotientBounded
  <2> QED
    BY <1>0, <2>1
<1>2. plan[p].at \in 0..MaxTime
  BY SchedulerAssumption DEF PlanRows
<1> QED
  BY <1>1, <1>2 DEF Occasion

\* A plan run that gets another status is a plan run, and a plan a plan.
LEMMA PlanRunsChange ==
    ASSUME planRun \in PlanRunRows, NEW k \in Runs,
           NEW st \in {"none", "preparing", "running", "ended"}
    PROVE  [planRun EXCEPT ![k].status = st] \in PlanRunRows
  BY DEF PlanRunRows
LEMMA PlansChange ==
    ASSUME plan \in PlanRows, NEW p \in Plans,
           NEW st \in {"ready", "suspended", "running", "deleted"}
    PROVE  [plan EXCEPT ![p].status = st] \in PlanRows
  BY DEF PlanRows

LEMMA PlanOfRun == ASSUME NEW k \in Runs PROVE k.plan \in Plans /\ k.n \in Nat
  BY SchedulerAssumption DEF Names

LEMMA TypeInit == Init => TypeOK
<1> SUFFICES ASSUME Init PROVE TypeOK
  OBVIOUS
<1>1. 0 \in 0..MaxTime
  BY SchedulerAssumption
<1> QED
  BY <1>1, PoolInitTyped DEF Init, TypeOK, Unstarted

LEMMA TypeKept == TypeOK /\ [Next]_vars => TypeOK'
<1> SUFFICES ASSUME TypeOK, [Next]_vars PROVE TypeOK'
  OBVIOUS
<1>0. /\ PoolTypeOK /\ now \in 0..MaxTime /\ plan \in PlanRows /\ planRun \in PlanRunRows
      /\ scan \in ScanStates /\ 0 \in 0..MaxTime
  BY SchedulerAssumption DEF TypeOK, PlanRows, PlanRunRows, ScanStates
<1> DEFINE New == /\ PoolTypeOK' /\ now' \in 0..MaxTime /\ plan' \in PlanRows
                  /\ planRun' \in PlanRunRows /\ scan' \in ScanStates
                  /\ exec' \in [Runs -> {"none", "created", "queued", "looked", "running", "done"}]
                  /\ overlap' \in BOOLEAN /\ deleting' \subseteq Plans /\ raced' \subseteq Plans
                  /\ editing' \in [Plans -> {"none", "ready", "suspended", "running"}]
<1> SUFFICES New
  BY DEF TypeOK, PlanRows, PlanRunRows, ScanStates
<1>1. UNCHANGED poolVars => PoolTypeOK'
  BY PoolKeepsType, <1>0
<1>2. ASSUME PoolNext, UNCHANGED schedVars PROVE New
  BY <1>0, <1>2, PoolKeepsType DEF schedVars, TypeOK
<1>3. ASSUME NEW k \in Runs, Released(k.plan, k) PROVE plan' \in PlanRows
  BY <1>0, <1>3, PlanOfRun, PlansChange DEF Released
<1>4. ASSUME NEW k \in Runs, NEW trigger \in {"manual", "fixed", "cron"},
             NEW time \in 0..MaxTime, NEW occasion \in 0..MaxTime,
             Create(k, trigger, time, occasion)
      PROVE  planRun' \in PlanRunRows /\ raced' \subseteq Plans
  BY <1>0, <1>4, PlanOfRun DEF Create, PlanRunRows, TypeOK
<1> HIDE DEF New
<1>5. CASE Clock
  <2>1. now' \in 0..MaxTime
    BY <1>0, <1>5, SchedulerAssumption DEF Clock
  <2> QED
    BY <1>0, <1>1, <1>5, <2>1 DEF Clock, New, TypeOK
<1>6. CASE UNCHANGED vars
  BY <1>0, <1>1, <1>6 DEF vars, schedVars, New, TypeOK
<1>7. ASSUME NEW k \in Runs, WorkerLooks(k) PROVE New
  BY <1>0, <1>1, <1>7 DEF WorkerLooks, New, TypeOK
<1>8. ASSUME NEW k \in Runs, WorkerBegins(k) PROVE New
  <2>1. plan' \in PlanRows /\ planRun' \in PlanRunRows
    BY <1>0, <1>8, PlanOfRun, PlansChange, PlanRunsChange DEF WorkerBegins
  <2> QED
    BY <1>0, <1>1, <1>8, <2>1 DEF WorkerBegins, New, TypeOK
<1>9. ASSUME NEW k \in Runs, WorkerLaunches(k) PROVE New
  BY <1>2, <1>9 DEF WorkerLaunches, PoolNext
<1>10. ASSUME NEW k \in Runs, WorkerEnds(k) PROVE New
  <2>1. planRun' \in PlanRunRows
    BY <1>0, <1>10, PlanRunsChange DEF WorkerEnds
  <2> QED
    BY <1>0, <1>1, <1>3, <1>10, <2>1 DEF WorkerEnds, New, TypeOK
<1>11. ASSUME NEW k \in Runs, Stop(k) PROVE New
  <2>1. planRun' \in PlanRunRows
    BY <1>0, <1>11, PlanRunsChange DEF Stop
  <2>2. row' \in Rows
    <3>1. row' = row \/ row' = [row EXCEPT ![k].status = "ended"]
      BY <1>11 DEF Stop
    <3>2. row \in Rows
      BY <1>0 DEF PoolTypeOK, Rows
    <3> QED
      BY <3>1, <3>2, RowsChange
  <2>3. token' \in [Runs -> [Agents -> {"none", "running", "ended"}]]
    BY <1>11, <1>0 DEF Stop, PoolTypeOK
  <2>4. PoolTypeOK'
    BY <1>0, <1>11, <2>2, <2>3 DEF Stop, PoolTypeOK, Rows, registry, discovery
  <2> QED
    BY <1>0, <1>3, <1>11, <2>1, <2>4 DEF Stop, New, TypeOK
<1>12. ASSUME NEW p \in Plans, Execute(p) PROVE New
  <2>1. PICK k \in Runs : Create(k, "manual", now, 0) /\ exec' = [exec EXCEPT ![k] = "queued"]
    BY <1>12 DEF Execute, NextRun, Of
  <2>2. planRun' \in PlanRunRows /\ raced' \subseteq Plans
    BY <1>0, <1>4, <2>1
  <2> QED
    BY <1>0, <1>1, <1>12, <2>1, <2>2 DEF Execute, New, TypeOK
<1>13. ASSUME NEW p \in Plans, EditLoads(p) \/ EditMade(p) PROVE New
  <2>1. CASE EditLoads(p)
    <3>1. plan[p].status \in {"ready", "suspended", "running"}
      BY <1>0, <2>1 DEF EditLoads, PlanRows
    <3>2. editing' \in [Plans -> {"none", "ready", "suspended", "running"}] /\ raced' \subseteq Plans
      BY <2>1, <3>1 DEF EditLoads, TypeOK
    <3> QED
      BY <1>0, <1>1, <2>1, <3>2 DEF EditLoads, New, TypeOK
  <2>2. CASE EditMade(p)
    <3>1. plan' \in PlanRows
      BY <1>0, <2>2 DEF EditMade, PlanRows
    <3>2. editing' \in [Plans -> {"none", "ready", "suspended", "running"}]
      BY <2>2 DEF EditMade, TypeOK
    <3> QED
      BY <1>0, <1>1, <2>2, <3>1, <3>2 DEF EditMade, New, TypeOK
  <2> QED
    BY <1>13, <2>1, <2>2
<1>14. ASSUME NEW p \in Plans, DeleteAllowed(p) PROVE New
  BY <1>0, <1>1, <1>14 DEF DeleteAllowed, New, TypeOK
<1>15. ASSUME NEW p \in Plans, DeleteMade(p) PROVE New
  <2>1. plan' \in PlanRows
    BY <1>0, <1>15, PlansChange DEF DeleteMade
  <2> QED
    BY <1>0, <1>1, <1>15, <2>1 DEF DeleteMade, New, TypeOK
<1>16. ASSUME NEW s \in Scans, ScanCollects(s) PROVE New
  <2>1. PICK S \in SUBSET Plans, unchecked \in SUBSET Plans :
           /\ raced' = raced \cup (deleting \cap S)
           /\ scan' = [scan EXCEPT ![s] = [pc |-> "launch", now |-> now,
                         due |-> {[plan |-> p, occasion |-> Occasion(p),
                                   checked |-> p \notin unchecked] : p \in S}]]
    BY <1>16 DEF ScanCollects
  <2>2. {[plan |-> p, occasion |-> Occasion(p), checked |-> p \notin unchecked] : p \in S}
          \in SUBSET [plan : Plans, occasion : 0..MaxTime, checked : BOOLEAN]
    <3>1. \A p \in S : p \in Plans /\ Occasion(p) \in 0..MaxTime /\ (p \notin unchecked) \in BOOLEAN
      BY <1>0, OccasionTyped
    <3>2. \A p \in S : [plan |-> p, occasion |-> Occasion(p), checked |-> p \notin unchecked]
                         \in [plan : Plans, occasion : 0..MaxTime, checked : BOOLEAN]
      BY <3>1, Zenon
    <3> QED
      BY <3>2
  <2>3. scan' \in ScanStates
    BY <1>0, <2>1, <2>2 DEF ScanStates
  <2> QED
    BY <1>0, <1>1, <1>16, <2>1, <2>3 DEF ScanCollects, New, TypeOK
<1>17. ASSUME NEW s \in Scans, ScanCreates(s) PROVE New
  <2>1. PICK d \in scan[s].due, k \in Runs :
           /\ Create(k, Exec[d.plan], scan[s].now, d.occasion)
           /\ exec' = [exec EXCEPT ![k] = "created"]
           /\ k \in NextRun(d.plan)
    BY <1>17 DEF ScanCreates, First, NextRun, Of
  <2>2. d.occasion \in 0..MaxTime /\ d.plan \in Plans /\ scan[s].now \in 0..MaxTime
    BY <1>0 DEF ScanStates
  <2>3. Exec[d.plan] \in {"manual", "fixed", "cron"}
    BY <2>2, SchedulerAssumption
  <2>4. planRun' \in PlanRunRows /\ raced' \subseteq Plans
    BY <1>4, <2>1, <2>2, <2>3
  <2>5. scan' \in ScanStates
    BY <1>0, <1>17 DEF ScanCreates, ScanStates
  <2> QED
    BY <1>0, <1>1, <1>17, <2>1, <2>4, <2>5 DEF ScanCreates, New, TypeOK
<1>18. ASSUME NEW s \in Scans, ScanSends(s) PROVE New
  <2>1. PICK d \in scan[s].due, k \in Runs :
          \/ /\ exec' = [exec EXCEPT ![k] = "queued"]
             /\ scan' = [scan EXCEPT ![s].due = @ \ {d},
                             ![s].pc = IF scan[s].due = {d} THEN "idle" ELSE "launch"]
          \/ /\ exec' = [exec EXCEPT ![k] = "done"]
             /\ scan' = [scan EXCEPT ![s].due = {}, ![s].pc = "idle"]
    BY <1>18 DEF ScanSends, First, Of
  <2>2. scan' \in ScanStates
    BY <1>0, <2>1 DEF ScanStates
  <2>3. exec' \in [Runs -> {"none", "created", "queued", "looked", "running", "done"}]
    BY <2>1 DEF TypeOK
  <2> QED
    BY <1>0, <1>1, <1>18, <2>2, <2>3 DEF ScanSends, New, TypeOK
<1>19. ASSUME Weather \/ \E k \in Runs : Life(k), UNCHANGED schedVars PROVE New
  BY <1>2, <1>19 DEF PoolNext
<1> QED
  BY <1>5, <1>6, <1>7, <1>8, <1>9, <1>10, <1>11, <1>12, <1>13, <1>14, <1>15, <1>16, <1>17,
     <1>18, <1>19 DEF Next, Worker, Scan

\* The types of the pool and of the scheduler, the times up to the bound of the clock and
\* the scans' work among them: every later proof rests on it.
THEOREM SchedulerTypeCorrect == Spec => []TypeOK
  BY TypeInit, TypeKept, PTL DEF Spec
-----------------------------------------------------------------------------
(* The cache of the last discovery *)

\* No agent in the cache has been silent for longer than the cache is old: the age of the
\* cache is not renewed when it is used.
CacheIsRecent == \A a \in cache : silent[a] <= age + 1

LEMMA CacheKept == PoolTypeOK /\ CacheIsRecent /\ [PoolNext]_poolVars => CacheIsRecent'
<1> SUFFICES ASSUME PoolTypeOK, CacheIsRecent, [PoolNext]_poolVars PROVE CacheIsRecent'
  OBVIOUS
<1> USE DEF registry, discovery, runs
<1>0. /\ silent \in [Agents -> 0..Old + 1] /\ age \in 0..Old /\ cache \subseteq Agents
      /\ Old \in Nat /\ Old = Grace + 1 /\ Grace \in Nat
  BY OldTyped, PoolAssumption DEF PoolTypeOK
<1>1. ASSUME UNCHANGED <<silent, cache, age>> PROVE CacheIsRecent'
  BY <1>1 DEF CacheIsRecent
<1>2. ASSUME Discover, UNCHANGED silent PROVE CacheIsRecent'
  <2> SUFFICES ASSUME cache' = Discovered, age' = IF Healthy # {} THEN 0 ELSE age
               PROVE  CacheIsRecent'
    BY <1>1, <1>2 DEF Discover
  <2>1. CASE Healthy # {}
    <3>1. cache' = Healthy /\ age' = 0
      BY <2>1 DEF Discovered
    <3>2. \A a \in Healthy : silent[a] = 0
      BY DEF Healthy, Answering
    <3> QED
      BY <1>2, <3>1, <3>2 DEF CacheIsRecent
  <2>2. CASE Healthy = {}
    <3>1. cache' \subseteq cache /\ age' = age
      BY <2>2 DEF Discovered
    <3> QED
      BY <1>2, <3>1 DEF CacheIsRecent
  <2> QED
    BY <2>1, <2>2
<1>3. CASE Weather
  <2>1. ASSUME NEW a \in Agents, FallSilent(a) \/ Return(a) PROVE CacheIsRecent'
    <3>1. \A b \in Agents : silent'[b] = silent[b] \/ silent'[b] \in {0, 1}
      BY <1>0, <2>1 DEF FallSilent, Return
    <3> QED
      BY <1>0, <2>1, <3>1 DEF FallSilent, Return, CacheIsRecent
  <2>2. CASE RegistryFollows
    BY <2>2, <1>1 DEF RegistryFollows
  <2>3. CASE Tick
    <3>1. cache' = cache /\ age' = IF age < Old THEN age + 1 ELSE age
      BY <2>3 DEF Tick
    <3>2. \A a \in Agents : silent'[a] = IF silent[a] \in 1..Old THEN silent[a] + 1 ELSE silent[a]
      BY <2>3 DEF Tick
    <3>3. ASSUME NEW a \in cache PROVE silent'[a] <= age' + 1
      <4>1. silent[a] \in 0..Old + 1 /\ silent[a] <= age + 1
        BY <1>0 DEF CacheIsRecent
      <4> QED
        BY <1>0, <3>1, <3>2, <4>1
    <3> QED
      BY <3>1, <3>3 DEF CacheIsRecent
  <2>4. CASE DiscoverInVain
    BY <2>4, <1>2 DEF DiscoverInVain
  <2> QED
    BY <1>3, <2>1, <2>2, <2>3, <2>4 DEF Weather
<1>4. ASSUME NEW r \in Runs, Validate(r) \/ Insert(r) \/ Dispatch(r) \/ Life(r)
      PROVE  CacheIsRecent'
  BY <1>4, <1>1 DEF Validate, Insert, Dispatch, Life, RowEnds, RowAges, LoadEnds
<1>5. ASSUME NEW r \in Runs, Select(r) PROVE CacheIsRecent'
  BY <1>5, <1>2 DEF Select
<1>6. CASE UNCHANGED poolVars
  BY <1>6, <1>1 DEF poolVars
<1> QED
  BY <1>3, <1>4, <1>5, <1>6 DEF PoolNext, Launch

\* What a step of the scheduler does to the pool is a step of the pool's, but for a stop.
LEMMA PoolStep ==
    ASSUME [Next]_vars
    PROVE  [PoolNext]_poolVars \/ (\E k \in Runs : Stop(k))
<1>1. ASSUME NEW k \in Runs, Worker(k) PROVE [PoolNext]_poolVars
  BY <1>1 DEF Worker, WorkerLooks, WorkerBegins, WorkerLaunches, WorkerEnds, PoolNext
<1>2. ASSUME NEW p \in Plans, \/ Execute(p) \/ EditLoads(p) \/ EditMade(p)
                               \/ DeleteAllowed(p) \/ DeleteMade(p)
      PROVE  UNCHANGED poolVars
  BY <1>2 DEF Execute, EditLoads, EditMade, DeleteAllowed, DeleteMade
<1>3. ASSUME NEW s \in Scans, Scan(s) PROVE UNCHANGED poolVars
  BY <1>3 DEF Scan, ScanCollects, ScanCreates, ScanSends
<1>4. CASE Clock \/ UNCHANGED vars
  BY <1>4 DEF Clock, vars
<1> QED
  BY <1>1, <1>2, <1>3, <1>4 DEF Next, PoolNext

\* A run that is being dispatched goes to agents that answered a probe within the grace, if
\* the discovery has not broken off.
LEMMA SelectionIsRecent ==
    ASSUME PoolTypeOK, CacheIsRecent, [PoolNext]_poolVars, NEW r \in Runs,
           step[r] = "created", step'[r] = "dispatch"
    PROVE  \A a \in chosen'[r] : silent[a] - 1 <= Grace \/ (age > Grace /\ UNCHANGED discovery)
<1> USE DEF registry, discovery, runs
<1>0. /\ silent \in [Agents -> 0..Old + 1] /\ age \in 0..Old /\ cache \subseteq Agents
      /\ Grace \in Nat /\ step \in [Runs -> {"idle", "refused", "checked", "created", "dispatch", "launched"}]
      /\ chosen \in [Runs -> SUBSET Agents]
  BY PoolAssumption DEF PoolTypeOK
<1>1. Select(r)
  <2>1. UNCHANGED poolVars \/ Weather \/ (\E q \in Runs : Life(q)) => UNCHANGED step
    BY DEF poolVars, Weather, FallSilent, Return, RegistryFollows, Tick, DiscoverInVain,
           Life, RowEnds, RowAges, LoadEnds
  <2>2. ASSUME NEW q \in Runs, Validate(q) \/ Insert(q) \/ Dispatch(q) PROVE FALSE
    <3>1. step' = [step EXCEPT ![q] = step'[q]]
          /\ step'[q] \in {"refused", "checked", "created", "launched"}
      BY <1>0, <2>2 DEF Validate, Insert, Dispatch, Launched
    <3> QED
      BY <1>0, <3>1
  <2>3. ASSUME NEW q \in Runs, Select(q), q # r PROVE FALSE
    <3>1. step' = [step EXCEPT ![q] = step'[q]]
      BY <1>0, <2>3 DEF Select, Launched
    <3> QED
      BY <1>0, <2>3, <3>1
  <2> QED
    BY <2>1, <2>2, <2>3 DEF PoolNext, Launch
<1>2. chosen'[r] \subseteq cache' /\ Discover
  <2>1. \E S \in Selections(r, cache') : chosen' = [chosen EXCEPT ![r] = S]
    BY <1>0, <1>1 DEF Select, Launched
  <2> QED
    BY <1>0, <1>1, <2>1 DEF Selections, Select
<1>3. \A a \in Discovered : a \in Agents /\ silent[a] - 1 <= Grace
  <2>1. CASE Healthy # {}
    BY <1>0, <2>1, DiscoveredAreAgents DEF Discovered, Healthy, Answering
  <2>2. CASE Healthy = {}
    <3>1. \A a \in Discovered : a \in cache /\ age <= Grace
      BY <2>2 DEF Discovered
    <3>2. \A a \in cache : a \in Agents /\ silent[a] \in Int /\ silent[a] <= age + 1
      BY <1>0 DEF CacheIsRecent
    <3> QED
      BY <1>0, <3>1, <3>2
  <2> QED
    BY <2>1, <2>2
<1>4. CASE cache' = Discovered
  BY <1>2, <1>3, <1>4
\* A discovery that breaks off is of no account while the cache is young.
<1>5. CASE UNCHANGED discovery
  <2>1. CASE age > Grace
    BY <1>5, <2>1
  <2>2. CASE ~(age > Grace)
    <3>1. \A a \in cache : silent[a] \in Int /\ silent[a] <= age + 1
      BY <1>0 DEF CacheIsRecent
    <3> QED
      BY <1>0, <1>2, <1>5, <2>2, <3>1
  <2> QED
    BY <2>1, <2>2
<1> QED
  BY <1>2, <1>4, <1>5 DEF Discover

\* Neither a scheduled run nor any other is handed to an agent that has been silent for
\* longer than the grace, however often the cache has been used instead of a discovery, unless
\* this discovery broke off over a cache older than that.
THEOREM SelectionRecent == Spec => SelectedRecently
<1>1. Init => CacheIsRecent
  BY DEF Init, PoolInit, CacheIsRecent
<1>2. TypeOK /\ CacheIsRecent /\ [Next]_vars => CacheIsRecent'
  <2> SUFFICES ASSUME TypeOK, CacheIsRecent, [Next]_vars PROVE CacheIsRecent'
    OBVIOUS
  <2>1. CASE [PoolNext]_poolVars
    BY <2>1, CacheKept DEF TypeOK
  <2>2. ASSUME NEW k \in Runs, Stop(k) PROVE CacheIsRecent'
    BY <2>2 DEF Stop, registry, discovery, CacheIsRecent
  <2> QED
    BY <2>1, <2>2, PoolStep
<1>3. ASSUME TypeOK, CacheIsRecent, [Next]_vars
      PROVE  [\A r \in Runs : step[r] = "created" /\ step'[r] = "dispatch" =>
                 \A a \in chosen'[r] : silent[a] - 1 <= Grace
                                      \/ (age > Grace /\ UNCHANGED discovery)]_poolVars
  <2>1. CASE [PoolNext]_poolVars
    BY <1>3, <2>1, SelectionIsRecent DEF TypeOK
  <2>2. ASSUME NEW k \in Runs, Stop(k) PROVE UNCHANGED step
    BY <2>2 DEF Stop
  <2> QED
    BY <1>3, <2>1, <2>2, PoolStep
<1> QED
  BY <1>1, <1>2, <1>3, SchedulerTypeCorrect, PTL DEF Spec, SelectedRecently
-----------------------------------------------------------------------------
(* Deleted plans *)

\* Nothing is at work on a plan that is deleted or about to be: it has no active plan run, no
\* worker has looked at one of its plan runs, no scan has collected it and no edit has loaded it.
LeftAlone ==
    \A p \in Plans : (plan[p].status = "deleted" \/ p \in deleting) /\ p \notin raced =>
        /\ \A k \in Of(p) : ~ActivePlanRun(k) /\ exec[k] # "looked"
        /\ \A s \in Scans : \A d \in scan[s].due : d.plan # p
        /\ editing[p] = "none"

LEMMA LeftAloneInit == Init => LeftAlone
  BY DEF Init, LeftAlone, Of, ActivePlanRun, Unstarted

LEMMA LeftAloneKept == TypeOK /\ LeftAlone /\ [Next]_vars => LeftAlone'
<1> SUFFICES ASSUME TypeOK, LeftAlone, [Next]_vars PROVE LeftAlone'
  OBVIOUS
<1>0. /\ plan \in PlanRows /\ planRun \in PlanRunRows /\ scan \in ScanStates
      /\ exec \in [Runs -> {"none", "created", "queued", "looked", "running", "done"}]
  BY DEF TypeOK, PlanRows, PlanRunRows, ScanStates
<1> USE DEF Of
\* A plan is only watched for what becomes of it: one step makes it deleted, two begin.
<1> DEFINE Watched(p) == (plan[p].status = "deleted" \/ p \in deleting) /\ p \notin raced
           Idles(p) == /\ \A k \in Of(p) : ~ActivePlanRun(k) /\ exec[k] # "looked"
                       /\ \A s \in Scans : \A d \in scan[s].due : d.plan # p
                       /\ editing[p] = "none"
<1>a. \A p \in Plans : Watched(p) => Idles(p)
  BY DEF LeftAlone
<1>b. SUFFICES ASSUME NEW p \in Plans, Watched(p)' PROVE Idles(p)'
  BY DEF LeftAlone
<1>1. ASSUME UNCHANGED <<planRun, exec, scan, editing>>, Watched(p) PROVE Idles(p)'
  BY <1>1, <1>a DEF ActivePlanRun
<1>2. ASSUME UNCHANGED <<plan, deleting, raced>> PROVE Watched(p)
  BY <1>2, <1>b
<1> HIDE DEF Idles
<1>3. CASE Clock \/ UNCHANGED vars \/ UNCHANGED schedVars
  BY <1>3, <1>1, <1>2 DEF Clock, vars, schedVars
<1>4. ASSUME NEW k \in Runs, WorkerLooks(k) PROVE Idles(p)'
  <2>1. Idles(p) /\ UNCHANGED <<planRun, scan, editing>>
    BY <1>2, <1>4, <1>a DEF WorkerLooks
  <2>2. \A j \in Of(p) : exec'[j] # "looked"
    BY <1>0, <1>4, <2>1 DEF WorkerLooks, Idles
  <2> QED
    BY <2>1, <2>2 DEF Idles, ActivePlanRun
<1>5. ASSUME NEW k \in Runs, WorkerBegins(k) PROVE Idles(p)'
  <2>1. UNCHANGED <<scan, editing, deleting, raced>> /\ exec[k] = "looked"
    BY <1>5 DEF WorkerBegins
  <2>2. CASE k.plan = p
    <3>1. plan'[p].status = "running"
      BY <1>0, <1>5, <2>2 DEF WorkerBegins, PlanRows
    <3>2. p \in deleting /\ p \notin raced
      BY <1>b, <2>1, <3>1
    <3> QED
      BY <1>a, <2>1, <2>2, <3>2 DEF Idles
  <2>3. CASE k.plan # p
    <3>1. plan'[p] = plan[p]
      BY <1>0, <1>5, <2>3 DEF WorkerBegins, PlanRows
    <3>2. Idles(p)
      BY <1>a, <1>b, <2>1, <3>1
    <3>3. \A j \in Of(p) : exec'[j] = exec[j] /\ planRun'[j] = planRun[j]
      BY <1>0, <1>5, <2>3 DEF WorkerBegins, PlanRunRows
    <3> QED
      BY <2>1, <3>2, <3>3 DEF Idles, ActivePlanRun
  <2> QED
    BY <2>2, <2>3
<1>6. ASSUME NEW k \in Runs, Released(k.plan, k) PROVE plan'[p].status = "deleted" => plan[p].status = "deleted"
  BY <1>0, <1>6, PlanOfRun DEF Released, PlanRows
<1>7. ASSUME NEW k \in Runs, WorkerEnds(k) \/ Stop(k) PROVE Idles(p)'
  <2>1. Idles(p)
    BY <1>6, <1>7, <1>a, <1>b DEF WorkerEnds, Stop
  <2>2. planRun' = [planRun EXCEPT ![k].status = "ended"] /\ UNCHANGED <<scan, editing>>
        /\ (exec' = exec \/ exec' = [exec EXCEPT ![k] = "done"])
    BY <1>7 DEF WorkerEnds, Stop
  <2>3. \A j \in Of(p) : (planRun'[j] = planRun[j] \/ planRun'[j].status = "ended")
                         /\ (exec'[j] = exec[j] \/ exec'[j] = "done")
    BY <1>0, <2>2 DEF PlanRunRows
  <2> QED
    BY <2>1, <2>2, <2>3 DEF Idles, ActivePlanRun
<1>8. ASSUME NEW k \in Runs, NEW trigger, NEW time, NEW occasion,
             Create(k, trigger, time, occasion), UNCHANGED <<plan, editing, deleting>>,
             \E label \in {"created", "queued"} : exec' = [exec EXCEPT ![k] = label],
             \A s \in Scans : scan'[s].due = scan[s].due,
             p = k.plan => ~Watched(p) \/ p \in deleting
      PROVE  Idles(p)'
  <2>1. Watched(p) /\ k.plan # p
    BY <1>8, <1>b DEF Create
  <2>2. \A j \in Of(p) : planRun'[j] = planRun[j] /\ exec'[j] = exec[j]
    BY <1>0, <1>8, <2>1 DEF Create, PlanRunRows
  <2> QED
    BY <1>8, <1>a, <2>1, <2>2 DEF Idles, ActivePlanRun
<1>9. ASSUME NEW q \in Plans, Execute(q) PROVE Idles(p)'
  <2>1. PICK k \in NextRun(q) :
          Create(k, "manual", now, 0) /\ exec' = [exec EXCEPT ![k] = "queued"]
    BY <1>9 DEF Execute
  <2>2. k \in Runs /\ k.plan = q /\ plan[q].status # "deleted" /\ UNCHANGED <<plan, editing, deleting, scan>>
    BY <1>9, <2>1 DEF NextRun, Execute
  <2> QED
    BY <1>8, <2>1, <2>2
<1>10. ASSUME NEW q \in Plans, EditLoads(q) \/ EditMade(q) PROVE Idles(p)'
  <2>0. editing \in [Plans -> {"none", "ready", "suspended", "running"}]
    BY DEF TypeOK
  <2>1. CASE EditLoads(q)
    <3>1. p # q /\ Watched(p)
      BY <1>b, <2>1 DEF EditLoads
    <3>2. UNCHANGED <<planRun, exec, scan>> /\ editing'[p] = editing[p]
      BY <2>0, <2>1, <3>1 DEF EditLoads
    <3> QED
      BY <1>a, <3>1, <3>2 DEF Idles, ActivePlanRun
  <2>2. CASE EditMade(q)
    <3>2. plan'[p].status = "deleted" => plan[p].status = "deleted"
      BY <1>0, <2>2 DEF EditMade, PlanRows
    <3>3. Watched(p) /\ UNCHANGED <<planRun, exec, scan>>
      BY <1>b, <2>2, <3>2 DEF EditMade
    <3>4. editing'[p] = "none"
      BY <1>a, <2>0, <2>2, <3>3 DEF EditMade, Idles
    <3> QED
      BY <1>a, <3>3, <3>4 DEF Idles, ActivePlanRun
  <2> QED
    BY <1>10, <2>1, <2>2
<1>11. ASSUME NEW q \in Plans, DeleteAllowed(q) PROVE Idles(p)'
  <2>1. UNCHANGED <<plan, planRun, exec, scan, editing>> /\ raced \subseteq raced'
        /\ deleting' = deleting \cup {q}
    BY <1>11 DEF DeleteAllowed
  <2>2. CASE p = q
    <3>1. ~Busy(p) /\ \A s \in Scans : \A d \in scan[s].due : d.plan # p
      BY <1>11, <1>b, <2>2 DEF DeleteAllowed
    <3>2. (\A k \in Of(p) : exec[k] # "looked") /\ editing[p] = "none"
      BY <1>11, <1>b, <2>2 DEF DeleteAllowed
    <3> QED
      BY <2>1, <3>1, <3>2 DEF Idles, Busy, ActivePlanRun
  <2>3. CASE p # q
    <3>1. Watched(p)
      BY <1>b, <2>1, <2>3
    <3> QED
      BY <1>1, <2>1, <3>1
  <2> QED
    BY <2>2, <2>3
<1>12. ASSUME NEW q \in Plans, DeleteMade(q) PROVE Idles(p)'
  <2>1. Watched(p) /\ UNCHANGED <<planRun, exec, scan, editing>>
    BY <1>0, <1>b, <1>12 DEF DeleteMade, PlanRows
  <2> QED
    BY <1>1, <2>1
<1>13. ASSUME NEW s \in Scans, ScanCollects(s) PROVE Idles(p)'
  <2>1. PICK S \in SUBSET Plans, unchecked \in SUBSET Plans :
          /\ Collected(S, unchecked) /\ raced' = raced \cup (deleting \cap S)
          /\ scan' = [scan EXCEPT ![s] = [pc |-> "launch", now |-> now,
                        due |-> {[plan |-> q, occasion |-> Occasion(q),
                                  checked |-> q \notin unchecked] : q \in S}]]
    BY <1>13 DEF ScanCollects
  <2>2. Watched(p) /\ UNCHANGED <<plan, planRun, exec, editing, deleting>>
    BY <1>13, <1>b, <2>1 DEF ScanCollects
  <2>3. p \notin S
    BY <1>b, <2>1, <2>2 DEF Collected
  <2>4. \A t \in Scans : scan'[t].due = IF t = s
             THEN {[plan |-> q, occasion |-> Occasion(q), checked |-> q \notin unchecked] : q \in S}
             ELSE scan[t].due
    BY <1>0, <2>1 DEF ScanStates
  <2>5. \A t \in Scans : \A d \in scan'[t].due : d.plan # p
    <3>1. \A t \in Scans : \A d \in scan[t].due : d.plan # p
      BY <1>a, <2>2 DEF Idles
    <3>2. \A d \in {[plan |-> q, occasion |-> Occasion(q), checked |-> q \notin unchecked] : q \in S} :
             d.plan # p
      BY <2>3
    <3> QED
      BY <2>4, <3>1, <3>2
  <2> QED
    BY <1>a, <2>2, <2>5 DEF Idles, ActivePlanRun
<1>14. ASSUME NEW s \in Scans, ScanCreates(s) PROVE Idles(p)'
  <2>1. PICK d \in scan[s].due, k \in Runs :
           /\ k \in NextRun(d.plan)
           /\ Create(k, Exec[d.plan], scan[s].now, d.occasion)
           /\ exec' = [exec EXCEPT ![k] = "created"]
    BY <1>14 DEF ScanCreates, First, NextRun
  <2>2. k \in Runs /\ k.plan = d.plan /\ UNCHANGED <<plan, editing, deleting>>
        /\ scan' = [scan EXCEPT ![s].pc = "send"]
    BY <1>14, <2>1 DEF NextRun, ScanCreates
  <2>3. \A t \in Scans : scan'[t].due = scan[t].due
    BY <1>0, <2>2 DEF ScanStates
  <2>4. p = k.plan => ~Watched(p)
    BY <1>a, <2>1, <2>2 DEF Idles
  <2> QED
    BY <1>8, <2>1, <2>2, <2>3, <2>4
<1>15. ASSUME NEW s \in Scans, ScanSends(s) PROVE Idles(p)'
  <2>1. PICK d \in scan[s].due, k \in Runs :
          \/ /\ exec' = [exec EXCEPT ![k] = "queued"]
             /\ scan' = [scan EXCEPT ![s].due = @ \ {d},
                             ![s].pc = IF scan[s].due = {d} THEN "idle" ELSE "launch"]
          \/ /\ exec' = [exec EXCEPT ![k] = "done"]
             /\ scan' = [scan EXCEPT ![s].due = {}, ![s].pc = "idle"]
    BY <1>15 DEF ScanSends, First
  <2>2. Watched(p) /\ UNCHANGED <<planRun, editing>>
    BY <1>15, <1>2 DEF ScanSends
  <2>3. \A t \in Scans : scan'[t].due \subseteq scan[t].due
    BY <1>0, <2>1 DEF ScanStates
  <2>4. \A j \in Of(p) : exec'[j] = exec[j] \/ exec'[j] \in {"queued", "done"}
    BY <1>0, <2>1
  <2> QED
    BY <1>a, <2>2, <2>3, <2>4 DEF Idles, ActivePlanRun
<1>16. ASSUME NEW k \in Runs, WorkerLaunches(k) PROVE Idles(p)'
  BY <1>3, <1>16 DEF WorkerLaunches
<1> QED
  BY <1>3, <1>4, <1>5, <1>7, <1>9, <1>10, <1>11, <1>12, <1>13, <1>14, <1>15, <1>16
     DEF Next, Worker, Scan

\* A deleted plan stays deleted, whatever users, scans and workers do, unless a scan, a worker
\* or an edit was at the plan while its deletion was under way.
THEOREM DeletionStays == Spec => DeletedStaysDeleted
<1>1. ASSUME TypeOK, LeftAlone, [Next]_vars
      PROVE  [\A p \in Plans : plan[p].status = "deleted" /\ p \notin raced'
                  => plan'[p].status = "deleted"]_vars
  <2>0. plan \in PlanRows
    BY <1>1 DEF TypeOK, PlanRows
  <2>1. SUFFICES ASSUME Next, NEW p \in Plans, plan[p].status = "deleted", p \notin raced'
                 PROVE  plan'[p].status = "deleted"
    BY <1>1
  <2>2. ASSUME UNCHANGED plan PROVE plan'[p].status = "deleted"
    BY <2>1, <2>2
  <2>3. ASSUME NEW k \in Runs, WorkerBegins(k) PROVE plan'[p].status = "deleted"
    <3>1. k.plan # p
      BY <1>1, <2>1, <2>3 DEF WorkerBegins, LeftAlone, Of
    <3> QED
      BY <2>0, <2>1, <2>3, <3>1 DEF WorkerBegins, PlanRows
  <2>4. ASSUME NEW k \in Runs, Released(k.plan, k) PROVE plan'[p].status = "deleted"
    BY <2>0, <2>1, <2>4 DEF Released, PlanRows
  <2>5. ASSUME NEW q \in Plans, EditLoads(q) \/ EditMade(q) \/ DeleteMade(q)
        PROVE  plan'[p].status = "deleted"
    <3>1. CASE EditMade(q)
      <4>1. q # p
        BY <1>1, <2>1, <3>1 DEF EditMade, LeftAlone
      <4> QED
        BY <2>0, <2>1, <3>1, <4>1 DEF EditMade, PlanRows
    <3> QED
      BY <2>0, <2>1, <2>5, <3>1 DEF EditLoads, DeleteMade, PlanRows
  <2>6. ASSUME NEW k \in Runs, Worker(k) \/ Stop(k) PROVE plan'[p].status = "deleted"
    BY <2>2, <2>3, <2>4, <2>6
       DEF Worker, WorkerLooks, WorkerLaunches, WorkerEnds, Stop, schedVars
  <2>7. ASSUME NEW q \in Plans, Execute(q) \/ DeleteAllowed(q) PROVE UNCHANGED plan
    BY <2>7 DEF Execute, DeleteAllowed
  <2>8. ASSUME NEW s \in Scans, Scan(s) PROVE UNCHANGED plan
    BY <2>8 DEF Scan, ScanCollects, ScanCreates, ScanSends
  <2>9. CASE Clock \/ UNCHANGED schedVars
    BY <2>2, <2>9 DEF Clock, schedVars
  <2> QED
    BY <2>1, <2>2, <2>5, <2>6, <2>7, <2>8, <2>9 DEF Next
<1> QED
  BY <1>1, LeftAloneInit, LeftAloneKept, SchedulerTypeCorrect, PTL
     DEF Spec, DeletedStaysDeleted
-----------------------------------------------------------------------------
(* One occasion, one start *)

\* The rows of a plan's runs are created in the order of their numbers; before its row a plan
\* run has neither a trigger nor a message.
CreatedInOrder ==
    /\ \A k \in Runs : planRun[k].status = "none" => planRun[k].trigger = "none" /\ exec[k] = "none"
    /\ \A j, k \in Runs : j.plan = k.plan /\ j.n < k.n /\ planRun[k].status # "none"
                            => planRun[j].status # "none"
\* A plan that the scheduler has started has a latest scheduled run.
LatestIsThere == \A p \in Plans : Scheduled(p) # {} => Latest(p) # {}
\* What a scheduled run was due for is told by its time.
OccasionsTold == \A k \in Runs :
    /\ planRun[k].trigger = "fixed" => planRun[k].occasion <= planRun[k].started
    /\ planRun[k].trigger = "cron" => planRun[k].occasion = planRun[k].started \div Period
\* A scan collects a plan once, and only plans that have a schedule.
DueTold == \A s \in Scans : \A d \in scan[s].due :
    /\ scan[s].pc # "idle" /\ Exec[d.plan] # "manual"
    /\ Exec[d.plan] = "fixed" => d.occasion <= scan[s].now
    /\ Exec[d.plan] = "cron" => d.occasion = scan[s].now \div Period
    /\ \A e \in scan[s].due : e.plan = d.plan => e = d

AloneAtWork == \A s, t \in Scans : scan[s].pc # "idle" /\ scan[t].pc # "idle" => s = t
\* Later runs of a plan are started no earlier and for later occasions.
StartsInOrder == \A p \in Plans : Exec[p] # "manual" => \A j, k \in Scheduled(p) : j.n < k.n =>
    planRun[j].occasion < planRun[k].occasion /\ planRun[j].started <= planRun[k].started
\* What a scan has still to launch is later than all that has been started of the plan.
DueIsNew == \A s \in Scans : \A d \in scan[s].due :
    scan[s].pc = "launch" \/ d \notin First(s) => \A k \in Scheduled(d.plan) :
        planRun[k].occasion < d.occasion /\ planRun[k].started <= scan[s].now

Always == CreatedInOrder /\ LatestIsThere /\ OccasionsTold /\ DueTold
Unlapped == ~overlap => AloneAtWork /\ StartsInOrder /\ DueIsNew

LEMMA OnceInit == Init => Always /\ Unlapped
<1> SUFFICES ASSUME Init PROVE Always /\ Unlapped
  OBVIOUS
<1>1. \A p \in Plans : Scheduled(p) = {}
  BY SchedulerAssumption DEF Init, Scheduled, Of, Unstarted
<1>2. (\A s \in Scans : scan[s].due = {} /\ scan[s].pc = "idle")
      /\ (\A k \in Runs : planRun[k] = Unstarted /\ exec[k] = "none")
  BY DEF Init
<1> QED
  BY <1>1, <1>2 DEF Always, CreatedInOrder, LatestIsThere, OccasionsTold, DueTold, Unlapped,
                    AloneAtWork, StartsInOrder, DueIsNew, Unstarted

\* A step that creates no plan run and is not a scan's.
LEMMA OnceFrame ==
    ASSUME Always, Unlapped, UNCHANGED <<scan, overlap>>,
           \A k \in Runs : /\ planRun'[k].trigger = planRun[k].trigger
                           /\ planRun'[k].started = planRun[k].started
                           /\ planRun'[k].occasion = planRun[k].occasion
                           /\ planRun'[k].status = "none" <=> planRun[k].status = "none"
                           /\ planRun[k].status = "none" => exec'[k] = exec[k]
    PROVE  Always' /\ Unlapped'
<1>1. \A p \in Plans : Scheduled(p)' = Scheduled(p)
  BY DEF Scheduled, Of
<1>2. \A s \in Scans : First(s)' = First(s)
  BY DEF First
<1>3. CreatedInOrder'
  BY DEF Always, CreatedInOrder
<1>4. LatestIsThere' /\ OccasionsTold' /\ DueTold'
  BY <1>1 DEF Always, LatestIsThere, Latest, OccasionsTold, DueTold
<1>5. (AloneAtWork => AloneAtWork') /\ (StartsInOrder => StartsInOrder')
  BY <1>1 DEF AloneAtWork, StartsInOrder, Scheduled, Of
<1>6. DueIsNew => DueIsNew'
  <2> SUFFICES ASSUME DueIsNew, NEW s \in Scans, NEW d \in scan'[s].due,
                      scan'[s].pc = "launch" \/ d \notin First(s)',
                      NEW k \in Scheduled(d.plan)'
               PROVE  planRun'[k].occasion < d.occasion /\ planRun'[k].started <= scan'[s].now
    BY DEF DueIsNew
  <2>1. k \in Scheduled(d.plan) /\ k \in Runs
    BY DEF Scheduled, Of
  <2> QED
    BY <1>2, <2>1 DEF DueIsNew
<1> QED
  BY <1>3, <1>4, <1>5, <1>6 DEF Always, Unlapped

\* What a plan's next run is to those that the plan has.
LEMMA NextIsLatest ==
    ASSUME TypeOK, CreatedInOrder, NEW p \in Plans, NEW k \in NextRun(p)
    PROVE  /\ k \in Runs /\ k.plan = p /\ planRun[k].status = "none"
           /\ k \notin Scheduled(p)
           /\ \A j \in Runs : j.plan = p /\ planRun[j].status # "none" => j.n < k.n
           /\ \A j \in Scheduled(p) : j.n < k.n
<1>1. k \in Runs /\ k.plan = p /\ planRun[k].status = "none" /\ planRun[k].trigger = "none"
  BY DEF NextRun, Of, CreatedInOrder
<1>2. Exec[p] \in {"fixed", "cron", "manual"}
  BY SchedulerAssumption
<1>3. ASSUME NEW j \in Runs, j.plan = p, planRun[j].status # "none" PROVE j.n < k.n
  <2>1. j.n \in Nat /\ k.n \in Nat
    BY <1>1, PlanOfRun
  <2>2. ~(k.n < j.n)
    BY <1>1, <1>3 DEF CreatedInOrder
  <2>3. k.n # j.n
    BY <1>1, <1>3, SchedulerAssumption DEF Names
  <2> QED
    BY <2>1, <2>2, <2>3
<1>4. \A j \in Scheduled(p) : j \in Runs /\ j.plan = p /\ planRun[j].status # "none"
  BY <1>2 DEF Scheduled, Of, CreatedInOrder
<1> QED
  BY <1>1, <1>2, <1>3, <1>4 DEF Scheduled

\* The creation of a plan's next run, by a scan or a user.
NextCreated(p, k, trigger, time, occasion) ==
    /\ k \in NextRun(p) /\ Create(k, trigger, time, occasion)
    /\ \E label \in {"created", "queued"} : exec' = [exec EXCEPT ![k] = label]

LEMMA CreateKeepsOrder ==
    ASSUME TypeOK, Always, NEW p \in Plans, NEW k, NEW trigger, NEW time, NEW occasion,
           trigger \in {"fixed", "cron", "manual"},
           NextCreated(p, k, trigger, time, occasion)
    PROVE  /\ CreatedInOrder' /\ LatestIsThere'
           /\ planRun'[k] = [status |-> "preparing", trigger |-> trigger,
                             started |-> time, occasion |-> occasion]
           /\ \A j \in Runs \ {k} : planRun'[j] = planRun[j]
           /\ \A q \in Plans : Scheduled(q)' = IF q = p /\ trigger = Exec[p]
                                 THEN Scheduled(q) \cup {k} ELSE Scheduled(q)
<1>0. planRun \in PlanRunRows /\ exec \in [Runs -> {"none", "created", "queued", "looked", "running", "done"}]
  BY DEF TypeOK, PlanRunRows
<1>a. k \in NextRun(p) /\ Create(k, trigger, time, occasion)
  BY DEF NextCreated
<1>b. PICK label \in {"created", "queued"} : exec' = [exec EXCEPT ![k] = label]
  BY DEF NextCreated
<1>1. /\ k \in Runs /\ k.plan = p /\ planRun[k].status = "none" /\ k \notin Scheduled(p)
      /\ \A j \in Runs : j.plan = p /\ planRun[j].status # "none" => j.n < k.n
      /\ \A j \in Scheduled(p) : j.n < k.n
  BY <1>a, NextIsLatest DEF Always
<1>2. planRun'[k] = [status |-> "preparing", trigger |-> trigger,
                     started |-> time, occasion |-> occasion]
  BY <1>0, <1>1, <1>a, <1>b DEF Create, PlanRunRows
<1>3. \A j \in Runs \ {k} : planRun'[j] = planRun[j] /\ exec'[j] = exec[j]
  BY <1>0, <1>1, <1>a, <1>b DEF Create, PlanRunRows
<1>4. CreatedInOrder'
  <2>1. \A j \in Runs : planRun'[j].status = "none" => planRun'[j].trigger = "none" /\ exec'[j] = "none"
    BY <1>b, <1>2, <1>3 DEF Always, CreatedInOrder
  <2>2. ASSUME NEW i \in Runs, NEW j \in Runs, i.plan = j.plan, i.n < j.n,
               planRun'[j].status # "none"
        PROVE  planRun'[i].status # "none"
    <3>1. CASE j = k
      BY <1>a, <1>1, <1>2, <1>3, <2>2, <3>1 DEF NextRun, Of
    <3>2. CASE j # k
      BY <1>2, <1>3, <2>2, <3>2 DEF Always, CreatedInOrder
    <3> QED
      BY <3>1, <3>2
  <2> QED
    BY <2>1, <2>2 DEF CreatedInOrder
<1>5. \A q \in Plans : Scheduled(q)' = IF q = p /\ trigger = Exec[p]
                         THEN Scheduled(q) \cup {k} ELSE Scheduled(q)
  BY <1>1, <1>2, <1>3 DEF Scheduled, Of
<1>6. ASSUME NEW q \in Plans, Scheduled(q)' # {} PROVE Latest(q)' # {}
  <2>1. CASE q = p /\ trigger = Exec[p]
    <3>1. Scheduled(q)' = Scheduled(q) \cup {k} /\ k.n \in Nat
      BY <1>1, <1>5, <2>1, PlanOfRun
    <3>2. \A j \in Scheduled(q) : j.n \in Nat /\ j.n < k.n
      BY <1>1, <2>1, PlanOfRun DEF Scheduled, Of
    <3>3. k \in Latest(q)'
      BY <1>1, <3>1, <3>2 DEF Latest
    <3> QED
      BY <3>3
  <2>2. CASE ~(q = p /\ trigger = Exec[p])
    <3>1. Scheduled(q)' = Scheduled(q)
      BY <1>5, <2>2
    <3> QED
      BY <1>6, <3>1 DEF Latest, Always, LatestIsThere
  <2> QED
    BY <2>1, <2>2
<1> QED
  BY <1>1, <1>2, <1>3, <1>4, <1>5, <1>6 DEF LatestIsThere

\* A plan that is due is due for an occasion later than all that it was started for.
LEMMA DueForMore ==
    ASSUME TypeOK, LatestIsThere, OccasionsTold, StartsInOrder,
           NEW p \in Plans, Due(p)
    PROVE  /\ Exec[p] \in {"fixed", "cron"}
           /\ Exec[p] = "fixed" => Occasion(p) <= now
           /\ Exec[p] = "cron" => Occasion(p) = now \div Period
           /\ \A k \in Scheduled(p) : planRun[k].occasion < Occasion(p) /\ planRun[k].started <= now
<1>0. /\ plan \in PlanRows /\ planRun \in PlanRunRows /\ now \in Nat /\ Period \in Nat \ {0}
      /\ MaxTime \in Nat
  BY SchedulerAssumption DEF TypeOK, PlanRows, PlanRunRows
<1>1. ASSUME NEW k \in Scheduled(p), Exec[p] # "manual"
      PROVE  \E j \in Latest(p) : planRun[k].started <= planRun[j].started
  <2>1. PICK j \in Latest(p) : TRUE
    BY <1>1 DEF LatestIsThere
  <2>2. j \in Scheduled(p) /\ k.n <= j.n /\ k \in Runs /\ j \in Runs /\ k.plan = p /\ j.plan = p
    BY <1>1, <2>1 DEF Latest, Scheduled, Of
  <2>3. CASE k.n < j.n
    BY <1>1, <2>1, <2>2, <2>3 DEF StartsInOrder
  <2>4. CASE k.n = j.n
    <3>1. k = j
      BY <2>2, <2>4, SchedulerAssumption DEF Names
    <3>2. planRun[k].started \in Nat
      BY <1>0, <2>2 DEF PlanRunRows
    <3> QED
      BY <2>1, <3>1, <3>2
  <2> QED
    BY <2>2, <2>3, <2>4, PlanOfRun
<1>2. \A k \in Scheduled(p) : k \in Runs /\ planRun[k].trigger = Exec[p]
  BY DEF Scheduled, Of
<1>3. \A k \in Runs : planRun[k].started \in Nat /\ planRun[k].occasion \in Nat
  BY <1>0 DEF PlanRunRows
<1>4. CASE Exec[p] = "fixed"
  <2>1. plan[p].at \in Nat /\ plan[p].at <= now /\ Occasion(p) = plan[p].at /\ ~Consumed(p)
    BY <1>0, <1>4 DEF Due, Occasion, PlanRows
  <2>2. ASSUME NEW k \in Scheduled(p)
        PROVE  planRun[k].occasion < plan[p].at /\ planRun[k].started <= now
    <3>1. PICK j \in Latest(p) : planRun[k].started <= planRun[j].started
      BY <1>1, <1>4
    <3>2. planRun[j].started < plan[p].at /\ j \in Runs
      BY <1>2, <1>3, <2>1, <3>1 DEF Consumed, Latest
    <3>3. planRun[k].occasion <= planRun[k].started
      BY <1>2, <1>4 DEF OccasionsTold
    <3> QED
      BY <1>0, <1>2, <1>3, <2>1, <3>1, <3>2, <3>3
  <2> QED
    BY <1>4, <2>1, <2>2
<1>5. CASE Exec[p] = "cron"
  <2>1. PICK t \in 1..now : t % Period = 0 /\ \A k \in Latest(p) : planRun[k].started < t
    BY <1>5 DEF Due
  <2>2. ASSUME NEW k \in Scheduled(p)
        PROVE  planRun[k].occasion < now \div Period /\ planRun[k].started <= now
    <3>1. PICK j \in Latest(p) : planRun[k].started <= planRun[j].started
      BY <1>1, <1>5
    <3>2. j \in Runs /\ planRun[j].started < t /\ t \in Nat /\ t <= now
      BY <1>0, <1>2, <2>1, <3>1 DEF Latest
    <3>3. planRun[k].started < t
      BY <1>2, <1>3, <3>1, <3>2
    <3>4. planRun[k].started \div Period < now \div Period
      BY <1>0, <1>2, <1>3, <2>1, <3>2, <3>3, OccasionsApart
    <3>5. planRun[k].occasion = planRun[k].started \div Period
      BY <1>2, <1>5 DEF OccasionsTold
    <3> QED
      BY <1>0, <1>2, <1>3, <3>2, <3>3, <3>4, <3>5
  <2> QED
    BY <1>5, <2>2 DEF Occasion
<1> QED
  BY <1>4, <1>5 DEF Due

LEMMA OnceCollects ==
    ASSUME TypeOK, Always, Unlapped, NEW s \in Scans, ScanCollects(s)
    PROVE  Always' /\ Unlapped'
<1>0. scan \in ScanStates /\ plan \in PlanRows
  BY DEF TypeOK, ScanStates, PlanRows
<1>1. PICK S \in SUBSET Plans, unchecked \in SUBSET Plans :
        /\ Collected(S, unchecked)
        /\ scan' = [scan EXCEPT ![s] = [pc |-> "launch", now |-> now,
                      due |-> {[plan |-> p, occasion |-> Occasion(p),
                                checked |-> p \notin unchecked] : p \in S}]]
  BY DEF ScanCollects
<1> DEFINE Item(p) == [plan |-> p, occasion |-> Occasion(p), checked |-> p \notin unchecked]
<1>2. UNCHANGED <<planRun, exec>> /\ scan[s].pc = "idle"
  BY DEF ScanCollects
<1>3. /\ scan'[s].pc = "launch" /\ scan'[s].now = now
      /\ \A d \in scan'[s].due : \E p \in S : d = Item(p)
      /\ \A t \in Scans \ {s} : scan'[t] = scan[t]
  BY <1>0, <1>1 DEF ScanStates
<1>4. CreatedInOrder' /\ LatestIsThere' /\ OccasionsTold'
  BY <1>2 DEF Always, CreatedInOrder, LatestIsThere, Latest, Scheduled, OccasionsTold
<1>5. \A p \in S : p \in Plans /\ Due(p)
  BY <1>1 DEF Collected
<1>6. DueTold'
  <2>1. ASSUME NEW p \in S
        PROVE  /\ Exec[p] # "manual"
               /\ Exec[p] = "fixed" => Occasion(p) <= now
               /\ Exec[p] = "cron" => Occasion(p) = now \div Period
    BY <1>0, <1>5, SchedulerAssumption DEF Due, Occasion
  <2>2. ASSUME NEW d \in scan'[s].due
        PROVE  /\ Exec[d.plan] # "manual"
               /\ Exec[d.plan] = "fixed" => d.occasion <= now
               /\ Exec[d.plan] = "cron" => d.occasion = now \div Period
               /\ \A e \in scan'[s].due : e.plan = d.plan => e = d
    <3>1. PICK p \in S : d = Item(p)
      BY <1>3, <2>2
    <3>2. \A e \in scan'[s].due : e.plan = p => e = Item(p)
      BY <1>3
    <3> QED
      BY <2>1, <3>1, <3>2
  <2>3. ASSUME NEW t \in Scans \ {s} PROVE scan'[t] = scan[t]
    BY <1>3
  <2> QED
    BY <1>3, <2>2, <2>3 DEF Always, DueTold
<1>7. ASSUME ~overlap' PROVE AloneAtWork' /\ StartsInOrder' /\ DueIsNew'
  <2>1. AloneAtWork /\ StartsInOrder /\ DueIsNew /\ \A t \in Scans : scan[t].pc = "idle"
    BY <1>7 DEF ScanCollects, Unlapped
  <2>2. AloneAtWork' /\ StartsInOrder'
    BY <1>2, <1>3, <2>1 DEF AloneAtWork, StartsInOrder, Scheduled
  <2>3. ASSUME NEW d \in scan'[s].due, NEW k \in Scheduled(d.plan)
        PROVE  planRun[k].occasion < d.occasion /\ planRun[k].started <= now
    <3>1. PICK p \in S : d = Item(p)
      BY <1>3, <2>3
    <3>2. k \in Scheduled(p) /\ d.occasion = Occasion(p)
      BY <2>3, <3>1
    <3> QED
      BY <1>5, <2>1, <3>2, DueForMore DEF Always
  <2>4. \A t \in Scans \ {s} : scan'[t].due = {}
    BY <1>3, <2>1 DEF Always, DueTold
  <2>5. \A p \in Plans : Scheduled(p)' = Scheduled(p)
    BY <1>2 DEF Scheduled
  <2>6. ASSUME NEW d \in scan'[s].due, NEW k \in Scheduled(d.plan)'
        PROVE  planRun'[k].occasion < d.occasion /\ planRun'[k].started <= scan'[s].now
    BY <1>2, <1>3, <2>3, <2>6 DEF Scheduled
  <2> QED
    BY <2>2, <2>4, <2>6 DEF DueIsNew
<1> QED
  BY <1>4, <1>6, <1>7 DEF Always, Unlapped

LEMMA OnceCreates ==
    ASSUME TypeOK, Always, Unlapped, NEW s \in Scans, ScanCreates(s)
    PROVE  Always' /\ Unlapped'
<1>0. /\ scan \in ScanStates /\ planRun \in PlanRunRows /\ Plans \subseteq Nat
  BY SchedulerAssumption DEF TypeOK, ScanStates, PlanRunRows
<1>1. PICK d \in First(s), k \in Runs :
        /\ k \in NextRun(d.plan) /\ Create(k, Exec[d.plan], scan[s].now, d.occasion)
        /\ exec' = [exec EXCEPT ![k] = "created"]
  BY DEF ScanCreates, NextRun, Of
<1>2. scan[s].pc = "launch" /\ scan' = [scan EXCEPT ![s].pc = "send"] /\ UNCHANGED overlap
  BY DEF ScanCreates
<1>3. d \in scan[s].due /\ d.plan \in Plans /\ Exec[d.plan] \in {"fixed", "cron"}
      /\ scan[s].now \in 0..MaxTime /\ d.occasion \in 0..MaxTime
  <2>1. d \in scan[s].due
    BY DEF First
  <2>2. scan[s].now \in 0..MaxTime /\ d \in [plan : Plans, occasion : 0..MaxTime, checked : BOOLEAN]
    BY <1>0, <2>1 DEF ScanStates
  <2>3. Exec[d.plan] # "manual"
    BY <2>1 DEF Always, DueTold
  <2> QED
    BY <2>1, <2>2, <2>3, SchedulerAssumption
<1>4. /\ scan'[s].pc = "send" /\ scan'[s].now = scan[s].now /\ scan'[s].due = scan[s].due
      /\ \A t \in Scans \ {s} : scan'[t] = scan[t]
  BY <1>0, <1>2 DEF ScanStates
<1>5. /\ CreatedInOrder' /\ LatestIsThere'
      /\ planRun'[k] = [status |-> "preparing", trigger |-> Exec[d.plan],
                        started |-> scan[s].now, occasion |-> d.occasion]
      /\ \A j \in Runs \ {k} : planRun'[j] = planRun[j]
      /\ \A q \in Plans : Scheduled(q)' = IF q = d.plan THEN Scheduled(q) \cup {k} ELSE Scheduled(q)
  <2>1. NextCreated(d.plan, k, Exec[d.plan], scan[s].now, d.occasion)
    BY <1>1 DEF NextCreated
  <2> QED
    BY <1>3, <2>1, CreateKeepsOrder
<1>6. /\ k \notin Scheduled(d.plan) /\ k.plan = d.plan /\ k \in Runs
      /\ \A j \in Scheduled(d.plan) : j.n < k.n
  BY <1>1, <1>3, NextIsLatest DEF Always
<1>7. OccasionsTold'
  <2>1. /\ Exec[d.plan] = "fixed" => d.occasion <= scan[s].now
        /\ Exec[d.plan] = "cron" => d.occasion = scan[s].now \div Period
    BY <1>3 DEF Always, DueTold
  <2> QED
    BY <1>5, <2>1 DEF Always, OccasionsTold
<1>8. \A t \in Scans : /\ scan'[t].due = scan[t].due /\ scan'[t].now = scan[t].now
                       /\ scan'[t].pc = "idle" <=> scan[t].pc = "idle"
                       /\ First(t)' = First(t)
  BY <1>2, <1>4 DEF First
<1>9. DueTold'
  BY <1>8 DEF Always, DueTold
<1>10. ASSUME ~overlap' PROVE AloneAtWork' /\ StartsInOrder' /\ DueIsNew'
  <2>1. AloneAtWork /\ StartsInOrder /\ DueIsNew
    BY <1>2, <1>10 DEF Unlapped
  <2>2. AloneAtWork'
    BY <1>8, <2>1 DEF AloneAtWork
  <2>3. \A j \in Scheduled(d.plan) : /\ planRun[j].occasion < d.occasion
                                     /\ planRun[j].started <= scan[s].now
    BY <1>2, <1>3, <2>1 DEF DueIsNew
  <2>4. StartsInOrder'
    <3> SUFFICES ASSUME NEW p \in Plans, Exec[p] # "manual", NEW i \in Scheduled(p)',
                        NEW j \in Scheduled(p)', i.n < j.n
                 PROVE  /\ planRun'[i].occasion < planRun'[j].occasion
                        /\ planRun'[i].started <= planRun'[j].started
      BY DEF StartsInOrder
    <3>1. i \in Runs /\ j \in Runs /\ i.n \in Nat /\ j.n \in Nat
      BY PlanOfRun DEF Scheduled, Of
    <3>2. CASE j = k
      <4>1. p = d.plan
        BY <1>6, <3>2 DEF Scheduled, Of
      <4>2. i \in Scheduled(p) /\ i # k
        BY <1>5, <3>1, <3>2, <4>1
      <4> QED
        BY <1>5, <2>3, <3>1, <3>2, <4>1, <4>2
    <3>3. CASE i = k
      <4>1. p = d.plan
        BY <1>6, <3>3 DEF Scheduled, Of
      <4>2. j \in Scheduled(p)
        BY <1>5, <3>1, <3>3, <4>1
      <4> QED
        BY <1>6, <3>1, <3>3, <4>1, <4>2
    <3>4. CASE i # k /\ j # k
      <4>1. i \in Scheduled(p) /\ j \in Scheduled(p)
        BY <1>5, <3>4
      <4> QED
        BY <1>5, <2>1, <3>1, <3>4, <4>1 DEF StartsInOrder
    <3> QED
      BY <3>2, <3>3, <3>4
  <2>5. DueIsNew'
    <3> SUFFICES ASSUME NEW t \in Scans, NEW e \in scan'[t].due,
                        scan'[t].pc = "launch" \/ e \notin First(t)',
                        NEW j \in Scheduled(e.plan)'
                 PROVE  planRun'[j].occasion < e.occasion /\ planRun'[j].started <= scan'[t].now
      BY DEF DueIsNew
    <3>1. t = s /\ e \in scan[s].due /\ e \notin First(s)
      <4>1. scan[t].pc # "idle" /\ scan[s].pc # "idle"
        BY <1>2, <1>8 DEF Always, DueTold
      <4> QED
        BY <1>4, <1>8, <2>1, <4>1 DEF AloneAtWork
    <3>2. e.plan # d.plan /\ e.plan \in Plans
      BY <1>0, <1>1, <1>3, <3>1 DEF Always, DueTold, ScanStates
    <3>3. j \in Scheduled(e.plan) /\ j # k /\ j \in Runs
      BY <1>5, <1>6, <3>2 DEF Scheduled, Of
    <3> QED
      BY <1>2, <1>4, <1>5, <2>1, <3>1, <3>3 DEF DueIsNew
  <2> QED
    BY <2>2, <2>4, <2>5
<1> QED
  BY <1>5, <1>7, <1>9, <1>10 DEF Always, Unlapped

LEMMA OnceSends ==
    ASSUME TypeOK, Always, Unlapped, NEW s \in Scans, ScanSends(s)
    PROVE  Always' /\ Unlapped'
<1>0. /\ scan \in ScanStates /\ planRun \in PlanRunRows /\ Plans \subseteq Nat
      /\ exec \in [Runs -> {"none", "created", "queued", "looked", "running", "done"}]
  BY SchedulerAssumption DEF TypeOK, ScanStates, PlanRunRows
<1>1. PICK d \in First(s), k \in Runs :
        /\ exec[k] = "created"
        /\ \/ /\ exec' = [exec EXCEPT ![k] = "queued"]
              /\ scan' = [scan EXCEPT ![s].due = @ \ {d},
                            ![s].pc = IF scan[s].due = {d} THEN "idle" ELSE "launch"]
           \/ /\ exec' = [exec EXCEPT ![k] = "done"]
              /\ scan' = [scan EXCEPT ![s].due = {}, ![s].pc = "idle"]
  BY DEF ScanSends, Of
<1>2. scan[s].pc = "send" /\ UNCHANGED <<overlap, planRun>> /\ d \in scan[s].due
  BY DEF ScanSends, First
<1>3. /\ scan'[s].now = scan[s].now /\ scan'[s].due \subseteq scan[s].due \ {d}
      /\ scan'[s].due # {} => scan'[s].pc # "idle"
      /\ \A t \in Scans \ {s} : scan'[t] = scan[t]
  BY <1>0, <1>1, <1>2 DEF ScanStates
<1>4. CreatedInOrder'
  BY <1>0, <1>1, <1>2 DEF Always, CreatedInOrder
<1>5. LatestIsThere' /\ OccasionsTold'
  BY <1>2 DEF Always, LatestIsThere, Latest, Scheduled, OccasionsTold
<1>6. DueTold'
  BY <1>3 DEF Always, DueTold
<1>7. ASSUME ~overlap' PROVE AloneAtWork' /\ StartsInOrder' /\ DueIsNew'
  <2>1. AloneAtWork /\ StartsInOrder /\ DueIsNew
    BY <1>2, <1>7 DEF Unlapped
  <2>2. AloneAtWork' /\ StartsInOrder'
    BY <1>2, <1>3, <2>1 DEF AloneAtWork, StartsInOrder, Scheduled
  <2>3. ASSUME NEW t \in Scans, NEW e \in scan'[t].due, NEW j \in Scheduled(e.plan)'
        PROVE  planRun'[j].occasion < e.occasion /\ planRun'[j].started <= scan'[t].now
    <3>1. t = s /\ e \in scan[s].due \ {d}
      <4>1. CASE t # s
        <5>1. scan[t].pc # "idle"
          BY <1>3, <2>3, <4>1 DEF Always, DueTold
        <5> QED
          BY <1>2, <2>1, <4>1, <5>1 DEF AloneAtWork
      <4> QED
        BY <1>3, <2>3, <4>1
    <3>2. e \notin First(s)
      <4>1. e.plan \in Nat /\ d.plan \in Nat /\ e.plan # d.plan
        <5>1. e.plan \in Nat /\ d.plan \in Nat
          <6>1. scan[s].due \subseteq [plan : Plans, occasion : 0..MaxTime, checked : BOOLEAN]
            BY <1>0 DEF ScanStates
          <6> QED
            BY <1>0, <1>2, <3>1, <6>1
        <5>2. e.plan # d.plan
          BY <1>2, <3>1 DEF Always, DueTold
        <5> QED
          BY <5>1, <5>2
      <4> QED
        BY <1>1, <1>2, <3>1, <4>1 DEF First
    <3>3. j \in Scheduled(e.plan)
      BY <1>2, <2>3 DEF Scheduled
    <3> QED
      BY <1>2, <1>3, <2>1, <3>1, <3>2, <3>3 DEF DueIsNew
  <2> QED
    BY <2>2, <2>3 DEF DueIsNew
<1> QED
  BY <1>4, <1>5, <1>6, <1>7 DEF Always, Unlapped

\* A user's run is none of the scheduler's.
LEMMA OnceExecutes ==
    ASSUME TypeOK, Always, Unlapped, NEW p \in Plans, Execute(p)
    PROVE  Always' /\ Unlapped'
<1>1. PICK k \in NextRun(p) :
        Create(k, "manual", now, 0) /\ exec' = [exec EXCEPT ![k] = "queued"]
  BY DEF Execute
<1>2. UNCHANGED <<scan, overlap>>
  BY DEF Execute
<1>3. /\ CreatedInOrder' /\ LatestIsThere' /\ planRun'[k].trigger = "manual"
      /\ \A j \in Runs \ {k} : planRun'[j] = planRun[j]
      /\ \A q \in Plans : Exec[q] # "manual" => Scheduled(q)' = Scheduled(q)
  <2>1. NextCreated(p, k, "manual", now, 0)
    BY <1>1 DEF NextCreated
  <2> QED
    <3>1. /\ CreatedInOrder' /\ LatestIsThere'
          /\ planRun'[k] = [status |-> "preparing", trigger |-> "manual",
                            started |-> now, occasion |-> 0]
          /\ \A j \in Runs \ {k} : planRun'[j] = planRun[j]
          /\ \A q \in Plans : Scheduled(q)' = IF q = p /\ "manual" = Exec[p]
                                THEN Scheduled(q) \cup {k} ELSE Scheduled(q)
      BY <2>1, CreateKeepsOrder
    <3> QED
      BY <3>1
<1>4. \A q \in Plans : Exec[q] # "manual" =>
        \A j \in Scheduled(q) : j \in Runs \ {k} /\ planRun'[j] = planRun[j]
  BY <1>1, <1>3, NextIsLatest, SchedulerAssumption DEF Always, Scheduled, Of
<1>5. OccasionsTold' /\ DueTold'
  BY <1>2, <1>3 DEF Always, OccasionsTold, DueTold
<1>6. (AloneAtWork => AloneAtWork') /\ (StartsInOrder => StartsInOrder')
  BY <1>2, <1>3, <1>4 DEF AloneAtWork, StartsInOrder
<1>7. DueIsNew => DueIsNew'
  <2> SUFFICES ASSUME DueIsNew, NEW s \in Scans, NEW d \in scan'[s].due,
                      scan'[s].pc = "launch" \/ d \notin First(s)',
                      NEW j \in Scheduled(d.plan)'
               PROVE  planRun'[j].occasion < d.occasion /\ planRun'[j].started <= scan'[s].now
    BY DEF DueIsNew
  <2>1. d \in scan[s].due /\ First(s)' = First(s) /\ scan'[s] = scan[s]
    BY <1>2 DEF First
  <2>2. d.plan \in Plans /\ Exec[d.plan] # "manual"
    BY <2>1 DEF Always, DueTold, TypeOK
  <2>3. j \in Scheduled(d.plan) /\ planRun'[j] = planRun[j]
    BY <1>3, <1>4, <2>2
  <2> QED
    BY <2>1, <2>3 DEF DueIsNew
<1> QED
  BY <1>2, <1>3, <1>5, <1>6, <1>7 DEF Always, Unlapped

LEMMA OnceKept == TypeOK /\ Always /\ Unlapped /\ [Next]_vars => Always' /\ Unlapped'
<1> SUFFICES ASSUME TypeOK, Always, Unlapped, [Next]_vars PROVE Always' /\ Unlapped'
  OBVIOUS
<1>0. /\ planRun \in PlanRunRows
      /\ exec \in [Runs -> {"none", "created", "queued", "looked", "running", "done"}]
  BY DEF TypeOK, PlanRunRows
<1>1. ASSUME UNCHANGED <<scan, overlap, planRun>>,
             \A k \in Runs : planRun[k].status = "none" => exec'[k] = exec[k]
      PROVE  Always' /\ Unlapped'
  BY <1>1, OnceFrame
<1>2. ASSUME NEW k \in Runs, planRun[k].status # "none", UNCHANGED <<scan, overlap>>,
             \E st \in {"running", "ended"} : planRun' = [planRun EXCEPT ![k].status = st],
             exec' = exec \/ (\E label \in {"running", "done"} : exec' = [exec EXCEPT ![k] = label])
      PROVE  Always' /\ Unlapped'
  <2>1. \A j \in Runs : /\ planRun'[j].trigger = planRun[j].trigger
                        /\ planRun'[j].started = planRun[j].started
                        /\ planRun'[j].occasion = planRun[j].occasion
                        /\ planRun'[j].status = "none" <=> planRun[j].status = "none"
                        /\ planRun[j].status = "none" => exec'[j] = exec[j]
    BY <1>0, <1>2 DEF PlanRunRows
  <2> QED
    BY <1>2, <2>1, OnceFrame
<1>3. \A k \in Runs : exec[k] # "none" => planRun[k].status # "none"
  BY DEF Always, CreatedInOrder
<1>4. ASSUME NEW k \in Runs, WorkerLooks(k) PROVE Always' /\ Unlapped'
  <2>1. \A j \in Runs : planRun[j].status = "none" => exec'[j] = exec[j]
    BY <1>0, <1>3, <1>4 DEF WorkerLooks
  <2> QED
    BY <1>1, <1>4, <2>1 DEF WorkerLooks
<1>5. ASSUME NEW k \in Runs, WorkerBegins(k) \/ WorkerEnds(k) \/ Stop(k)
      PROVE  Always' /\ Unlapped'
  <2>1. planRun[k].status # "none"
    BY <1>3, <1>5 DEF WorkerBegins, WorkerEnds, Stop, ActivePlanRun
  <2> QED
    BY <1>2, <1>5, <2>1 DEF WorkerBegins, WorkerEnds, Stop
<1>6. CASE Clock \/ UNCHANGED vars \/ UNCHANGED schedVars
  BY <1>1, <1>6 DEF Clock, vars, schedVars
<1>7. ASSUME NEW k \in Runs, WorkerLaunches(k) PROVE UNCHANGED schedVars
  BY <1>7 DEF WorkerLaunches
<1>8. ASSUME NEW p \in Plans, EditLoads(p) \/ EditMade(p) \/ DeleteAllowed(p) \/ DeleteMade(p)
      PROVE  Always' /\ Unlapped'
  BY <1>1, <1>8 DEF EditLoads, EditMade, DeleteAllowed, DeleteMade
<1> QED
  BY <1>4, <1>5, <1>6, <1>7, <1>8, OnceExecutes, OnceCollects, OnceCreates, OnceSends
     DEF Next, Worker, Scan

\* The scheduler starts a plan once for one occasion, whatever users start, stop, edit and
\* delete in between and whichever messages are refused, while no two scans overlap.
THEOREM OccasionStartsOnce == Spec => []StartedOnce
<1>1. TypeOK /\ Always /\ Unlapped => StartedOnce
  <2> SUFFICES ASSUME TypeOK, StartsInOrder, NEW p \in Plans, Exec[p] # "manual",
                      NEW j \in Scheduled(p), NEW k \in Scheduled(p),
                      planRun[j].occasion = planRun[k].occasion
               PROVE  j = k
    BY DEF StartedOnce, Unlapped
  <2>1. j \in Runs /\ k \in Runs /\ j.plan = p /\ k.plan = p
    BY DEF Scheduled, Of
  <2>2. planRun[j].occasion \in Nat /\ planRun[k].occasion \in Nat
    BY <2>1 DEF TypeOK
  <2>3. j.n = k.n
    <3>1. ~(j.n < k.n) /\ ~(k.n < j.n)
      BY <2>2 DEF StartsInOrder
    <3> QED
      BY <2>1, <3>1, PlanOfRun
  <2> QED
    BY <2>1, <2>3, SchedulerAssumption DEF Names
<1> QED
  BY <1>1, OnceInit, OnceKept, SchedulerTypeCorrect, PTL DEF Spec

-----------------------------------------------------------------------------
(* Agents of their own *)

\* What a run knows of itself at each step of its creation and launch.
Unlaunched(r) ==
    step[r] # "launched" =>
        /\ ~row[r].aged /\ Load(r) = {}
        /\ row[r].status = IF step[r] \in {"created", "dispatch"} THEN "preparing" ELSE "none"
LaunchedOn(r) ==
    /\ step[r] = "launched" =>
          /\ row[r].status \in {"running", "ended"} /\ Load(r) \subseteq chosen[r]
          /\ row[r].status = "running" => chosen[r] # {} /\ \A a \in chosen[r] : token[r][a] # "none"
    /\ step[r] = "dispatch" => chosen[r] # {}
    /\ Cardinality(chosen[r]) <= Pods[r]
RunsKnown == \A r \in Runs : Unlaunched(r) /\ LaunchedOn(r)

\* A run that has been checked, or whose load is on, claims the agents that it asks for.
Claimed(r) == step[r] \in {"checked", "created", "dispatch"} \/ Load(r) # {}
Claims == [r \in Runs |-> IF Claimed(r) THEN Pods[r] ELSE 0]

\* All of this is said of the runs of one environment: what it counts leaves out the others.
OneAtATime ==
    \A q, r \in Runs : Env[q] = Env[r] /\ step[q] = step[r] /\ step[r] \in {"checked", "dispatch"}
                         => q = r
ClaimsFit == \A e \in Envs : SumFunctionOnSet(Claims, RunsIn(e)) <= NumAgents
DispatchIsFree ==
    \A q, r \in Runs : Env[q] = Env[r] /\ step[r] = "dispatch" => chosen[r] \cap Load(q) = {}
OneLoadEach == \A q, r \in Runs : q # r /\ Env[q] = Env[r] => Load(q) \cap Load(r) = {}
Unexcused == excuse = {} => OneAtATime /\ ClaimsFit /\ DispatchIsFree /\ OneLoadEach

LEMMA RunsInTyped == ASSUME NEW e PROVE RunsIn(e) \subseteq Runs /\ IsFiniteSet(RunsIn(e))
<1>1. RunsIn(e) \subseteq Runs
  BY DEF RunsIn
<1> QED
  BY <1>1, FS_Subset, PoolAssumption

LEMMA ClaimsTyped ==
    ASSUME NEW e
    PROVE  /\ IsFiniteSet(RunsIn(e)) /\ Natural(Claims, RunsIn(e)) /\ Counts(Claims, RunsIn(e))
           /\ SumFunctionOnSet(Claims, RunsIn(e)) \in Nat
<1>1. IsFiniteSet(RunsIn(e)) /\ Natural(Claims, RunsIn(e))
  BY RunsInTyped, PoolAssumption DEF Claims, Natural
<1> QED
  BY <1>1, SumNat

\* The two ways of writing a sum.
LEMMA TotalIsSum == \A f : Total(f) = SumFunctionOnSet(f, DOMAIN f)
  BY DEF Total, FoldFunction, SumFunctionOnSet

LEMMA AgentsFinite ==
    /\ IsFiniteSet(Agents) /\ Cardinality(Agents) = NumAgents
    /\ \A S \in SUBSET Agents : IsFiniteSet(S) /\ Cardinality(S) \in Nat /\ Cardinality(S) <= NumAgents
<1>1. NumAgents \in Int /\ 1 \in Int /\ NumAgents >= 0
  BY PoolAssumption
<1>2. IsFiniteSet(Agents) /\ Cardinality(Agents) = NumAgents
  BY <1>1, FS_Interval DEF Agents
<1> QED
  BY <1>2, FS_Subset, FS_CardinalityType

LEMMA PoolInitShared == PoolInit => RunsKnown /\ Unexcused
<1> SUFFICES ASSUME PoolInit PROVE RunsKnown /\ Unexcused
  OBVIOUS
<1>1. \A r \in Runs : Load(r) = {} /\ step[r] = "idle" /\ chosen[r] = {} /\ row[r].status = "none"
                      /\ ~row[r].aged /\ ~Claimed(r)
  BY DEF PoolInit, Load, Claimed
<1>2. RunsKnown
  <2>1. \A r \in Runs : Cardinality(chosen[r]) <= Pods[r]
    <3>1. Cardinality({}) = 0
      BY FS_EmptySet
    <3>2. \A r \in Runs : Cardinality(chosen[r]) = 0
      BY <1>1, <3>1, Zenon
    <3> QED
      BY <3>2, PoolAssumption
  <2> QED
    BY <1>1, <2>1 DEF RunsKnown, Unlaunched, LaunchedOn
<1>3. ClaimsFit
  <2>1. \A r \in Runs : Claims[r] = 0
    BY <1>1 DEF Claims
  <2>2. ASSUME NEW e PROVE SumFunctionOnSet(Claims, RunsIn(e)) = 0
    BY <2>1, ClaimsTyped, RunsInTyped, SumNat
  <2> QED
    BY <2>2, PoolAssumption DEF ClaimsFit
<1> QED
  BY <1>1, <1>2, <1>3 DEF Unexcused, OneAtATime, DispatchIsFree, OneLoadEach

\* Claims that are only given up still fit.
LEMMA FewerClaimsFitIn ==
    ASSUME NEW e, SumFunctionOnSet(Claims, RunsIn(e)) <= NumAgents,
           \A r \in RunsIn(e) : Claimed(r)' => Claimed(r)
    PROVE  SumFunctionOnSet(Claims', RunsIn(e)) <= NumAgents
<1> DEFINE C == Claims
           D == Claims'
           Here == RunsIn(e)
<1>0. IsFiniteSet(Here) /\ Here \subseteq Runs
  BY RunsInTyped
<1>1. D = [r \in Runs |-> IF Claimed(r)' THEN Pods[r] ELSE 0]
  BY DEF Claims
<1>2. \A r \in Here : C[r] \in Nat /\ D[r] \in Nat /\ D[r] <= C[r]
  BY <1>0, <1>1, PoolAssumption DEF Claims
<1>7. SumFunctionOnSet(C, Here) <= NumAgents
  OBVIOUS
<1> HIDE DEF C, D, Here
<1>3. Natural(C, Here) /\ Natural(D, Here)
  BY <1>2 DEF Natural
<1>4. Counts(C, Here) /\ Counts(D, Here)
  BY <1>0, <1>3, SumNat
<1>5. SumFunctionOnSet(C, Here) \in Nat /\ SumFunctionOnSet(D, Here) \in Nat
  BY <1>0, <1>3, SumNat
<1>6. SumFunctionOnSet(D, Here) <= SumFunctionOnSet(C, Here)
  BY <1>0, <1>2, <1>3, <1>4, SumMonotone
<1>8. SumFunctionOnSet(D, Here) <= NumAgents
  BY <1>5, <1>6, <1>7, PoolAssumption
<1> QED
  BY <1>8 DEF D, Here

LEMMA FewerClaimsFit ==
    ASSUME ClaimsFit, \A r \in Runs : Claimed(r)' => Claimed(r)
    PROVE  ClaimsFit'
<1>1. ASSUME NEW e \in Envs PROVE SumFunctionOnSet(Claims', RunsIn(e)) <= NumAgents
  BY <1>1, FewerClaimsFitIn, RunsInTyped DEF ClaimsFit
<1> QED
  BY <1>1 DEF ClaimsFit

\* Loads that end and rows that end or age, whoever ends them.
LEMMA EndingKeeps ==
    ASSUME PoolTypeOK, RunsKnown, Unexcused, UNCHANGED <<step, chosen, excuse>>,
           \A r \in Runs : Load(r)' \subseteq Load(r),
           \A r \in Runs, a \in Agents : token[r][a] # "none" => token'[r][a] # "none",
           \A r \in Runs : \/ row'[r] = row[r]
                           \/ /\ step[r] = "launched" /\ row'[r].status \in {"running", "ended"}
                              /\ row'[r].status = "running" => row[r].status = "running"
    PROVE  RunsKnown' /\ Unexcused'
<1>1. ASSUME NEW r \in Runs PROVE Unlaunched(r)' /\ LaunchedOn(r)'
  <2>1. Unlaunched(r) /\ LaunchedOn(r) /\ chosen[r] \subseteq Agents
    BY DEF RunsKnown, PoolTypeOK
  <2>2. Unlaunched(r)'
    BY <2>1 DEF Unlaunched
  <2>3. LaunchedOn(r)'
    BY <2>1 DEF LaunchedOn
  <2> QED
    BY <2>2, <2>3
<1>2. \A r \in Runs : Claimed(r)' => Claimed(r)
  BY DEF Claimed
<1>3. ASSUME excuse' = {} PROVE ClaimsFit'
  BY <1>2, <1>3, FewerClaimsFit DEF Unexcused
<1>4. ASSUME excuse' = {} PROVE OneAtATime' /\ DispatchIsFree' /\ OneLoadEach'
  BY <1>4 DEF Unexcused, OneAtATime, DispatchIsFree, OneLoadEach
<1> QED
  BY <1>1, <1>3, <1>4 DEF RunsKnown, Unexcused

LEMMA LifeKeepsShares ==
    ASSUME PoolTypeOK, RunsKnown, Unexcused, NEW r \in Runs, Life(r)
    PROVE  RunsKnown' /\ Unexcused'
<1>0. /\ token \in [Runs -> [Agents -> {"none", "running", "ended"}]]
      /\ row \in [Runs -> [status : {"none", "preparing", "running", "ended"}, aged : BOOLEAN]]
      /\ step \in [Runs -> {"idle", "refused", "checked", "created", "dispatch", "launched"}]
  BY DEF PoolTypeOK
<1>1. UNCHANGED <<step, chosen, excuse>>
  BY DEF Life, RowEnds, RowAges, LoadEnds
<1>2. \A q \in Runs : \/ row'[q] = row[q]
                      \/ /\ row[q].status \in {"running", "ended"} /\ row'[q].status \in {"running", "ended"}
                         /\ row'[q].status = "running" => row[q].status = "running"
  BY <1>0 DEF Life, RowEnds, RowAges, LoadEnds
<1>3. \A q \in Runs : row[q].status \in {"running", "ended"} => step[q] = "launched"
  BY <1>0 DEF RunsKnown, Unlaunched
<1>4. \A q \in Runs, a \in Agents : token'[q][a] = token[q][a] \/ token'[q][a] = "ended"
  BY <1>0 DEF Life, RowEnds, RowAges, LoadEnds
<1>5. /\ \A q \in Runs : Load(q)' \subseteq Load(q)
      /\ \A q \in Runs, a \in Agents : token[q][a] # "none" => token'[q][a] # "none"
  BY <1>4 DEF Load
<1> QED
  BY <1>1, <1>2, <1>3, <1>5, EndingKeeps

LEMMA StopKeepsShares ==
    ASSUME PoolTypeOK, RunsKnown, Unexcused, NEW r \in Runs, Stop(r)
    PROVE  RunsKnown' /\ Unexcused'
<1>0. /\ token \in [Runs -> [Agents -> {"none", "running", "ended"}]]
      /\ row \in [Runs -> [status : {"none", "preparing", "running", "ended"}, aged : BOOLEAN]]
      /\ step \in [Runs -> {"idle", "refused", "checked", "created", "dispatch", "launched"}]
  BY DEF PoolTypeOK
<1>1. UNCHANGED <<step, chosen, excuse>>
  BY DEF Stop
<1>2. \A q \in Runs : \/ row'[q] = row[q]
                      \/ row[q].status \in {"running", "ended"} /\ row'[q].status = "ended"
  BY <1>0 DEF Stop
<1>3. \A q \in Runs : row[q].status \in {"running", "ended"} => step[q] = "launched"
  BY <1>0 DEF RunsKnown, Unlaunched
<1>4. \A q \in Runs, a \in Agents : token'[q][a] = token[q][a] \/ token'[q][a] = "ended"
  BY <1>0 DEF Stop
<1>5. /\ \A q \in Runs : Load(q)' \subseteq Load(q)
      /\ \A q \in Runs, a \in Agents : token[q][a] # "none" => token'[q][a] # "none"
  BY <1>4 DEF Load
<1> QED
  BY <1>1, <1>2, <1>3, <1>5, EndingKeeps

\* What the runs of an environment count for, as numbers.
Used(e) == [q \in RunsIn(e) |-> Usage(q)]
LEMMA UsageTyped ==
    ASSUME NEW e
    PROVE  /\ Natural(Used(e), RunsIn(e)) /\ Counts(Used(e), RunsIn(e))
           /\ SumFunctionOnSet(Used(e), RunsIn(e)) \in Nat
           /\ \A q \in Runs : Usage(q) \in {0, Pods[q]} /\ Pods[q] \in Nat \ {0}
           /\ Total([q \in RunsIn(e) |-> Usage(q)]) = SumFunctionOnSet(Used(e), RunsIn(e))
<1>1. \A q \in Runs : Usage(q) \in {0, Pods[q]} /\ Pods[q] \in Nat \ {0}
  BY PoolAssumption DEF Usage
<1>2. Natural(Used(e), RunsIn(e)) /\ IsFiniteSet(RunsIn(e))
  BY <1>1, RunsInTyped DEF Natural, Used
<1>3. DOMAIN Used(e) = RunsIn(e)
  BY DEF Used
<1>4. Total(Used(e)) = SumFunctionOnSet(Used(e), RunsIn(e))
  BY <1>3, TotalIsSum
<1> QED
  BY <1>1, <1>2, <1>4, SumNat DEF Used

\* A load that can be seen counts.
LEMMA SeenCounts ==
    ASSUME RunsKnown, NEW q \in Runs, ~Unseen(Env[q]), Load(q) # {}
    PROVE  Usage(q) = Pods[q] /\ step[q] = "launched" /\ Load(q) \subseteq Named(q)
<1>1. Unlaunched(q) /\ LaunchedOn(q)
  BY DEF RunsKnown
<1>2. step[q] = "launched" /\ Load(q) \subseteq Named(q)
  BY <1>1 DEF Unlaunched, LaunchedOn, Named
<1>3. ~row[q].aged /\ (Active(q) \/ Load(q) \subseteq Answering) /\ (Active(q) \/ row[q].status = "ended")
  BY <1>1, <1>2 DEF Unseen, RunsIn, LaunchedOn, Active
<1>4. CASE Live(q) = "yes"
  BY <1>2, <1>3, <1>4 DEF Usage
<1>5. CASE Live(q) # "yes"
  <2>1. Named(q) \cap Answering \cap Load(q) = {}
    BY <1>5 DEF Live
  <2>2. Active(q)
    BY <1>2, <1>3, <2>1
  <2>3. Live(q) = "unknown"
    BY <1>2, <1>5, <2>1 DEF Live, Load
  <2> QED
    BY <1>2, <1>3, <2>2, <2>3 DEF Usage
<1> QED
  BY <1>4, <1>5

LEMMA WaitingCounts ==
    ASSUME RunsKnown, NEW q \in Runs, step[q] \in {"created", "dispatch"}
    PROVE  Usage(q) = Pods[q]
<1>1. Unlaunched(q) /\ Named(q) = {}
  BY DEF RunsKnown, Named
<1>2. ~row[q].aged /\ Active(q) /\ Live(q) = "unknown"
  BY <1>1 DEF Unlaunched, Active, Live
<1> QED
  BY <1>2 DEF Usage

LEMMA StandbyBounded == ASSUME PoolTypeOK PROVE Standby \in Nat /\ Standby <= NumAgents
  BY AgentsFinite, PoolAssumption DEF Standby, PoolTypeOK

\* A run is checked: what it claims fits beside what is counted, and all that is claimed counts.
LEMMA ValidateFits ==
    ASSUME PoolTypeOK, RunsKnown, ClaimsFit, NEW r \in Runs, Validate(r), excuse' = {}
    PROVE  ClaimsFit'
<1> DEFINE e == Env[r]
           Here == RunsIn(e)
<1>h. r \in Here /\ Here \subseteq Runs /\ IsFiniteSet(Here) /\ (\A q \in Here : Env[q] = e) /\ e \in Envs
  <2>1. r \in Here /\ (\A q \in Here : Env[q] = e) /\ e \in Envs
    BY DEF RunsIn, Envs
  <2> QED
    BY <2>1, RunsInTyped
\* What the other environments claim is as it was.
<1>o. ASSUME NEW f \in Envs, f # e PROVE SumFunctionOnSet(Claims', RunsIn(f)) <= NumAgents
  <2>1. \A q \in RunsIn(f) : q \in Runs /\ q # r
    BY <1>o DEF RunsIn
  <2>2. \A q \in RunsIn(f) : step'[q] = step[q] /\ UNCHANGED token
    BY <2>1 DEF Validate, PoolTypeOK
  <2>3. \A q \in RunsIn(f) : Claimed(q)' => Claimed(q)
    BY <2>2 DEF Claimed, Load
  <2> QED
    BY <1>o, <2>3, FewerClaimsFitIn DEF ClaimsFit
<1> SUFFICES SumFunctionOnSet(Claims', Here) <= NumAgents
  BY <1>o DEF ClaimsFit
<1>0. step \in [Runs -> {"idle", "refused", "checked", "created", "dispatch", "launched"}]
  BY DEF PoolTypeOK
<1>1. ~Unseen(e) /\ InFlight(e, "checked") = {} /\ step[r] = "idle" /\ UNCHANGED token
      /\ step' = [step EXCEPT ![r] = IF Pods[r] > Idle(e) THEN "refused" ELSE "checked"]
  BY DEF Validate, Note
<1> DEFINE D == Claims'
           U == Used(e)
<1>2. D = [q \in Runs |-> IF Claimed(q)' THEN Pods[q] ELSE 0] /\ \A q \in Runs : D[q] \in Nat
  BY PoolAssumption DEF Claims
<1>3. \A q \in Here : q # r => D[q] <= U[q]
  <2> SUFFICES ASSUME NEW q \in Here, q # r, Claimed(q)' PROVE Usage(q) = Pods[q]
    <3>0. \A q \in Here : U[q] = Usage(q)
      BY DEF Used
    <3>1. \A q \in Here : U[q] = Usage(q) /\ U[q] \in Nat
      BY <3>0, UsageTyped DEF Natural
    <3>2. \A q \in Here : D[q] = IF Claimed(q)' THEN Pods[q] ELSE 0
      BY <1>2, <1>h
    <3>3. \A q \in Here : Pods[q] \in Nat
      BY <1>h, PoolAssumption
    <3> HIDE DEF D, U, Here
    <3> QED
      BY <3>1, <3>2, <3>3
  <2>1. step[q] \in {"created", "dispatch"} \/ Load(q) # {}
    BY <1>0, <1>1, <1>h DEF Claimed, Load, InFlight
  <2> QED
    BY <1>1, <1>h, <2>1, SeenCounts, WaitingCounts
<1>4. Load(r) = {}
  BY <1>1 DEF RunsKnown, Unlaunched
<1>5. D[r] \in {0, Pods[r]} /\ (D[r] # 0 => Pods[r] <= Idle(e))
  <2>1. D[r] # 0 => step'[r] = "checked"
    BY <1>0, <1>1, <1>2, <1>4 DEF Claimed, Load
  <2>2. Pods[r] \in Nat /\ Idle(e) \in Int
    BY PoolAssumption, StandbyBounded, UsageTyped DEF Idle
  <2> QED
    BY <1>0, <1>1, <1>2, <2>1, <2>2
<1>6. /\ Pods[r] \in Nat \ {0} /\ Standby \in Nat /\ Standby <= NumAgents /\ NumAgents \in Nat
      /\ SumFunctionOnSet(U, Here) \in Nat
      /\ Idle(e) = IF Standby - SumFunctionOnSet(U, Here) > 0 THEN Standby - SumFunctionOnSet(U, Here) ELSE 0
  BY PoolAssumption, StandbyBounded, UsageTyped DEF Idle
<1> HIDE DEF D
<1>7. /\ IsFiniteSet(Here) /\ Natural(D, Here) /\ Counts(D, Here) /\ Counts(U, Here) /\ Natural(U, Here)
  BY <1>2, <1>h, SumNat, UsageTyped, PoolAssumption DEF Natural
<1> DEFINE Rest == Here \ {r}
<1>8. /\ IsFiniteSet(Rest) /\ Natural(D, Rest) /\ Natural(U, Rest) /\ \A q \in Rest : D[q] <= U[q]
  BY <1>3, <1>7, FS_Subset DEF Natural
<1> HIDE DEF U
<1>9. Counts(D, Rest) /\ Counts(U, Rest)
  BY <1>8, SumNat
<1>10. SumFunctionOnSet(D, Rest) <= SumFunctionOnSet(U, Rest)
  BY <1>8, <1>9, SumMonotone
<1>11. SumFunctionOnSet(D, Rest) \in Nat /\ SumFunctionOnSet(U, Rest) \in Nat
  BY <1>8, SumNat
<1>12. /\ SumFunctionOnSet(D, Here) = D[r] + SumFunctionOnSet(D, Rest)
       /\ SumFunctionOnSet(U, Here) = U[r] + SumFunctionOnSet(U, Rest)
  BY <1>h, <1>7, SumRemove DEF SumWithout
<1>13. U[r] \in Nat
  BY <1>h, <1>7 DEF Natural
<1>14. CASE D[r] # 0
  <2>1. SumFunctionOnSet(D, Here) <= NumAgents
    BY <1>5, <1>6, <1>10, <1>11, <1>12, <1>13, <1>14
  <2> QED
    BY <2>1 DEF D
<1>15. CASE D[r] = 0
  <2>1. ~Claimed(r)'
    BY <1>2, <1>6, <1>15
  <2>2. \A q \in Runs : q # r => step'[q] = step[q]
    BY <1>0, <1>1
  <2>3. \A q \in Here : Claimed(q)' => Claimed(q)
    BY <1>1, <1>h, <2>1, <2>2 DEF Claimed, Load
  <2> QED
    BY <1>h, <2>3, FewerClaimsFitIn DEF ClaimsFit
<1> QED
  BY <1>14, <1>15

LEMMA ValidateKeepsShares ==
    ASSUME PoolTypeOK, RunsKnown, Unexcused, NEW r \in Runs, Validate(r)
    PROVE  RunsKnown' /\ Unexcused'
<1>0. /\ step \in [Runs -> {"idle", "refused", "checked", "created", "dispatch", "launched"}]
      /\ UNCHANGED <<row, chosen, token>> /\ step[r] = "idle" /\ step'[r] \in {"refused", "checked"}
      /\ \A q \in Runs : q # r => step'[q] = step[q]
  BY DEF PoolTypeOK, Validate
<1>1. RunsKnown'
  <2> SUFFICES ASSUME NEW q \in Runs PROVE Unlaunched(q)' /\ LaunchedOn(q)'
    BY DEF RunsKnown
  <2>1. Unlaunched(q) /\ LaunchedOn(q)
    BY DEF RunsKnown
  <2>2. Unlaunched(q)'
    BY <1>0, <2>1 DEF Unlaunched, Load
  <2>3. LaunchedOn(q)'
    BY <1>0, <2>1 DEF LaunchedOn, Load
  <2> QED
    BY <2>2, <2>3
<1>2. ASSUME excuse' = {} PROVE OneAtATime' /\ ClaimsFit' /\ DispatchIsFree' /\ OneLoadEach'
  <2>1. excuse = {} /\ InFlight(Env[r], "checked") = {}
    BY <1>2 DEF Validate, Note
  <2>2. OneAtATime /\ ClaimsFit /\ DispatchIsFree /\ OneLoadEach
    BY <2>1 DEF Unexcused
  <2>3. OneAtATime'
    BY <1>0, <2>1, <2>2 DEF OneAtATime, InFlight, RunsIn
  <2>4. ClaimsFit'
    BY <1>2, <2>2, ValidateFits
  <2>5. DispatchIsFree' /\ OneLoadEach'
    BY <1>0, <2>2 DEF DispatchIsFree, OneLoadEach, Load
  <2> QED
    BY <2>3, <2>4, <2>5
<1> QED
  BY <1>1, <1>2 DEF Unexcused

LEMMA InsertKeepsShares ==
    ASSUME PoolTypeOK, RunsKnown, Unexcused, NEW r \in Runs, Insert(r)
    PROVE  RunsKnown' /\ Unexcused'
<1>0. /\ step \in [Runs -> {"idle", "refused", "checked", "created", "dispatch", "launched"}]
      /\ row \in [Runs -> [status : {"none", "preparing", "running", "ended"}, aged : BOOLEAN]]
      /\ UNCHANGED <<chosen, token, excuse>> /\ step[r] = "checked" /\ step'[r] = "created"
      /\ \A q \in Runs : q # r => step'[q] = step[q] /\ row'[q] = row[q]
      /\ row'[r].status = "preparing" /\ row'[r].aged = row[r].aged
  BY DEF PoolTypeOK, Insert
<1>1. RunsKnown'
  <2> SUFFICES ASSUME NEW q \in Runs PROVE Unlaunched(q)' /\ LaunchedOn(q)'
    BY DEF RunsKnown
  <2>1. Unlaunched(q) /\ LaunchedOn(q)
    BY DEF RunsKnown
  <2>2. Unlaunched(q)'
    BY <1>0, <2>1 DEF Unlaunched, Load
  <2>3. LaunchedOn(q)'
    BY <1>0, <2>1 DEF LaunchedOn, Load
  <2> QED
    BY <2>2, <2>3
<1>2. ASSUME excuse' = {} PROVE OneAtATime' /\ ClaimsFit' /\ DispatchIsFree' /\ OneLoadEach'
  <2>2. OneAtATime /\ ClaimsFit /\ DispatchIsFree /\ OneLoadEach
    BY <1>0, <1>2 DEF Unexcused
  <2>3. OneAtATime'
    BY <1>0, <2>2 DEF OneAtATime
  <2>4. \A q \in Runs : Claimed(q)' => Claimed(q)
    BY <1>0 DEF Claimed, Load
  <2>5. DispatchIsFree' /\ OneLoadEach'
    BY <1>0, <2>2 DEF DispatchIsFree, OneLoadEach, Load
  <2> QED
    BY <2>2, <2>3, <2>4, <2>5, FewerClaimsFit
<1> QED
  BY <1>1, <1>2 DEF Unexcused

LEMMA DispatchKeepsShares ==
    ASSUME PoolTypeOK, RunsKnown, Unexcused, NEW r \in Runs, Dispatch(r)
    PROVE  RunsKnown' /\ Unexcused'
<1>0. /\ step \in [Runs -> {"idle", "refused", "checked", "created", "dispatch", "launched"}]
      /\ row \in [Runs -> [status : {"none", "preparing", "running", "ended"}, aged : BOOLEAN]]
      /\ chosen \in [Runs -> SUBSET Agents]
      /\ token \in [Runs -> [Agents -> {"none", "running", "ended"}]]
  BY DEF PoolTypeOK
<1>1. /\ step[r] = "dispatch" /\ step'[r] = "launched" /\ UNCHANGED excuse
      /\ \A q \in Runs : q # r => /\ step'[q] = step[q] /\ row'[q] = row[q] /\ chosen'[q] = chosen[q]
                                  /\ token'[q] = token[q]
      /\ chosen'[r] \subseteq chosen[r]
  BY <1>0 DEF Dispatch, Launched
<1>2. Unlaunched(r) /\ LaunchedOn(r)
  BY DEF RunsKnown
<1>3. \/ /\ row'[r].status = "running" /\ chosen'[r] = chosen[r]
         /\ \A a \in Agents : token'[r][a] = IF a \in chosen[r] THEN "running" ELSE token[r][a]
      \/ /\ row'[r].status = "ended"
         /\ \A a \in Agents : token'[r][a] # "running"
  BY <1>0, <1>1, <1>2 DEF Dispatch, Launched, Unlaunched, Load
<1>4. Load(r)' \subseteq chosen[r] /\ (row'[r].status = "running" => Load(r)' = chosen'[r])
      /\ (row'[r].status # "running" => Load(r)' = {})
  BY <1>0, <1>1, <1>2, <1>3 DEF Unlaunched, Load
<1>5. Cardinality(chosen'[r]) <= Pods[r]
  <2>1. chosen[r] \subseteq Agents /\ IsFiniteSet(chosen[r]) /\ Cardinality(chosen[r]) \in Nat
    BY <1>0, AgentsFinite
  <2>2. IsFiniteSet(chosen'[r]) /\ Cardinality(chosen'[r]) \in Nat /\ Cardinality(chosen'[r]) <= Cardinality(chosen[r])
    BY <1>1, <2>1, FS_Subset, FS_CardinalityType
  <2> QED
    BY <1>2, <2>1, <2>2, PoolAssumption DEF LaunchedOn
<1>6. RunsKnown'
  <2> SUFFICES ASSUME NEW q \in Runs PROVE Unlaunched(q)' /\ LaunchedOn(q)'
    BY DEF RunsKnown
  <2>1. CASE q # r
    <3>1. Unlaunched(q) /\ LaunchedOn(q)
      BY DEF RunsKnown
    <3>2. Unlaunched(q)'
      BY <1>1, <2>1, <3>1 DEF Unlaunched, Load
    <3>3. LaunchedOn(q)'
      BY <1>1, <2>1, <3>1 DEF LaunchedOn, Load
    <3> QED
      BY <3>2, <3>3
  <2>2. CASE q = r
    <3>1. Unlaunched(r)'
      BY <1>1 DEF Unlaunched
    <3>2. chosen[r] # {} /\ chosen[r] \subseteq Agents
      BY <1>0, <1>1, <1>2 DEF LaunchedOn
    <3>3. row'[r].status = "running" => chosen'[r] = chosen[r] /\ \A a \in chosen'[r] : token'[r][a] # "none"
      BY <1>3, <3>2
    <3>4. LaunchedOn(r)'
      BY <1>1, <1>3, <1>4, <1>5, <3>2, <3>3 DEF LaunchedOn
    <3> QED
      BY <2>2, <3>1, <3>4
  <2> QED
    BY <2>1, <2>2
<1>7. ASSUME excuse' = {} PROVE OneAtATime' /\ ClaimsFit' /\ DispatchIsFree' /\ OneLoadEach'
  <2>1. OneAtATime /\ ClaimsFit /\ DispatchIsFree /\ OneLoadEach
    BY <1>1, <1>7 DEF Unexcused
  <2>2. OneAtATime'
    BY <1>0, <1>1, <2>1 DEF OneAtATime
  <2>3. \A q \in Runs : Claimed(q)' => Claimed(q)
    BY <1>1 DEF Claimed, Load
  <2>4. \A q \in Runs : q # r => Load(q)' = Load(q) /\ (Env[q] = Env[r] => Load(q) \cap Load(r)' = {})
    BY <1>1, <1>4, <2>1 DEF DispatchIsFree, Load
  <2>5. OneLoadEach'
    BY <2>1, <2>4 DEF OneLoadEach
  <2>6. DispatchIsFree'
    <3>1. \A q \in Runs : Env[q] = Env[r] => step'[q] # "dispatch"
      BY <1>0, <1>1, <2>1 DEF OneAtATime
    <3> SUFFICES ASSUME NEW p \in Runs, NEW q \in Runs, Env[q] = Env[p], step'[p] = "dispatch"
                 PROVE  chosen'[p] \cap Load(q)' = {}
      BY DEF DispatchIsFree
    <3>2. p # r /\ q # r
      BY <3>1
    <3> QED
      BY <1>1, <2>1, <2>4, <3>2 DEF DispatchIsFree
  <2> QED
    BY <2>1, <2>2, <2>3, <2>5, <2>6, FewerClaimsFit
<1> QED
  BY <1>6, <1>7 DEF Unexcused

\* An agent has a part in the use exactly if a run that counts names it.
Users(q) == IF Usage(q) # 0 THEN Named(q) ELSE {}
LEMMA ShareOfUse ==
    ASSUME NEW u \in Nat \ {0}, NEW n \in Nat \ {0}
    PROVE  (u + n - 1) \div n \in Nat \ {0}
<1> DEFINE m == u + n - 1
           x == m \div n
<1>1. m \in Nat /\ m >= n
  OBVIOUS
<1> HIDE DEF m
<1>2. x \in Nat /\ m % n \in 0..n - 1 /\ m = n * x + (m % n)
  BY <1>1, Division
<1> HIDE DEF x
<1>3. x # 0
  <2> SUFFICES ASSUME x = 0 PROVE FALSE
    OBVIOUS
  <2>1. n * x = 0
    OBVIOUS
  <2> QED
    BY <1>1, <1>2, <2>1
<1> QED
  BY <1>2, <1>3 DEF x, m

LEMMA UseOfAgents ==
    ASSUME PoolTypeOK, NEW a \in Agents, NEW e
    PROVE  UsageOn(e, a) \in Nat /\ (UsageOn(e, a) # 0 <=> \E q \in RunsIn(e) : a \in Users(q))
<1> DEFINE Share(q) == IF a \notin Named(q) \/ Usage(q) = 0 THEN 0
                       ELSE (Usage(q) + Cardinality(Named(q)) - 1) \div Cardinality(Named(q))
           F == [q \in RunsIn(e) |-> Share(q)]
<1>0. RunsIn(e) \subseteq Runs /\ IsFiniteSet(RunsIn(e))
  BY RunsInTyped
<1>1. ASSUME NEW q \in RunsIn(e) PROVE F[q] \in Nat /\ (F[q] # 0 <=> a \in Users(q))
  <2>1. CASE a \notin Named(q) \/ Usage(q) = 0
    BY <2>1 DEF Users
  <2>2. CASE a \in Named(q) /\ Usage(q) # 0
    <3>1. Named(q) \subseteq Agents
      BY <1>0 DEF Named, PoolTypeOK
    <3>2. IsFiniteSet(Named(q)) /\ Cardinality(Named(q)) \in Nat /\ Named(q) # {}
      BY <2>2, <3>1, AgentsFinite
    <3>3. Cardinality(Named(q)) # 0
      BY <3>2, FS_EmptySet
    <3>4. Usage(q) \in Nat \ {0}
      BY <1>0, <2>2, UsageTyped
    <3>5. (Usage(q) + Cardinality(Named(q)) - 1) \div Cardinality(Named(q)) \in Nat \ {0}
      BY <3>2, <3>3, <3>4, ShareOfUse
    <3> QED
      BY <2>2, <3>5 DEF Users
  <2> QED
    BY <2>1, <2>2
<1>2. UsageOn(e, a) = SumFunctionOnSet(F, RunsIn(e))
  <2>1. UsageOn(e, a) = Total(F)
    BY DEF UsageOn
  <2>2. DOMAIN F = RunsIn(e)
    OBVIOUS
  <2> HIDE DEF F
  <2> QED
    BY <2>1, <2>2, TotalIsSum
<1> HIDE DEF F
<1>3. Natural(F, RunsIn(e)) /\ IsFiniteSet(RunsIn(e))
  BY <1>0, <1>1 DEF Natural
<1>4. SumFunctionOnSet(F, RunsIn(e)) \in Nat /\ (SumFunctionOnSet(F, RunsIn(e)) = 0 <=> \A q \in RunsIn(e) : F[q] = 0)
  BY <1>3, SumNat
<1> QED
  BY <1>1, <1>2, <1>4

\* Where every agent answers and no load is unseen, the agents in use in an environment are no
\* more than what its other runs claim.
InUse(e) == UNION {Users(q) : q \in RunsIn(e)}
LEMMA InUseFits ==
    ASSUME PoolTypeOK, RunsKnown, ClaimsFit, NEW r \in Runs, step[r] = "created", Answering = Agents
    PROVE  /\ IsFiniteSet(InUse(Env[r])) /\ Cardinality(InUse(Env[r])) \in Nat
           /\ Cardinality(InUse(Env[r])) + Pods[r] <= NumAgents
<1> DEFINE Here == RunsIn(Env[r])
           Taken == InUse(Env[r])
           A == [q \in Here |-> Users(q)]
           F == [q \in Here |-> IF Users(q) # {} THEN Pods[q] ELSE 0]
           C == Claims
           Rest == Here \ {r}
<1>0. Here \subseteq Runs /\ IsFiniteSet(Here) /\ r \in Here /\ Env[r] \in Envs
  <2>1. r \in Here /\ Env[r] \in Envs
    BY DEF RunsIn, Envs
  <2> QED
    BY <2>1, RunsInTyped
<1>1. \A q \in Here : F[q] \in Nat /\ C[q] \in Nat /\ Pods[q] \in Nat
  BY <1>0, PoolAssumption DEF Claims
<1>2. ASSUME NEW q \in Here
      PROVE  /\ F[q] <= C[q] /\ (q = r => F[q] = 0 /\ C[q] = Pods[r])
             /\ IsFiniteSet(A[q]) /\ Cardinality(A[q]) <= F[q]
  <2>1. CASE Users(q) = {}
    <3>1. A[q] = {} /\ F[q] = 0
      BY <2>1
    <3>2. IsFiniteSet(A[q]) /\ Cardinality(A[q]) = 0
      BY <3>1, FS_EmptySet, Zenon
    <3>3. q = r => C[q] = Pods[r]
      BY <1>0 DEF Claims, Claimed
    <3> QED
      BY <1>1, <3>1, <3>2, <3>3
  <2>2. CASE Users(q) # {}
    <3>1. step[q] = "launched" /\ Users(q) = chosen[q] /\ Usage(q) # 0 /\ chosen[q] \subseteq Agents
      BY <1>0, <2>2 DEF Users, Named, PoolTypeOK
    <3>2. Unlaunched(q) /\ LaunchedOn(q) /\ q \in Runs
      BY <1>0 DEF RunsKnown
    <3>3. Load(q) # {}
      <4>1. CASE Live(q) = "yes"
        BY <3>1, <4>1 DEF Live
      <4>2. CASE Live(q) # "yes"
        <5>1. Live(q) = "unknown" /\ Active(q)
          BY <3>1, <4>2 DEF Usage
        <5>2. row[q].status = "running"
          BY <3>1, <3>2, <5>1 DEF Active, LaunchedOn
        <5>3. PICK a \in chosen[q] : a \in Agents /\ token[q][a] # "ended"
          BY <3>1, <3>2, <5>1, <5>2 DEF Live, Named, LaunchedOn
        <5>4. token[q][a] = "running"
          BY <3>1, <3>2, <5>2, <5>3 DEF LaunchedOn, PoolTypeOK
        <5> QED
          BY <5>3, <5>4 DEF Load
      <4> QED
        BY <4>1, <4>2
    <3>4. C[q] = Pods[q] /\ F[q] = Pods[q] /\ q # r
      BY <1>0, <2>2, <3>1, <3>3 DEF Claims, Claimed
    <3>5. IsFiniteSet(A[q]) /\ Cardinality(A[q]) <= Pods[q]
      BY <3>1, <3>2, AgentsFinite DEF LaunchedOn
    <3> QED
      BY <1>1, <3>4, <3>5
  <2> QED
    BY <2>1, <2>2
<1>3. Taken = UNION {A[q] : q \in Here}
  BY DEF InUse
<1>4. SumFunctionOnSet(C, Here) <= NumAgents
  BY <1>0 DEF ClaimsFit
<1> HIDE DEF A, F, C
<1>5. /\ IsFiniteSet(Here) /\ IsFiniteSet(Rest) /\ Natural(F, Here) /\ Natural(C, Here)
      /\ Natural(F, Rest) /\ Natural(C, Rest)
  BY <1>0, <1>1, FS_Subset DEF Natural
<1>6. Counts(F, Rest) /\ Counts(C, Rest) /\ Counts(F, Here) /\ Counts(C, Here)
  BY <1>5, SumNat
<1>7. IsFiniteSet(Taken) /\ Cardinality(Taken) <= SumFunctionOnSet(F, Here)
  BY <1>2, <1>3, <1>5, UnionBound
<1>8. SumFunctionOnSet(F, Rest) <= SumFunctionOnSet(C, Rest)
  BY <1>2, <1>5, <1>6, SumMonotone
<1>9. /\ SumFunctionOnSet(F, Here) = F[r] + SumFunctionOnSet(F, Rest)
      /\ SumFunctionOnSet(C, Here) = C[r] + SumFunctionOnSet(C, Rest)
  BY <1>0, <1>5, <1>6, SumRemove DEF SumWithout
<1>10. SumFunctionOnSet(F, Rest) \in Nat /\ SumFunctionOnSet(C, Rest) \in Nat
  BY <1>5, SumNat
<1>11. Cardinality(Taken) \in Nat /\ F[r] = 0 /\ C[r] = Pods[r] /\ Pods[r] \in Nat /\ NumAgents \in Nat
  BY <1>0, <1>1, <1>2, <1>7, FS_CardinalityType, PoolAssumption
<1> QED
  BY <1>4, <1>7, <1>8, <1>9, <1>10, <1>11

\* So the least used agents that are selected are not in use at all.
LEMMA SelectionIsFree ==
    ASSUME PoolTypeOK, RunsKnown, ClaimsFit, NEW r \in Runs, step[r] = "created", Answering = Agents,
           NEW S \in Selections(r, Agents)
    PROVE  S \cap InUse(Env[r]) = {}
<1> DEFINE Taken == InUse(Env[r])
           Part(a) == UsageOn(Env[r], a)
<1>1. S \subseteq Agents /\ Cardinality(S) = Pods[r] /\ \A a \in S, b \in Agents \ S : Part(a) <= Part(b)
  BY DEF Selections
<1>2. SUFFICES ASSUME NEW a \in S, a \in Taken PROVE FALSE
  OBVIOUS
<1>3. ASSUME NEW b \in Agents PROVE Part(b) \in Nat /\ (Part(b) # 0 <=> b \in Taken)
  BY <1>3, UseOfAgents DEF InUse
<1>4. (Agents \ S) \cup {a} \subseteq Taken
  <2> SUFFICES ASSUME NEW b \in Agents \ S PROVE b \in Taken
    BY <1>2
  <2>1. Part(a) \in Nat /\ Part(a) # 0 /\ Part(a) <= Part(b)
    BY <1>1, <1>2, <1>3
  <2>2. Part(b) # 0
    BY <1>3, <2>1
  <2> QED
    BY <1>3, <2>2
<1> DEFINE B == Agents \ S
<1>5. IsFiniteSet(B) /\ Cardinality(B) = NumAgents - Pods[r]
  <2>1. Agents \cap S = S
    BY <1>1
  <2>2. IsFiniteSet(Agents) /\ Cardinality(Agents) = NumAgents /\ IsFiniteSet(S) /\ Cardinality(S) \in Nat
    BY <1>1, AgentsFinite
  <2>3. IsFiniteSet(B) /\ Cardinality(B) = Cardinality(Agents) - Cardinality(Agents \cap S)
    BY <2>2, FS_Difference
  <2> QED
    BY <1>1, <2>1, <2>2, <2>3
<1>6. a \notin B
  OBVIOUS
<1> HIDE DEF B
<1>7. Cardinality(B \cup {a}) = NumAgents - Pods[r] + 1
  BY <1>5, <1>6, FS_AddElement
<1>8. IsFiniteSet(Taken) /\ Cardinality(Taken) \in Nat /\ Cardinality(Taken) + Pods[r] <= NumAgents
  BY InUseFits
<1>9. Cardinality(B \cup {a}) <= Cardinality(Taken)
  BY <1>4, <1>8, FS_Subset DEF B
<1> QED
  BY <1>7, <1>8, <1>9, PoolAssumption

LEMMA SelectKeepsShares ==
    ASSUME PoolTypeOK, RunsKnown, Unexcused, NEW r \in Runs, Select(r)
    PROVE  RunsKnown' /\ Unexcused'
<1>0. /\ step \in [Runs -> {"idle", "refused", "checked", "created", "dispatch", "launched"}]
      /\ row \in [Runs -> [status : {"none", "preparing", "running", "ended"}, aged : BOOLEAN]]
      /\ chosen \in [Runs -> SUBSET Agents]
  BY DEF PoolTypeOK
<1>1. /\ step[r] = "created" /\ step'[r] \in {"launched", "dispatch"} /\ UNCHANGED token
      /\ \A q \in Runs : q # r => step'[q] = step[q] /\ row'[q] = row[q] /\ chosen'[q] = chosen[q]
      /\ row'[r].aged = row[r].aged
  BY <1>0 DEF Select, Launched
<1>2. Unlaunched(r) /\ LaunchedOn(r)
  BY DEF RunsKnown
<1>3. \/ step'[r] = "launched" /\ row'[r].status = "ended" /\ chosen'[r] = chosen[r]
      \/ step'[r] = "dispatch" /\ row'[r] = row[r] /\ chosen'[r] \in Selections(r, cache')
  BY <1>0 DEF Select, Launched
<1>4. chosen'[r] \in Selections(r, cache') => chosen'[r] # {} /\ Cardinality(chosen'[r]) <= Pods[r]
  <2> SUFFICES ASSUME chosen'[r] \in Selections(r, cache') PROVE chosen'[r] # {} /\ Cardinality(chosen'[r]) <= Pods[r]
    OBVIOUS
  <2>1. Cardinality(chosen'[r]) = Pods[r] /\ Pods[r] \in Nat \ {0}
    BY PoolAssumption DEF Selections
  <2>2. Cardinality({}) = 0
    BY FS_EmptySet
  <2>3. chosen'[r] # {}
    BY <2>1, <2>2
  <2> QED
    BY <2>1, <2>3
<1>5. RunsKnown'
  <2> SUFFICES ASSUME NEW q \in Runs PROVE Unlaunched(q)' /\ LaunchedOn(q)'
    BY DEF RunsKnown
  <2>1. CASE q # r
    <3>1. Unlaunched(q) /\ LaunchedOn(q)
      BY DEF RunsKnown
    <3>2. Unlaunched(q)'
      BY <1>1, <2>1, <3>1 DEF Unlaunched, Load
    <3>3. LaunchedOn(q)'
      BY <1>1, <2>1, <3>1 DEF LaunchedOn, Load
    <3> QED
      BY <3>2, <3>3
  <2>2. CASE q = r
    <3>1. Load(r)' = {} /\ row[r].status = "preparing" /\ ~row[r].aged
      BY <1>1, <1>2 DEF Unlaunched, Load
    <3>2. Unlaunched(r)'
      BY <1>1, <1>3, <3>1 DEF Unlaunched
    <3>3. LaunchedOn(r)'
      BY <1>1, <1>2, <1>3, <1>4, <3>1 DEF LaunchedOn
    <3> QED
      BY <2>2, <3>2, <3>3
  <2> QED
    BY <2>1, <2>2
<1>6. ASSUME excuse' = {} PROVE OneAtATime' /\ ClaimsFit' /\ DispatchIsFree' /\ OneLoadEach'
  <2>1. /\ excuse = {} /\ InFlight(Env[r], "dispatch") = {} /\ Answering = Agents /\ cache' = Agents
        /\ ~Unseen(Env[r])
    BY <1>6 DEF Select, Note
  <2>2. OneAtATime /\ ClaimsFit /\ DispatchIsFree /\ OneLoadEach
    BY <2>1 DEF Unexcused
  <2>3. OneAtATime'
    BY <1>0, <1>1, <2>1, <2>2 DEF OneAtATime, InFlight, RunsIn
  <2>4. \A q \in Runs : Claimed(q)' => Claimed(q)
    BY <1>1 DEF Claimed, Load
  <2>5. OneLoadEach'
    BY <1>1, <2>2 DEF OneLoadEach, Load
  <2>6. ASSUME NEW q \in Runs, Env[q] = Env[r], step'[r] = "dispatch", NEW a \in chosen'[r], a \in Load(q)
        PROVE  FALSE
    <3>2. chosen'[r] \cap InUse(Env[r]) = {}
      BY <1>1, <1>3, <2>1, <2>2, <2>6, SelectionIsFree
    <3>3. Usage(q) = Pods[q] /\ Load(q) \subseteq Named(q) /\ Pods[q] # 0
      BY <2>1, <2>6, SeenCounts, PoolAssumption
    <3>4. a \in InUse(Env[r])
      BY <2>6, <3>3 DEF InUse, Users, RunsIn
    <3> QED
      BY <2>6, <3>2, <3>4
  <2>7. DispatchIsFree'
    BY <1>1, <2>2, <2>6 DEF DispatchIsFree, Load
  <2> QED
    BY <2>2, <2>3, <2>4, <2>5, <2>7, FewerClaimsFit
<1> QED
  BY <1>5, <1>6 DEF Unexcused

LEMMA SharesKept == TypeOK /\ RunsKnown /\ Unexcused /\ [Next]_vars => RunsKnown' /\ Unexcused'
<1> SUFFICES ASSUME TypeOK, RunsKnown, Unexcused, [Next]_vars PROVE RunsKnown' /\ Unexcused'
  OBVIOUS
<1>0. PoolTypeOK
  BY DEF TypeOK
<1>1. ASSUME UNCHANGED <<row, step, chosen, token, excuse>> PROVE RunsKnown' /\ Unexcused'
  <2>1. /\ \A r \in Runs : Load(r)' \subseteq Load(r) /\ row'[r] = row[r]
        /\ \A r \in Runs, a \in Agents : token[r][a] # "none" => token'[r][a] # "none"
    BY <1>1 DEF Load
  <2> QED
    BY <1>0, <1>1, <2>1, EndingKeeps
<1>2. CASE Weather \/ UNCHANGED poolVars
  <2>1. UNCHANGED <<row, step, chosen, token, excuse>>
    BY <1>2 DEF Weather, FallSilent, Return, RegistryFollows, Tick, DiscoverInVain, runs, poolVars
  <2> QED
    BY <1>1, <2>1
<1>3. ASSUME NEW r \in Runs, Validate(r) \/ Launch(r) \/ Life(r) PROVE RunsKnown' /\ Unexcused'
  BY <1>0, <1>3, ValidateKeepsShares, InsertKeepsShares, SelectKeepsShares, DispatchKeepsShares,
     LifeKeepsShares DEF Launch
<1>4. ASSUME NEW r \in Runs, Stop(r) PROVE RunsKnown' /\ Unexcused'
  BY <1>0, <1>4, StopKeepsShares
<1> QED
  BY <1>2, <1>3, <1>4, PoolStep DEF PoolNext

\* No agent bears the load of two runs of one environment, unless two of its runs were checked
\* or selected at the same time, an agent was missing at a selection or a load could not be
\* seen: what the idle agents are counted from and what the selection prefers agree.
THEOREM AgentsStayUnshared == Spec => []AgentsNotShared
<1>1. Init => RunsKnown /\ Unexcused
  BY PoolInitShared DEF Init
<1>2. TypeOK /\ RunsKnown /\ Unexcused => AgentsNotShared
  <2> SUFFICES ASSUME TypeOK, Unexcused, excuse = {}, NEW e \in Envs, NEW a \in Agents
               PROVE  Cardinality({r \in RunsIn(e) : a \in Load(r)}) <= 1
    BY DEF AgentsNotShared
  <2>1. OneLoadEach
    BY DEF Unexcused
  <2> DEFINE L == {r \in RunsIn(e) : a \in Load(r)}
  <2>2. CASE L = {}
    <3>1. Cardinality(L) = 0
      BY <2>2, FS_EmptySet, Zenon
    <3> QED
      BY <3>1
  <2>3. ASSUME NEW r \in L PROVE Cardinality(L) = 1
    <3>1. L = {r}
      BY <2>1, <2>3 DEF OneLoadEach, RunsIn
    <3> HIDE DEF L
    <3> QED
      BY <3>1, FS_Singleton, Zenon
  <2> QED
    BY <2>2, <2>3
<1> QED
  BY <1>1, <1>2, SharesKept, SchedulerTypeCorrect, PTL DEF Spec

-----------------------------------------------------------------------------
(* What a scan reserves *)

Waves == [p \in Plans |-> Wave(p)]

LEMMA WaveTyped == \A p \in Plans : Wave(p) \in Nat
<1> SUFFICES ASSUME NEW p \in Plans PROVE Wave(p) \in Nat
  OBVIOUS
<1>1. Of(p) # {} /\ Of(p) \subseteq Runs
  BY SchedulerAssumption DEF Of
<1>2. (CHOOSE k \in Of(p) : TRUE) \in Runs
  BY <1>1
<1> QED
  BY <1>2, PoolAssumption DEF Wave

\* The sum over a set of plans is that of their waves.
LEMMA ReservedIsSum ==
    ASSUME NEW S \in SUBSET Plans
    PROVE  Reserved(S) = SumFunctionOnSet(Waves, S)
<1>1. IsFiniteSet(S)
  BY SchedulerAssumption, FS_Subset
<1>2. PICK g : IsSum(Waves, S, g)
  BY <1>1, SumExists
<1>3. \A T \in SUBSET S : T # {} => Waves[Some(T)] = Wave(Some(T))
  BY DEF Waves, Some
<1>4. ASSUME NEW h
      PROVE  IsSum(Waves, S, h) <=>
                h = [T \in SUBSET S |-> IF T = {} THEN 0 ELSE Wave(Some(T)) + h[T \ {Some(T)}]]
  <2>1. [T \in SUBSET S |-> IF T = {} THEN 0 ELSE Wave(Some(T)) + h[T \ {Some(T)}]]
        = [T \in SUBSET S |-> IF T = {} THEN 0 ELSE Waves[Some(T)] + h[T \ {Some(T)}]]
    BY <1>3
  <2> QED
    BY <2>1 DEF IsSum
<1>5. \A h : IsSum(Waves, S, h) <=> h = g
  BY <1>1, <1>2, SumIsOne
<1>6. \A h : h = g <=>
                h = [T \in SUBSET S |-> IF T = {} THEN 0 ELSE Wave(Some(T)) + h[T \ {Some(T)}]]
  BY <1>4, <1>5
<1>7. Reserved(S) = g[S]
  BY <1>6 DEF Reserved, MapThenSumSet, MapThenFoldSet, Some
<1> QED
  BY <1>1, <1>2, <1>7, SumIs

LEMMA IdleTyped == ASSUME PoolTypeOK, NEW e PROVE Idle(e) \in Nat
  BY StandbyBounded, UsageTyped DEF Idle

\* Plans of an environment that each fit beside those before them fit together.
LEMMA CollectedFit ==
    ASSUME PoolTypeOK, NEW S \in SUBSET Plans, NEW unchecked, Collected(S, unchecked), NEW e
    PROVE  Reserved(PlansIn(e, S \ unchecked)) <= Idle(e)
<1> DEFINE P == PlansIn(e, S \ unchecked)
<1>0. Plans \subseteq Nat /\ IsFiniteSet(Plans) /\ P \subseteq Plans /\ Idle(e) \in Nat
  BY SchedulerAssumption, IdleTyped DEF PlansIn
<1>a. CASE P = {}
  <2>1. SumFunctionOnSet(Waves, {}) = 0
    BY SumEmpty
  <2>2. Reserved(P) = SumFunctionOnSet(Waves, P)
    BY <1>0, ReservedIsSum
  <2> HIDE DEF P
  <2>3. Reserved(P) = 0
    BY <1>a, <2>1, <2>2
  <2> QED
    BY <1>0, <2>3 DEF P
<1>b. CASE P # {}
  <2> HIDE DEF P
  <2>1. P \in SUBSET Int /\ IsFiniteSet(P)
    <3>1. P \subseteq Int
      BY <1>0
    <3>2. IsFiniteSet(P)
      BY <1>0, FS_Subset
    <3> QED
      BY <3>1, <3>2
  <2>2. PICK p \in P : \A q \in P : q <= p
    BY <1>b, <2>1, HasGreatest
  <2> DEFINE T == {q \in P : q < p}
  <2>3. Reserved(T) + Wave(p) <= Idle(e)
    <3>1. p \in Plans /\ p \in S /\ p \notin unchecked /\ EnvOf(p) = e
      BY <1>0, <2>2 DEF PlansIn, P
    <3>2. Fits(p, S \ unchecked)
      BY <3>1 DEF Collected
    <3> QED
      BY <3>1, <3>2 DEF Fits, P
  <2>4. T = P \ {p}
    <3>1. p \in Int /\ \A q \in P : q \in Int /\ q <= p
      BY <2>1, <2>2
    <3>2. \A q \in P : q < p <=> q # p
      BY <3>1
    <3> QED
      BY <3>2
  <2> HIDE DEF T, P
  <2>5. Natural(Waves, P) /\ Waves[p] = Wave(p)
    BY <1>0, <2>2, WaveTyped DEF Natural, Waves
  <2>6. SumFunctionOnSet(Waves, P) = Waves[p] + SumFunctionOnSet(Waves, T)
    BY <2>1, <2>2, <2>4, <2>5, SumNat, SumRemove DEF SumWithout
  <2>7. Reserved(P) = SumFunctionOnSet(Waves, P) /\ Reserved(T) = SumFunctionOnSet(Waves, T)
    <3>1. P \in SUBSET Plans /\ T \in SUBSET Plans
      BY <1>0, <2>4
    <3> QED
      BY <3>1, ReservedIsSum
  <2>8. IsFiniteSet(T) /\ Natural(Waves, T)
    BY <2>1, <2>4, <2>5, FS_Subset DEF Natural
  <2>9. SumFunctionOnSet(Waves, T) \in Nat /\ Wave(p) \in Nat
    BY <1>0, <2>2, <2>8, SumNat, WaveTyped
  <2> QED
    BY <2>3, <2>5, <2>6, <2>7, <2>9 DEF P
<1> QED
  BY <1>a, <1>b

\* A scan that begins to launch has collected plans whose first waves fit together, in each
\* environment and as far as they were checked.
LEMMA ScanFits ==
    ASSUME TypeOK, [Next]_vars, NEW s \in Scans, scan[s].pc = "idle", scan'[s].pc = "launch",
           NEW e
    PROVE  Reserved(PlansIn(e, {d.plan : d \in {c \in scan'[s].due : c.checked}})) <= Idle(e)
<1>0. scan \in ScanStates
  BY DEF TypeOK, ScanStates
<1>1. ScanCollects(s)
  <2>1. ASSUME NEW t \in Scans, ScanCreates(t) \/ ScanSends(t) PROVE FALSE
    <3>1. scan[t].pc # "idle" /\ \A u \in Scans : u # t => scan'[u] = scan[u]
      BY <1>0, <2>1 DEF ScanCreates, ScanSends, ScanStates
    <3> QED
      BY <3>1
  <2>2. ASSUME NEW t \in Scans, ScanCollects(t), t # s PROVE FALSE
    BY <1>0, <2>2 DEF ScanCollects, ScanStates
  <2>3. ASSUME UNCHANGED scan PROVE FALSE
    BY <2>3
  <2>4. ASSUME NEW k \in Runs, Worker(k) \/ Stop(k) \/ (Life(k) /\ UNCHANGED schedVars)
        PROVE  UNCHANGED scan
    BY <2>4 DEF Worker, WorkerLooks, WorkerBegins, WorkerLaunches, WorkerEnds, Stop, schedVars
  <2>5. ASSUME NEW p \in Plans, \/ Execute(p) \/ EditLoads(p) \/ EditMade(p)
                                 \/ DeleteAllowed(p) \/ DeleteMade(p)
        PROVE  UNCHANGED scan
    BY <2>5 DEF Execute, EditLoads, EditMade, DeleteAllowed, DeleteMade
  <2>6. Clock \/ (Weather /\ UNCHANGED schedVars) \/ UNCHANGED vars => UNCHANGED scan
    BY DEF Clock, schedVars, vars
  <2> QED
    BY <2>1, <2>2, <2>3, <2>4, <2>5, <2>6 DEF Next, Scan
<1>2. PICK S \in SUBSET Plans, unchecked \in SUBSET Plans :
         /\ Collected(S, unchecked)
         /\ scan' = [scan EXCEPT ![s] = [pc |-> "launch", now |-> now,
                        due |-> {[plan |-> p, occasion |-> Occasion(p),
                                  checked |-> p \notin unchecked] : p \in S}]]
  BY <1>1 DEF ScanCollects
<1> DEFINE Item(p) == [plan |-> p, occasion |-> Occasion(p), checked |-> p \notin unchecked]
           D == {c \in scan'[s].due : c.checked}
<1>3. scan'[s].due = {Item(p) : p \in S}
  <2> DEFINE items == {Item(p) : p \in S}
  <2>1. scan' = [scan EXCEPT ![s] = [pc |-> "launch", now |-> now, due |-> items]]
    BY <1>2, Zenon
  <2> HIDE DEF items
  <2>2. scan'[s].due = items
    BY <1>0, <2>1 DEF ScanStates
  <2>3. items = {Item(p) : p \in S}
    BY Zenon DEF items
  <2> QED
    BY <2>2, <2>3, Zenon
<1>4. ASSUME NEW d \in D PROVE \E p \in S \ unchecked : d.plan = p
  <2>1. d \in {Item(p) : p \in S} /\ d.checked
    BY <1>3
  <2>2. PICK p \in S : d = Item(p)
    BY <2>1
  <2> QED
    BY <2>1, <2>2
<1>5. ASSUME NEW p \in S \ unchecked PROVE \E d \in D : d.plan = p
  <2>1. Item(p) \in D
    BY <1>3
  <2> QED
    BY <2>1
<1> HIDE DEF D
<1>6. {d.plan : d \in D} = S \ unchecked
  BY <1>4, <1>5
<1>7. Reserved(PlansIn(e, S \ unchecked)) <= Idle(e)
  BY <1>2, CollectedFit DEF TypeOK
<1> QED
  BY <1>6, <1>7, Zenon DEF D

\* A scan does not count on agents that are not there, nor does a dispatch: the plans of one
\* environment that one scan has checked fit together into what was idle for it, and a
\* selection, but one whose discovery broke off, knows of no silence beyond the grace.
THEOREM PoolStaysKept == Spec => PoolIsKept
<1>1. ASSUME TypeOK, [Next]_vars
      PROVE  [\A s \in Scans : scan[s].pc = "idle" /\ scan'[s].pc = "launch" =>
                 \A e \in Envs :
                    Reserved(PlansIn(e, {d.plan : d \in {c \in scan'[s].due : c.checked}})) <= Idle(e)]_vars
  BY <1>1, ScanFits
<1> QED
  BY <1>1, SchedulerTypeCorrect, SelectionRecent, PTL DEF Spec, PoolIsKept, ScanWithinIdle

-----------------------------------------------------------------------------
(* Hosts: types *)

Loads == [run : JobRuns, slot : AllSlots, try : Nat, at : JobRuns \cup {Pool}, job : BOOLEAN]
Reasons == {"kubectl", "failed", "partly", "stopped", "died", "dead"}
JobRows == [JobRuns -> [status : {"queued", "running", "ended"}, meta : BOOLEAN,
                        contexts : SUBSET Loads]]
OfDispatch == [pc : {"idle", "agents", "check"}, slots : Nat, made : SUBSET AllSlots,
               tries : [AllSlots -> Nat], answered : SUBSET Loads, failed : SUBSET AllSlots]
Dispatches == [JobRuns -> OfDispatch]

JobTypes ==
    /\ jobRow \in JobRows /\ job \in [JobRuns -> {"none", "up", "gone"}]
    /\ loads \subseteq Loads /\ host \in [AllSlots -> JobRuns \cup {Pool}]
    /\ dispatch \in Dispatches /\ polling \in [JobRuns -> {"none", "sent", "dead"}]
    /\ bulk \in [pc : {"idle", "tell", "done"}, runs : SUBSET JobRuns,
                 told : SUBSET Loads, missed : SUBSET Loads]
    /\ left \in [JobRuns -> SUBSET Reasons]

LEMMA SlotsTyped ==
    ASSUME NEW r \in JobRuns
    PROVE  /\ Slots[r] \in Nat \ {0} /\ Posts[r] \in Nat \ {0} /\ r \in Nat \ {0}
           /\ 1..Slots[r] \subseteq AllSlots
  BY JobsAssumption DEF AllSlots

LEMMA DispatchChange ==
    ASSUME dispatch \in Dispatches, NEW r \in JobRuns, NEW e \in OfDispatch
    PROVE  [dispatch EXCEPT ![r] = e] \in Dispatches
  BY DEF Dispatches

LEMMA JobTypesInit == ASSUME NEW waiting, JobInit(waiting) PROVE JobTypes
<1>1. [s \in AllSlots |-> 0] \in [AllSlots -> Nat]
  OBVIOUS
<1>2. NotDispatched \in OfDispatch
  BY <1>1 DEF NotDispatched, OfDispatch
<1> QED
  BY <1>2 DEF JobInit, JobTypes, JobRows, Dispatches, NoBulk

\* What a removal does to the jobs and to the notes about them.
LEMMA RemovesEffect ==
    ASSUME job \in [JobRuns -> {"none", "up", "gone"}], left \in [JobRuns -> SUBSET Reasons],
           NEW r \in JobRuns, NEW wanted \in BOOLEAN, Removes(r, wanted)
    PROVE  /\ job' \in [JobRuns -> {"none", "up", "gone"}] /\ left' \in [JobRuns -> SUBSET Reasons]
           /\ \A q \in JobRuns \ {r} : job'[q] = job[q] /\ left'[q] = left[q]
           /\ job'[r] = job[r] \/ job'[r] = "gone"
           /\ left'[r] = {} => left[r] = {}
           /\ wanted /\ job'[r] = "up" => left'[r] # {}
  BY DEF Removes, Leaves, Reasons

LEMMA LeavesEffect ==
    ASSUME left \in [JobRuns -> SUBSET Reasons], NEW r \in JobRuns, NEW why \in Reasons,
           Leaves(r, why)
    PROVE  /\ left' \in [JobRuns -> SUBSET Reasons] /\ left'[r] # {}
           /\ \A q \in JobRuns \ {r} : left'[q] = left[q]
  BY DEF Leaves

LEMMA EndsEffect ==
    ASSUME jobRow \in JobRows, NEW r \in JobRuns, Ends(r)
    PROVE  /\ jobRow' \in JobRows /\ jobRow'[r] = [jobRow[r] EXCEPT !.status = "ended"]
           /\ jobRow'[r].status = "ended"
           /\ jobRow'[r].contexts = jobRow[r].contexts /\ jobRow'[r].meta = jobRow[r].meta
           /\ \A q \in JobRuns \ {r} : jobRow'[q] = jobRow[q]
  BY DEF Ends, JobRows

\* What a change to one field of a run's dispatch leaves.
LEMMA StopsEffect ==
    ASSUME NEW contexts, Stops(contexts)
    PROVE  loads' \subseteq loads /\ \A l \in loads' : l.at = Pool \/ job'[l.at] = "up"
  BY DEF Stops

LEMMA JobTypesKept == JobTypes /\ [JobNext]_jobVars => JobTypes'
<1> SUFFICES ASSUME JobTypes, [JobNext]_jobVars PROVE JobTypes'
  OBVIOUS
<1>0. NotDispatched \in OfDispatch
  BY DEF NotDispatched, OfDispatch
<1>a. ASSUME NEW r \in JobRuns
      PROVE  /\ [dispatch EXCEPT ![r] = NotDispatched] \in Dispatches
             /\ [dispatch EXCEPT ![r] = [NotDispatched EXCEPT !.pc = "check"]] \in Dispatches
             /\ \A pc_ \in {"idle", "agents", "check"} : [dispatch EXCEPT ![r].pc = pc_] \in Dispatches
  BY <1>0 DEF JobTypes, Dispatches, OfDispatch
<1>1. ASSUME NEW r \in JobRuns, Claim(r) PROVE JobTypes'
  BY <1>1, <1>a DEF Claim, JobTypes, JobRows
<1>2. ASSUME NEW r \in JobRuns, LaunchJob(r) PROVE JobTypes'
  <2> DEFINE s == dispatch[r].slots + 1
  <2>1. s \in Nat /\ s \in AllSlots
    <3>1. dispatch[r].slots \in Nat /\ dispatch[r].slots < Slots[r]
      BY <1>2 DEF LaunchJob, JobTypes, Dispatches, OfDispatch
    <3>2. s \in 1..Slots[r]
      BY <3>1, SlotsTyped
    <3> QED
      BY <3>2, SlotsTyped
  <2>2. /\ [dispatch EXCEPT ![r].slots = s, ![r].made = @ \cup {s}] \in Dispatches
        /\ [dispatch EXCEPT ![r].slots = s] \in Dispatches
    <3> HIDE DEF s
    <3>1. dispatch[r] \in OfDispatch /\ dispatch \in Dispatches
      BY DEF JobTypes, Dispatches
    <3>2. /\ [dispatch[r] EXCEPT !.slots = s, !.made = @ \cup {s}] \in OfDispatch
          /\ [dispatch[r] EXCEPT !.slots = s] \in OfDispatch
      BY <2>1, <3>1 DEF OfDispatch
    <3> QED
      BY <3>1, <3>2, DispatchChange
  <2> QED
    BY <1>2, <2>1, <2>2 DEF LaunchJob, JobTypes
<1>3. ASSUME NEW r \in JobRuns, NEW s \in 1..Slots[r], Post(r, s) PROVE JobTypes'
  <2> DEFINE load_ == [run |-> r, slot |-> s, try |-> dispatch[r].tries[s], at |-> host[s],
                       job |-> s \in dispatch[r].made]
  <2>1. s \in AllSlots /\ load_ \in Loads
    BY <1>3, SlotsTyped DEF JobTypes, Dispatches, OfDispatch, Loads
  <2>2. [dispatch EXCEPT ![r].tries[s] = @ + 1,
           ![r].failed = IF dispatch[r].tries[s] + 1 = Posts[r] THEN @ \cup {s} ELSE @]
          \in Dispatches
    <3>1. dispatch[r] \in OfDispatch /\ dispatch \in Dispatches
      BY DEF JobTypes, Dispatches
    <3>2. [dispatch[r].tries EXCEPT ![s] = @ + 1] \in [AllSlots -> Nat]
          /\ (IF dispatch[r].tries[s] + 1 = Posts[r] THEN dispatch[r].failed \cup {s}
              ELSE dispatch[r].failed) \in SUBSET AllSlots
      BY <2>1, <3>1 DEF OfDispatch
    <3>3. [dispatch[r] EXCEPT !.tries[s] = @ + 1,
             !.failed = IF dispatch[r].tries[s] + 1 = Posts[r] THEN @ \cup {s} ELSE @]
            \in OfDispatch
      BY <3>1, <3>2 DEF OfDispatch
    <3> DEFINE e == [dispatch[r] EXCEPT !.tries[s] = @ + 1,
                       !.failed = IF dispatch[r].tries[s] + 1 = Posts[r] THEN @ \cup {s} ELSE @]
    <3>4. e \in OfDispatch
      BY <3>3
    <3>5. [dispatch EXCEPT ![r] = e] \in Dispatches
      BY <3>1, <3>4, DispatchChange
    <3>6. [dispatch EXCEPT ![r].tries[s] = @ + 1,
             ![r].failed = IF dispatch[r].tries[s] + 1 = Posts[r] THEN @ \cup {s} ELSE @]
            = [dispatch EXCEPT ![r] = e]
      <4>1. DOMAIN dispatch = JobRuns
        BY <3>1 DEF Dispatches
      <4> QED
        BY <4>1, Zenon
    <3> QED
      BY <3>5, <3>6
  <2>3. [dispatch EXCEPT ![r].answered = @ \cup {load_}] \in Dispatches
    <3> HIDE DEF load_
    <3>1. dispatch[r] \in OfDispatch /\ dispatch \in Dispatches
      BY DEF JobTypes, Dispatches
    <3>2. [dispatch[r] EXCEPT !.answered = @ \cup {load_}] \in OfDispatch
      BY <2>1, <3>1 DEF OfDispatch
    <3> QED
      BY <3>1, <3>2, DispatchChange
  <2> QED
    BY <1>3, <2>1, <2>2, <2>3 DEF Post, JobTypes
<1>4. ASSUME NEW r \in JobRuns, DispatchFails(r) PROVE JobTypes'
  <2>1. jobRow' \in JobRows
    BY <1>4 DEF DispatchFails, JobTypes, JobRows, Dispatches, OfDispatch
  <2> QED
    BY <1>4, <1>a, <2>1, LeavesEffect, StopsEffect DEF DispatchFails, JobTypes, Reasons
<1>5. ASSUME NEW r \in JobRuns, Persist(r) PROVE JobTypes'
  <2>1. jobRow' \in JobRows
    <3>1. dispatch[r].answered \in SUBSET Loads /\ (1 \in dispatch[r].made) \in BOOLEAN
      BY DEF JobTypes, Dispatches, OfDispatch
    <3>2. jobRow' = [jobRow EXCEPT ![r].contexts = dispatch[r].answered,
                                   ![r].meta = 1 \in dispatch[r].made]
      BY <1>5 DEF Persist
    <3>3. \A q \in JobRuns : jobRow[q] \in [status : {"queued", "running", "ended"},
                                            meta : BOOLEAN, contexts : SUBSET Loads]
      BY DEF JobTypes, JobRows
    <3>4. [jobRow[r] EXCEPT !.contexts = dispatch[r].answered, !.meta = 1 \in dispatch[r].made]
            \in [status : {"queued", "running", "ended"}, meta : BOOLEAN, contexts : SUBSET Loads]
      BY <3>1, <3>3
    <3>5. jobRow' = [jobRow EXCEPT ![r] = [jobRow[r] EXCEPT !.contexts = dispatch[r].answered,
                                                            !.meta = 1 \in dispatch[r].made]]
      BY <3>2 DEF JobTypes, JobRows
    <3> QED
      BY <3>4, <3>5 DEF JobTypes, JobRows
  <2> QED
    BY <1>5, <1>a, <2>1, LeavesEffect DEF Persist, JobTypes, Reasons
<1>6. ASSUME NEW r \in JobRuns, StartPoll(r) PROVE JobTypes'
  <2>1. jobRow[r].meta \in BOOLEAN
    BY DEF JobTypes, JobRows
  <2>2. dispatch' \in Dispatches /\ UNCHANGED <<host, bulk>>
    BY <1>6, <1>a DEF StartPoll
  <2>3. CASE Leaves(r, "stopped") /\ UNCHANGED <<jobRow, job, loads, polling>>
    BY <2>2, <2>3, LeavesEffect DEF JobTypes, Reasons
  <2>4. CASE polling' = [polling EXCEPT ![r] = "sent"] /\ UNCHANGED <<jobRow, job, loads, left>>
    BY <2>2, <2>4 DEF JobTypes
  <2>5. CASE Ends(r) /\ Removes(r, jobRow[r].meta) /\ Stops({}) /\ UNCHANGED polling
    <3>1. jobRow' \in JobRows
      BY <2>5, EndsEffect DEF JobTypes
    <3>2. job' \in [JobRuns -> {"none", "up", "gone"}] /\ left' \in [JobRuns -> SUBSET Reasons]
      BY <2>1, <2>5, RemovesEffect DEF JobTypes
    <3>3. loads' \subseteq Loads
      BY <2>5, StopsEffect DEF JobTypes
    <3> QED
      BY <2>2, <2>5, <3>1, <3>2, <3>3 DEF JobTypes
  <2> QED
    BY <1>6, <2>3, <2>4, <2>5 DEF StartPoll
<1>7. ASSUME NEW r \in JobRuns, WorkerDiesInDispatch(r) \/ PollDies(r) PROVE JobTypes'
  BY <1>7, <1>a, LeavesEffect DEF WorkerDiesInDispatch, PollDies, JobTypes, Reasons
<1>8. ASSUME NEW r \in JobRuns, PollEnded(r) PROVE JobTypes'
  BY <1>8, StopsEffect, RemovesEffect DEF PollEnded, JobTypes
<1>9. ASSUME NEW r \in JobRuns, PollEnds(r) PROVE JobTypes'
  BY <1>9, StopsEffect, RemovesEffect, EndsEffect DEF PollEnds, JobTypes
<1>10. ASSUME NEW r \in JobRuns, UserStops(r) PROVE JobTypes'
  BY <1>10, StopsEffect, EndsEffect DEF UserStops, JobTypes
<1>11. ASSUME NEW r \in JobRuns, Watchdog(r) PROVE JobTypes'
  <2>1. jobRow[r].meta \in BOOLEAN
    BY DEF JobTypes, JobRows
  <2> QED
    BY <1>11, <2>1, StopsEffect, RemovesEffect, EndsEffect DEF Watchdog, JobTypes
<1>12. ASSUME NEW l \in loads, JobLoadEnds(l) PROVE JobTypes'
  BY <1>12 DEF JobLoadEnds, JobTypes
<1>13. CASE BulkLooks
  BY <1>13 DEF BulkLooks, JobTypes, NoBulk
<1>14. ASSUME NEW c, BulkTells(c) PROVE JobTypes'
  <2>1. c \in Loads
    BY <1>14 DEF BulkTells, Known, JobTypes, JobRows
  <2> QED
    BY <1>14, <2>1 DEF BulkTells, JobTypes
<1>15. CASE BulkWrites
  <2>1. jobRow' \in JobRows
    BY <1>15 DEF BulkWrites, JobTypes, JobRows
  <2> QED
    BY <1>15, <2>1 DEF BulkWrites, JobTypes
<1>16. CASE UNCHANGED jobVars
  BY <1>16 DEF jobVars, JobTypes
<1> QED
  BY <1>1, <1>2, <1>3, <1>4, <1>5, <1>6, <1>7, <1>8, <1>9, <1>10, <1>11, <1>12, <1>13, <1>14,
     <1>15, <1>16 DEF JobNext
-----------------------------------------------------------------------------
(* The job of one run *)

\* What each state of a run's dispatch and poll says of its row, its job and its requests.
RunOfJob(r) ==
    /\ jobRow[r].status = "queued" => job[r] = "none" /\ dispatch[r].pc = "idle"
                                      /\ polling[r] = "none" /\ jobRow[r].contexts = {}
    /\ dispatch[r].pc = "agents" => jobRow[r].contexts = {}
    /\ dispatch[r].pc # "idle" => polling[r] = "none"
    /\ dispatch[r].pc # "agents" => dispatch[r].made = {} /\ dispatch[r].answered = {}
                                    /\ dispatch[r].slots = 0 /\ dispatch[r].failed = {}
                                    /\ \A s \in 1..Slots[r] : dispatch[r].tries[s] = 0
RequestsOfRun(r) ==
    /\ dispatch[r].slots <= Slots[r] /\ dispatch[r].made \subseteq 1..dispatch[r].slots
    /\ \A c \in dispatch[r].answered : /\ c.run = r /\ c.slot \in 1..dispatch[r].slots
                                       /\ c.job <=> c.slot \in dispatch[r].made
    /\ \A c \in jobRow[r].contexts : c.run = r
    /\ \A s \in 1..Slots[r] : s \notin dispatch[r].failed => dispatch[r].tries[s] < Posts[r]
\* A running run's job is up from when it is made; a job that is up was made by the dispatch.
JobOfRunning(r) ==
    /\ Running(r) /\ (dispatch[r].made # {} \/ OwnJob(r) # {}) => job[r] = "up"
    /\ job[r] = "up" /\ dispatch[r].pc = "agents" => dispatch[r].made # {}
\* While no exception has been noted, somebody will still remove a job that is up: the
\* dispatch, with what the row says of the job, or the poll.
SomeoneRemoves(r) ==
    job[r] = "up" /\ left[r] = {} =>
        \/ dispatch[r].pc = "agents"
        \/ dispatch[r].pc = "check" /\ jobRow[r].meta /\ OwnJob(r) # {}
        \/ polling[r] = "sent" /\ OwnJob(r) # {}

JobInv(r) == RunOfJob(r) /\ RequestsOfRun(r) /\ JobOfRunning(r) /\ SomeoneRemoves(r)

\* Loads are in jobs that are there, and each was asked for by a request that was due.
LoadsAreServed ==
    /\ \A l \in loads : l.at = Pool \/ job[l.at] = "up"
    /\ \A l \in loads : l.try < Posts[l.run]
\* What the stop of all runs has been told of is of runs whose dispatch is over.
ToldIsOver ==
    /\ bulk.told \cap loads = {}
    /\ \A c \in bulk.told : jobRow[c.run].status # "queued" /\ dispatch[c.run].pc # "agents"
    /\ bulk.pc = "done" => \A r \in bulk.runs : jobRow[r].status = "ended"

LEMMA JobInvFrame ==
    ASSUME NEW r \in JobRuns, JobInv(r), jobRow'[r] = jobRow[r], job'[r] = job[r],
           dispatch'[r] = dispatch[r], polling'[r] = polling[r], left'[r] = left[r]
    PROVE  JobInv(r)'
  BY DEF JobInv, RunOfJob, RequestsOfRun, JobOfRunning, SomeoneRemoves, Running, OwnJob

LEMMA JobInvInit == ASSUME NEW waiting, JobInit(waiting), NEW r \in JobRuns PROVE JobInv(r)
<1>1. /\ jobRow[r].status \in {"queued", "ended"} /\ jobRow[r].contexts = {} /\ job[r] = "none"
      /\ dispatch[r] = NotDispatched /\ polling[r] = "none"
  BY DEF JobInit
<1>2. \A s \in 1..Slots[r] : NotDispatched.tries[s] = 0
  BY SlotsTyped DEF NotDispatched
<1>3. /\ NotDispatched.pc = "idle" /\ NotDispatched.made = {} /\ NotDispatched.answered = {}
      /\ NotDispatched.slots = 0 /\ NotDispatched.failed = {}
  BY DEF NotDispatched
<1> QED
  BY <1>1, <1>2, <1>3, SlotsTyped
     DEF JobInv, RunOfJob, RequestsOfRun, JobOfRunning, SomeoneRemoves, Running, OwnJob

\* A run whose dispatch is put back to its beginning, or to the check after it.
LEMMA DispatchOver ==
    ASSUME dispatch \in Dispatches, NEW r \in JobRuns,
           \/ dispatch' = [dispatch EXCEPT ![r] = NotDispatched]
           \/ dispatch' = [dispatch EXCEPT ![r] = [NotDispatched EXCEPT !.pc = "check"]]
    PROVE  /\ dispatch'[r].pc \in {"idle", "check"}
           /\ dispatch' = [dispatch EXCEPT ![r] = NotDispatched] => dispatch'[r].pc = "idle"
           /\ dispatch' = [dispatch EXCEPT ![r] = [NotDispatched EXCEPT !.pc = "check"]]
                => dispatch'[r].pc = "check"
           /\ dispatch'[r].made = {} /\ dispatch'[r].answered = {} /\ dispatch'[r].slots = 0
           /\ dispatch'[r].failed = {} /\ \A s \in 1..Slots[r] : dispatch'[r].tries[s] = 0
           /\ \A q \in JobRuns \ {r} : dispatch'[q] = dispatch[q]
<1>1. dispatch'[r] \in {NotDispatched, [NotDispatched EXCEPT !.pc = "check"]}
  BY DEF Dispatches
<1>2. \A e \in {NotDispatched, [NotDispatched EXCEPT !.pc = "check"]} :
        /\ e.pc \in {"idle", "check"} /\ e.made = {} /\ e.answered = {} /\ e.slots = 0
        /\ e.failed = {} /\ \A s \in AllSlots : e.tries[s] = 0
  BY DEF NotDispatched
<1>3. NotDispatched.pc = "idle" /\ [NotDispatched EXCEPT !.pc = "check"].pc = "check"
  BY DEF NotDispatched
<1> QED
  BY <1>1, <1>2, <1>3, SlotsTyped DEF Dispatches

LEMMA JobInvDispatch ==
    ASSUME JobTypes, \A q \in JobRuns : JobInv(q), NEW r \in JobRuns,
           Claim(r) \/ LaunchJob(r) \/ DispatchFails(r) \/ Persist(r) \/ WorkerDiesInDispatch(r)
           \/ (\E s \in 1..Slots[r] : Post(r, s))
    PROVE  \A q \in JobRuns : JobInv(q)'
<1>0. /\ jobRow \in JobRows /\ job \in [JobRuns -> {"none", "up", "gone"}]
      /\ dispatch \in Dispatches /\ polling \in [JobRuns -> {"none", "sent", "dead"}]
      /\ left \in [JobRuns -> SUBSET Reasons]
  BY DEF JobTypes
<1>a. /\ dispatch[r] \in OfDispatch /\ dispatch[r].slots \in Nat /\ JobInv(r)
      /\ Slots[r] \in Nat \ {0} /\ Posts[r] \in Nat \ {0} /\ 1..Slots[r] \subseteq AllSlots
  <2>1. dispatch[r] \in OfDispatch
    BY <1>0 DEF Dispatches
  <2>2. dispatch[r].slots \in Nat
    BY <2>1 DEF OfDispatch
  <2> QED
    BY <2>1, <2>2, SlotsTyped
<1> USE DEF RunOfJob, RequestsOfRun, JobOfRunning, SomeoneRemoves, Running, OwnJob
\* The others are left alone.
<1>b. ASSUME \A q \in JobRuns \ {r} : /\ jobRow'[q] = jobRow[q] /\ job'[q] = job[q]
                                      /\ dispatch'[q] = dispatch[q] /\ polling'[q] = polling[q]
                                      /\ left'[q] = left[q],
             JobInv(r)'
      PROVE  \A q \in JobRuns : JobInv(q)'
  BY <1>b, JobInvFrame
<1>1. CASE Claim(r)
  <2>1. /\ jobRow'[r] = [jobRow[r] EXCEPT !.status = "running"]
        /\ dispatch'[r] = [dispatch[r] EXCEPT !.pc = "agents"]
        /\ UNCHANGED <<job, polling, left>> /\ jobRow[r].status = "queued"
        /\ \A q \in JobRuns \ {r} : jobRow'[q] = jobRow[q] /\ dispatch'[q] = dispatch[q]
    BY <1>0, <1>1 DEF Claim, JobRows, Dispatches
  <2>2. /\ jobRow'[r].status = "running" /\ jobRow'[r].contexts = jobRow[r].contexts
        /\ dispatch'[r].pc = "agents" /\ dispatch'[r].made = dispatch[r].made
        /\ dispatch'[r].answered = dispatch[r].answered /\ dispatch'[r].slots = dispatch[r].slots
        /\ dispatch'[r].failed = dispatch[r].failed /\ dispatch'[r].tries = dispatch[r].tries
    BY <1>0, <1>a, <2>1 DEF JobRows, OfDispatch
  <2>3. JobInv(r)'
    BY <1>a, <2>1, <2>2 DEF JobInv
  <2> QED
    BY <1>b, <2>1, <2>3
<1>2. CASE LaunchJob(r)
  <2> DEFINE s == dispatch[r].slots + 1
  <2>1. /\ UNCHANGED <<jobRow, polling, left>> /\ dispatch[r].pc = "agents"
        /\ dispatch[r].slots < Slots[r]
        /\ \A q \in JobRuns \ {r} : dispatch'[q] = dispatch[q] /\ job'[q] = job[q]
        /\ dispatch'[r].slots = s /\ dispatch'[r].pc = dispatch[r].pc
        /\ dispatch'[r].answered = dispatch[r].answered
        /\ dispatch'[r].failed = dispatch[r].failed /\ dispatch'[r].tries = dispatch[r].tries
        /\ \/ dispatch'[r].made = dispatch[r].made \cup {s} /\ job'[r] = "up"
           \/ dispatch'[r].made = dispatch[r].made /\ job'[r] = job[r]
    BY <1>0, <1>a, <1>2 DEF LaunchJob, Dispatches, OfDispatch
  <2>2. \A c \in dispatch[r].answered : c.slot \in 1..dispatch[r].slots
    BY <1>a DEF JobInv
  <2>3. s \notin 1..dispatch[r].slots /\ 1..dispatch[r].slots \subseteq 1..s /\ s \in 1..s
        /\ s <= Slots[r]
    BY <1>a, <2>1
  <2> HIDE DEF s
  <2>4. RunOfJob(r)' /\ JobOfRunning(r)' /\ SomeoneRemoves(r)'
    BY <1>a, <2>1 DEF JobInv
  <2>5. RequestsOfRun(r)'
    BY <1>a, <2>1, <2>2, <2>3 DEF JobInv
  <2> QED
    BY <1>b, <2>1, <2>4, <2>5 DEF JobInv
<1>3. ASSUME NEW s \in 1..Slots[r], Post(r, s) PROVE \A q \in JobRuns : JobInv(q)'
  <2> DEFINE load_ == [run |-> r, slot |-> s, try |-> dispatch[r].tries[s], at |-> host[s],
                       job |-> s \in dispatch[r].made]
  <2>1. /\ UNCHANGED <<jobRow, job, polling, left>> /\ dispatch[r].pc = "agents"
        /\ s <= dispatch[r].slots /\ s \notin dispatch[r].failed
    BY <1>3 DEF Post, Open
  <2>2. dispatch[r].tries[s] \in Nat /\ dispatch[r].tries[s] < Posts[r] /\ s \in AllSlots
    BY <1>a, <2>1 DEF JobInv, OfDispatch
  <2>3. \/ dispatch' = [dispatch EXCEPT ![r].answered = @ \cup {load_}]
        \/ dispatch' = [dispatch EXCEPT ![r].tries[s] = @ + 1,
             ![r].failed = IF dispatch[r].tries[s] + 1 = Posts[r] THEN @ \cup {s} ELSE @]
    BY <1>3 DEF Post
  <2>4. load_.run = r /\ load_.slot = s /\ load_.job = (s \in dispatch[r].made)
    OBVIOUS
  <2> HIDE DEF load_
  <2>5. /\ \A q \in JobRuns \ {r} : dispatch'[q] = dispatch[q]
        /\ dispatch'[r].slots = dispatch[r].slots /\ dispatch'[r].made = dispatch[r].made
        /\ dispatch'[r].pc = dispatch[r].pc
        /\ \/ /\ dispatch'[r].answered = dispatch[r].answered \cup {load_}
              /\ dispatch'[r].tries = dispatch[r].tries /\ dispatch'[r].failed = dispatch[r].failed
           \/ /\ dispatch'[r].answered = dispatch[r].answered
              /\ dispatch'[r].tries = [dispatch[r].tries EXCEPT ![s] = @ + 1]
              /\ dispatch'[r].failed = IF dispatch[r].tries[s] + 1 = Posts[r]
                                       THEN dispatch[r].failed \cup {s} ELSE dispatch[r].failed
    <3>1. CASE dispatch' = [dispatch EXCEPT ![r].answered = @ \cup {load_}]
      BY <1>0, <1>a, <3>1 DEF Dispatches, OfDispatch
    <3>2. CASE dispatch' = [dispatch EXCEPT ![r].tries[s] = @ + 1,
             ![r].failed = IF dispatch[r].tries[s] + 1 = Posts[r] THEN @ \cup {s} ELSE @]
      <4> DEFINE e == [dispatch[r] EXCEPT !.tries[s] = @ + 1,
                         !.failed = IF dispatch[r].tries[s] + 1 = Posts[r] THEN @ \cup {s} ELSE @]
      <4>1. DOMAIN dispatch = JobRuns
        BY <1>0 DEF Dispatches
      <4>2. dispatch' = [dispatch EXCEPT ![r] = e]
        BY <3>2, <4>1, Zenon
      <4>3. /\ e.slots = dispatch[r].slots /\ e.made = dispatch[r].made /\ e.pc = dispatch[r].pc
            /\ e.answered = dispatch[r].answered
            /\ e.tries = [dispatch[r].tries EXCEPT ![s] = @ + 1]
            /\ e.failed = IF dispatch[r].tries[s] + 1 = Posts[r]
                          THEN dispatch[r].failed \cup {s} ELSE dispatch[r].failed
        BY <1>a DEF OfDispatch
      <4> HIDE DEF e
      <4>4. dispatch'[r] = e /\ \A q \in JobRuns \ {r} : dispatch'[q] = dispatch[q]
        BY <4>1, <4>2
      <4> QED
        BY <4>3, <4>4
    <3> QED
      BY <2>3, <3>1, <3>2
  <2>6. RunOfJob(r)' /\ JobOfRunning(r)' /\ SomeoneRemoves(r)'
    BY <1>a, <2>1, <2>5 DEF JobInv
  <2>7. \A t \in 1..Slots[r] : t \notin dispatch'[r].failed => dispatch'[r].tries[t] < Posts[r]
    <3>1. \A t \in 1..Slots[r] : t \in AllSlots /\ dispatch[r].tries[t] \in Nat
                                 /\ (t \notin dispatch[r].failed => dispatch[r].tries[t] < Posts[r])
      BY <1>a DEF JobInv, OfDispatch
    <3>2. dispatch[r].tries \in [AllSlots -> Nat]
      BY <1>a DEF OfDispatch
    <3> QED
      BY <1>a, <2>2, <2>5, <3>1, <3>2
  <2>8. \A c \in dispatch'[r].answered : /\ c.run = r /\ c.slot \in 1..dispatch[r].slots
                                         /\ c.job <=> c.slot \in dispatch[r].made
    <3>1. s \in 1..dispatch[r].slots
      BY <1>a, <2>1
    <3>2. \A c \in dispatch[r].answered : /\ c.run = r /\ c.slot \in 1..dispatch[r].slots
                                          /\ c.job <=> c.slot \in dispatch[r].made
      BY <1>a DEF JobInv
    <3>3. \A c \in dispatch'[r].answered : c \in dispatch[r].answered \/ c = load_
      BY <2>5
    <3>4. /\ load_.run = r /\ load_.slot \in 1..dispatch[r].slots
          /\ load_.job <=> load_.slot \in dispatch[r].made
      BY <2>4, <3>1
    <3> QED
      BY <3>2, <3>3, <3>4
  <2>9. RequestsOfRun(r)'
    BY <1>a, <2>1, <2>5, <2>7, <2>8 DEF JobInv
  <2> QED
    BY <1>b, <2>1, <2>5, <2>6, <2>9 DEF JobInv
<1>4. CASE DispatchFails(r)
  <2>1. /\ jobRow'[r] = [status |-> "ended", meta |-> FALSE, contexts |-> dispatch[r].answered]
        /\ \A q \in JobRuns \ {r} : jobRow'[q] = jobRow[q]
        /\ UNCHANGED <<job, polling>> /\ dispatch[r].pc = "agents"
        /\ dispatch' = [dispatch EXCEPT ![r] = NotDispatched]
    BY <1>0, <1>4 DEF DispatchFails, JobRows, Settled
  <2>2. left'[r] # {} /\ \A q \in JobRuns \ {r} : left'[q] = left[q]
    BY <1>0, <1>4, LeavesEffect DEF DispatchFails, Reasons
  <2>3. jobRow'[r].status = "ended" /\ jobRow'[r].contexts = dispatch[r].answered
    BY <2>1
  <2>4. JobInv(r)'
    <3>1. /\ dispatch'[r].pc = "idle" /\ dispatch'[r].made = {} /\ dispatch'[r].answered = {}
          /\ dispatch'[r].slots = 0 /\ dispatch'[r].failed = {}
          /\ (\A s \in 1..Slots[r] : dispatch'[r].tries[s] = 0)
      BY <1>0, <2>1, DispatchOver
    <3>2. RunOfJob(r)' /\ JobOfRunning(r)' /\ SomeoneRemoves(r)'
      BY <1>a, <2>1, <2>2, <2>3, <3>1 DEF JobInv
    <3>3. RequestsOfRun(r)'
      BY <1>a, <2>3, <3>1 DEF JobInv
    <3> QED
      BY <3>2, <3>3 DEF JobInv
  <2> QED
    BY <1>0, <1>b, <2>1, <2>2, <2>4, DispatchOver
<1>5. CASE Persist(r)
  <2>1. /\ jobRow'[r].status = jobRow[r].status /\ jobRow'[r].contexts = dispatch[r].answered
        /\ jobRow'[r].meta = (1 \in dispatch[r].made)
        /\ \A q \in JobRuns \ {r} : jobRow'[q] = jobRow[q]
    BY <1>0, <1>5 DEF Persist, JobRows
  <2>2. /\ UNCHANGED <<job, polling>> /\ dispatch[r].pc = "agents" /\ Settled(r)
        /\ dispatch[r].failed = {}
        /\ dispatch' = [dispatch EXCEPT ![r] = [NotDispatched EXCEPT !.pc = "check"]]
    BY <1>5 DEF Persist, Settled
  <2>3. /\ left'[r] = {} => left[r] = {} /\ dispatch[r].made \in {{}, 1..Slots[r]}
        /\ \A q \in JobRuns \ {r} : left'[q] = left[q]
    BY <1>0, <1>5, LeavesEffect DEF Persist, Reasons
  <2>4. \A s \in 1..Slots[r] : \E c \in dispatch[r].answered : c.slot = s
    BY <1>a, <2>2 DEF Settled, Open
  <2>5. job[r] = "up" /\ left'[r] = {} =>
          1 \in dispatch[r].made /\ \E c \in dispatch[r].answered : c.job
    <3>1. SUFFICES ASSUME job[r] = "up", left'[r] = {}
                   PROVE  1 \in dispatch[r].made /\ \E c \in dispatch[r].answered : c.job
      OBVIOUS
    <3>2. dispatch[r].made = 1..Slots[r]
      BY <1>a, <2>2, <2>3, <3>1 DEF JobInv
    <3>3. 1 \in 1..Slots[r]
      BY <1>a
    <3>4. PICK c \in dispatch[r].answered : c.slot = 1
      BY <2>4, <3>3
    <3>5. c.job <=> c.slot \in dispatch[r].made
      BY <1>a DEF JobInv
    <3> QED
      BY <3>2, <3>3, <3>4, <3>5
  <2>6. dispatch'[r].pc = "check" /\ dispatch'[r].made = {} /\ dispatch'[r].answered = {}
        /\ dispatch'[r].slots = 0 /\ dispatch'[r].failed = {}
        /\ (\A s \in 1..Slots[r] : dispatch'[r].tries[s] = 0)
        /\ \A q \in JobRuns \ {r} : dispatch'[q] = dispatch[q]
    BY <1>0, <2>2, DispatchOver
  <2>7. RunOfJob(r)' /\ RequestsOfRun(r)'
    BY <1>a, <2>1, <2>2, <2>6 DEF JobInv
  <2>8. JobOfRunning(r)'
    <3>1. \A c \in dispatch[r].answered : c.job => dispatch[r].made # {}
      BY <1>a DEF JobInv
    <3> QED
      BY <1>a, <2>1, <2>2, <2>6, <3>1 DEF JobInv
  <2>9. SomeoneRemoves(r)'
    BY <2>1, <2>2, <2>5, <2>6
  <2> QED
    BY <1>b, <2>1, <2>2, <2>3, <2>6, <2>7, <2>8, <2>9 DEF JobInv
<1>6. CASE WorkerDiesInDispatch(r)
  <2>1. UNCHANGED <<jobRow, job, polling>> /\ dispatch[r].pc # "idle"
        /\ dispatch' = [dispatch EXCEPT ![r] = NotDispatched]
    BY <1>6 DEF WorkerDiesInDispatch
  <2>2. left'[r] # {} /\ \A q \in JobRuns \ {r} : left'[q] = left[q]
    BY <1>0, <1>6, LeavesEffect DEF WorkerDiesInDispatch, Reasons
  <2>3. /\ dispatch'[r].pc = "idle" /\ dispatch'[r].made = {} /\ dispatch'[r].answered = {}
        /\ dispatch'[r].slots = 0 /\ dispatch'[r].failed = {}
        /\ (\A s \in 1..Slots[r] : dispatch'[r].tries[s] = 0)
        /\ \A q \in JobRuns \ {r} : dispatch'[q] = dispatch[q]
    BY <1>0, <2>1, DispatchOver
  <2>4. JobInv(r)'
    BY <1>a, <2>1, <2>2, <2>3 DEF JobInv
  <2> QED
    BY <1>b, <2>1, <2>2, <2>3, <2>4
<1> QED
  BY <1>1, <1>2, <1>3, <1>4, <1>5, <1>6

LEMMA JobInvEnds ==
    ASSUME JobTypes, \A q \in JobRuns : JobInv(q), NEW r \in JobRuns,
           StartPoll(r) \/ PollEnded(r) \/ PollEnds(r) \/ PollDies(r) \/ UserStops(r) \/ Watchdog(r)
    PROVE  \A q \in JobRuns : JobInv(q)'
<1> USE DEF RunOfJob, RequestsOfRun, JobOfRunning, SomeoneRemoves, Running, OwnJob
<1>0. /\ jobRow \in JobRows /\ job \in [JobRuns -> {"none", "up", "gone"}]
      /\ dispatch \in Dispatches /\ polling \in [JobRuns -> {"none", "sent", "dead"}]
      /\ left \in [JobRuns -> SUBSET Reasons] /\ jobRow[r].meta \in BOOLEAN
  BY DEF JobTypes, JobRows
<1>a. JobInv(r) /\ dispatch[r] \in OfDispatch
  BY <1>0 DEF Dispatches
<1>b. ASSUME \A q \in JobRuns \ {r} : /\ jobRow'[q] = jobRow[q] /\ job'[q] = job[q]
                                      /\ dispatch'[q] = dispatch[q] /\ polling'[q] = polling[q]
                                      /\ left'[q] = left[q],
             JobInv(r)'
      PROVE  \A q \in JobRuns : JobInv(q)'
  BY <1>b, JobInvFrame
\* A run that ends while its job is removed, or is no longer anybody's to remove.
<1>c. ASSUME UNCHANGED dispatch, NEW wanted \in BOOLEAN, Removes(r, wanted),
             jobRow'[r].status = "ended", jobRow'[r].contexts = jobRow[r].contexts,
             polling' = polling \/ polling' = [polling EXCEPT ![r] = "none"],
             jobRow'[r].meta = jobRow[r].meta,
             polling' # polling => wanted \/ OwnJob(r) = {}
      PROVE  JobInv(r)'
  <2>1. /\ job'[r] = job[r] \/ job'[r] = "gone"
        /\ left'[r] = {} => left[r] = {}
        /\ wanted /\ job'[r] = "up" => left'[r] # {}
    BY <1>0, <1>c, RemovesEffect
  <2>2. polling'[r] \in {polling[r], "none"}
    BY <1>0, <1>c
  <2>3. RunOfJob(r)' /\ RequestsOfRun(r)' /\ JobOfRunning(r)'
    BY <1>a, <1>c, <2>1, <2>2 DEF JobInv
  <2>4. SomeoneRemoves(r)'
    <3>1. CASE polling' = polling
      BY <1>a, <1>c, <2>1, <3>1 DEF JobInv
    <3>2. CASE polling' # polling
      BY <1>a, <1>c, <2>1, <3>2 DEF JobInv
    <3> QED
      BY <3>1, <3>2
  <2> QED
    BY <2>3, <2>4 DEF JobInv
<1>1. CASE StartPoll(r)
  <2>1. dispatch[r].pc = "check" /\ dispatch' = [dispatch EXCEPT ![r].pc = "idle"]
    BY <1>1 DEF StartPoll
  <2>2. /\ dispatch'[r].pc = "idle" /\ dispatch'[r].made = dispatch[r].made
        /\ dispatch'[r].answered = dispatch[r].answered /\ dispatch'[r].slots = dispatch[r].slots
        /\ dispatch'[r].failed = dispatch[r].failed /\ dispatch'[r].tries = dispatch[r].tries
        /\ \A q \in JobRuns \ {r} : dispatch'[q] = dispatch[q]
    BY <1>0, <1>a, <2>1 DEF Dispatches, OfDispatch
  <2>3. CASE Leaves(r, "stopped") /\ UNCHANGED <<jobRow, job, loads, polling>> /\ ~Running(r)
    <3>1. left'[r] # {} /\ \A q \in JobRuns \ {r} : left'[q] = left[q]
      BY <1>0, <2>3, LeavesEffect DEF Reasons
    <3>2. JobInv(r)'
      BY <1>a, <2>1, <2>2, <2>3, <3>1 DEF JobInv
    <3> QED
      BY <1>b, <2>2, <2>3, <3>1, <3>2
  <2>4. CASE polling' = [polling EXCEPT ![r] = "sent"] /\ UNCHANGED <<jobRow, job, left>> /\ Running(r)
    <3>1. polling'[r] = "sent" /\ \A q \in JobRuns \ {r} : polling'[q] = polling[q]
      BY <1>0, <2>4
    <3>2. JobInv(r)'
      BY <1>a, <2>1, <2>2, <2>4, <3>1 DEF JobInv
    <3> QED
      BY <1>b, <2>2, <2>4, <3>1, <3>2
  <2>5. CASE Ends(r) /\ Removes(r, jobRow[r].meta) /\ UNCHANGED polling
    <3>1. /\ jobRow'[r].status = "ended" /\ jobRow'[r].contexts = jobRow[r].contexts
          /\ \A q \in JobRuns \ {r} : jobRow'[q] = jobRow[q]
      BY <1>0, <2>5, EndsEffect
    <3>2. /\ job'[r] = job[r] \/ job'[r] = "gone"
          /\ left'[r] = {} => left[r] = {}
          /\ jobRow[r].meta /\ job'[r] = "up" => left'[r] # {}
          /\ \A q \in JobRuns \ {r} : job'[q] = job[q] /\ left'[q] = left[q]
      BY <1>0, <2>5, RemovesEffect
    <3>3. JobInv(r)'
      BY <1>a, <2>1, <2>2, <2>5, <3>1, <3>2 DEF JobInv
    <3> QED
      BY <1>b, <2>2, <2>5, <3>1, <3>2, <3>3
  <2> QED
    BY <1>1, <2>3, <2>4, <2>5 DEF StartPoll
<1>2. CASE PollEnded(r)
  <2>1. /\ UNCHANGED <<jobRow, dispatch>> /\ Removes(r, OwnJob(r) # {})
        /\ polling' = [polling EXCEPT ![r] = "none"] /\ polling[r] = "sent" /\ ~Running(r)
    BY <1>2 DEF PollEnded
  <2>2. jobRow'[r].status = "ended"
    BY <1>0, <1>a, <2>1 DEF JobInv, JobRows
  <2>3. JobInv(r)'
    BY <1>c, <2>1, <2>2
  <2>4. \A q \in JobRuns \ {r} : job'[q] = job[q] /\ left'[q] = left[q]
    BY <1>0, <2>1, RemovesEffect
  <2> QED
    BY <1>0, <1>b, <2>1, <2>3, <2>4
<1>3. CASE PollEnds(r) \/ Watchdog(r)
  <2>1. PICK wanted \in BOOLEAN :
          /\ Ends(r) /\ Removes(r, wanted) /\ UNCHANGED dispatch
          /\ polling' = polling \/ (polling' = [polling EXCEPT ![r] = "none"] /\ wanted = (OwnJob(r) # {}))
    BY <1>0, <1>3 DEF PollEnds, Watchdog
  <2>2. /\ jobRow'[r].status = "ended" /\ jobRow'[r].contexts = jobRow[r].contexts
        /\ jobRow'[r].meta = jobRow[r].meta
        /\ \A q \in JobRuns \ {r} : jobRow'[q] = jobRow[q]
    BY <1>0, <2>1, EndsEffect
  <2>3. JobInv(r)'
    BY <1>c, <2>1, <2>2
  <2>4. \A q \in JobRuns \ {r} : job'[q] = job[q] /\ left'[q] = left[q]
    BY <1>0, <2>1, RemovesEffect
  <2> QED
    BY <1>0, <1>b, <2>1, <2>2, <2>3, <2>4
<1>4. CASE PollDies(r)
  <2>1. /\ UNCHANGED <<jobRow, job, dispatch>> /\ polling[r] = "sent"
        /\ polling'[r] = "dead" /\ \A q \in JobRuns \ {r} : polling'[q] = polling[q]
    BY <1>0, <1>4 DEF PollDies
  <2>2. left'[r] # {} /\ \A q \in JobRuns \ {r} : left'[q] = left[q]
    BY <1>0, <1>4, LeavesEffect DEF PollDies, Reasons
  <2>3. JobInv(r)'
    BY <1>a, <2>1, <2>2 DEF JobInv
  <2> QED
    BY <1>b, <2>1, <2>2, <2>3
<1>5. CASE UserStops(r)
  <2>1. /\ UNCHANGED <<job, dispatch, polling, left>> /\ jobRow'[r].status = "ended"
        /\ jobRow'[r].contexts = jobRow[r].contexts /\ jobRow'[r].meta = jobRow[r].meta
        /\ \A q \in JobRuns \ {r} : jobRow'[q] = jobRow[q]
    BY <1>0, <1>5, EndsEffect DEF UserStops
  <2>2. JobInv(r)'
    BY <1>a, <2>1 DEF JobInv
  <2> QED
    BY <1>b, <2>1, <2>2
<1> QED
  BY <1>1, <1>2, <1>3, <1>4, <1>5

LEMMA JobInvKept ==
    JobTypes /\ (\A q \in JobRuns : JobInv(q)) /\ [JobNext]_jobVars => \A q \in JobRuns : JobInv(q)'
<1> SUFFICES ASSUME JobTypes, \A q \in JobRuns : JobInv(q), [JobNext]_jobVars
             PROVE  \A q \in JobRuns : JobInv(q)'
  OBVIOUS
<1>1. ASSUME UNCHANGED <<jobRow, job, dispatch, polling, left>>
      PROVE  \A q \in JobRuns : JobInv(q)'
  BY <1>1, JobInvFrame
<1>2. ASSUME NEW l, JobLoadEnds(l) PROVE \A q \in JobRuns : JobInv(q)'
  BY <1>1, <1>2 DEF JobLoadEnds
<1>3. ASSUME NEW c, BulkTells(c) PROVE \A q \in JobRuns : JobInv(q)'
  BY <1>1, <1>3 DEF BulkTells
<1>4. CASE BulkLooks \/ UNCHANGED jobVars
  BY <1>1, <1>4 DEF BulkLooks, jobVars
<1>5. CASE BulkWrites
  <2>1. ASSUME NEW r \in JobRuns PROVE JobInv(r)'
    <3>1. /\ jobRow'[r].contexts = jobRow[r].contexts /\ jobRow'[r].meta = jobRow[r].meta
          /\ jobRow'[r].status \in {jobRow[r].status, "ended"}
          /\ UNCHANGED <<job, dispatch, polling, left>> /\ JobInv(r)
      BY <1>5 DEF BulkWrites, JobTypes, JobRows
    <3> QED
      BY <3>1 DEF JobInv, RunOfJob, RequestsOfRun, JobOfRunning, SomeoneRemoves, Running, OwnJob
  <2> QED
    BY <2>1
<1> QED
  BY <1>2, <1>3, <1>4, <1>5, JobInvDispatch, JobInvEnds DEF JobNext
-----------------------------------------------------------------------------
(* The loads, and the stop of all runs *)

\* What a step does to the loads: it adds the request of a run that is being dispatched, in a
\* job that is there, or takes some away, with those whose jobs are gone.
LEMMA LoadSteps ==
    ASSUME JobTypes, \A q \in JobRuns : JobInv(q), LoadsAreServed, [JobNext]_jobVars
    PROVE  /\ \A l \in loads' \ loads : /\ l.run \in JobRuns /\ dispatch[l.run].pc = "agents"
                                        /\ l.try < Posts[l.run]
           /\ \A l \in loads' : l.at = Pool \/ job'[l.at] = "up"
<1>0. /\ loads \subseteq Loads /\ job \in [JobRuns -> {"none", "up", "gone"}]
      /\ \A l \in loads : l.at = Pool \/ (l.at \in JobRuns /\ job[l.at] = "up")
  BY DEF JobTypes, LoadsAreServed, Loads
<1>1. ASSUME UNCHANGED job, loads' \subseteq loads
      PROVE  \A l \in loads' : l.at = Pool \/ job'[l.at] = "up"
  BY <1>0, <1>1
<1>2. ASSUME NEW r \in JobRuns, Claim(r) \/ Persist(r) \/ WorkerDiesInDispatch(r) \/ PollDies(r)
      PROVE  UNCHANGED <<loads, job>>
  BY <1>2 DEF Claim, Persist, WorkerDiesInDispatch, PollDies
<1>3. ASSUME NEW r \in JobRuns, LaunchJob(r)
      PROVE  UNCHANGED loads /\ \A l \in loads : l.at = Pool \/ job'[l.at] = "up"
  BY <1>0, <1>3 DEF LaunchJob
<1>4. ASSUME NEW r \in JobRuns, DispatchFails(r) \/ PollEnded(r) \/ PollEnds(r) \/ UserStops(r)
                                \/ Watchdog(r)
      PROVE  loads' \subseteq loads /\ \A l \in loads' : l.at = Pool \/ job'[l.at] = "up"
  <2>1. \E contexts : Stops(contexts)
    BY <1>4 DEF DispatchFails, PollEnded, PollEnds, UserStops, Watchdog
  <2> QED
    BY <2>1, StopsEffect
<1>5. ASSUME NEW r \in JobRuns, StartPoll(r)
      PROVE  loads' \subseteq loads /\ \A l \in loads' : l.at = Pool \/ job'[l.at] = "up"
  <2>1. Stops({}) \/ UNCHANGED <<loads, job>>
    BY <1>5 DEF StartPoll
  <2> QED
    BY <1>1, <2>1, StopsEffect
<1>6. ASSUME NEW r \in JobRuns, NEW s \in 1..Slots[r], Post(r, s)
      PROVE  /\ \A l \in loads' \ loads : /\ l.run \in JobRuns /\ dispatch[l.run].pc = "agents"
                                          /\ l.try < Posts[l.run]
             /\ \A l \in loads' : l.at = Pool \/ job'[l.at] = "up"
  <2> DEFINE load_ == [run |-> r, slot |-> s, try |-> dispatch[r].tries[s], at |-> host[s],
                       job |-> s \in dispatch[r].made]
  <2>1. /\ UNCHANGED job /\ dispatch[r].pc = "agents" /\ s \notin dispatch[r].failed
        /\ \/ UNCHANGED loads
           \/ loads' = loads \cup {load_}
              /\ host[s] \in {Pool} \cup {q \in JobRuns : job[q] = "up"}
    BY <1>6 DEF Post, Open
  <2>2. dispatch[r].tries[s] < Posts[r]
    BY <2>1 DEF JobInv, RequestsOfRun
  <2>3. load_.run = r /\ load_.at = host[s] /\ load_.try = dispatch[r].tries[s]
    OBVIOUS
  <2> HIDE DEF load_
  <2> QED
    BY <1>0, <2>1, <2>2, <2>3
<1>7. ASSUME NEW l \in loads, JobLoadEnds(l) PROVE UNCHANGED job /\ loads' \subseteq loads
  BY <1>7 DEF JobLoadEnds
<1>8. ASSUME NEW c, BulkTells(c) PROVE UNCHANGED job /\ loads' \subseteq loads
  BY <1>8 DEF BulkTells
<1>9. CASE BulkLooks \/ BulkWrites \/ UNCHANGED jobVars
  BY <1>1, <1>9 DEF BulkLooks, BulkWrites, jobVars
<1>10. UNCHANGED <<loads, job>> => UNCHANGED job /\ loads' \subseteq loads
  OBVIOUS
<1> QED
  BY <1>1, <1>2, <1>3, <1>4, <1>5, <1>6, <1>7, <1>8, <1>9, <1>10 DEF JobNext

LEMMA LoadsStayServed ==
    ASSUME JobTypes, \A q \in JobRuns : JobInv(q), LoadsAreServed, [JobNext]_jobVars
    PROVE  LoadsAreServed'
  BY LoadSteps DEF LoadsAreServed

\* Nobody's dispatch begins twice, and a run that has ended stays so.
LEMMA JobsGoOn ==
    ASSUME JobTypes, \A q \in JobRuns : JobInv(q), [JobNext]_jobVars, NEW r \in JobRuns
    PROVE  /\ jobRow[r].status = "ended" => jobRow'[r].status = "ended"
           /\ jobRow[r].status # "queued" => jobRow'[r].status # "queued"
           /\ jobRow[r].status # "queued" /\ dispatch[r].pc # "agents" => dispatch'[r].pc # "agents"
<1>0. jobRow \in JobRows /\ dispatch \in Dispatches
  BY DEF JobTypes
<1> DEFINE Goal == /\ jobRow[r].status = "ended" => jobRow'[r].status = "ended"
                   /\ jobRow[r].status # "queued" => jobRow'[r].status # "queued"
                   /\ jobRow[r].status # "queued" /\ dispatch[r].pc # "agents"
                        => dispatch'[r].pc # "agents"
<1> SUFFICES Goal
  OBVIOUS
<1>1. ASSUME jobRow'[r].status \in {jobRow[r].status, "ended"},
             dispatch'[r].pc = "agents" => dispatch[r].pc = "agents"
      PROVE  Goal
  BY <1>1
<1> HIDE DEF Goal
<1>2. ASSUME NEW q \in JobRuns, Claim(q) PROVE Goal
  BY <1>0, <1>2 DEF Claim, JobRows, Dispatches, Goal
<1>3. ASSUME NEW q \in JobRuns, LaunchJob(q) \/ (\E s \in 1..Slots[q] : Post(q, s)) PROVE Goal
  BY <1>0, <1>1, <1>3 DEF LaunchJob, Post, Dispatches
<1>4. ASSUME NEW q \in JobRuns, DispatchFails(q) PROVE Goal
  <2>1. jobRow'[r].status \in {jobRow[r].status, "ended"}
    BY <1>0, <1>4 DEF DispatchFails, JobRows
  <2>2. dispatch' = [dispatch EXCEPT ![q] = NotDispatched]
    BY <1>4 DEF DispatchFails
  <2>3. dispatch'[q].pc \in {"idle", "check"} /\ \A t \in JobRuns \ {q} : dispatch'[t] = dispatch[t]
    BY <1>0, <2>2, DispatchOver
  <2> QED
    BY <1>1, <2>1, <2>3
<1>5. ASSUME NEW q \in JobRuns, Persist(q) PROVE Goal
  <2>1. jobRow'[r].status = jobRow[r].status
    BY <1>0, <1>5 DEF Persist, JobRows
  <2>2. dispatch' = [dispatch EXCEPT ![q] = [NotDispatched EXCEPT !.pc = "check"]]
    BY <1>5 DEF Persist
  <2>3. dispatch'[q].pc \in {"idle", "check"} /\ \A t \in JobRuns \ {q} : dispatch'[t] = dispatch[t]
    BY <1>0, <2>2, DispatchOver
  <2> QED
    BY <1>1, <2>1, <2>3
<1>6. ASSUME NEW q \in JobRuns, StartPoll(q) PROVE Goal
  <2>1. jobRow' = jobRow \/ Ends(q)
    BY <1>6 DEF StartPoll
  <2>2. jobRow'[r].status \in {jobRow[r].status, "ended"}
    BY <1>0, <2>1, EndsEffect
  <2>3. dispatch' = [dispatch EXCEPT ![q].pc = "idle"]
    BY <1>6 DEF StartPoll
  <2>4. dispatch'[r].pc = "agents" => dispatch[r].pc = "agents"
    BY <1>0, <2>3 DEF Dispatches
  <2> QED
    BY <1>1, <2>2, <2>4
<1>7. ASSUME NEW q \in JobRuns, WorkerDiesInDispatch(q) PROVE Goal
  <2>1. dispatch' = [dispatch EXCEPT ![q] = NotDispatched] /\ UNCHANGED jobRow
    BY <1>7 DEF WorkerDiesInDispatch
  <2>2. dispatch'[q].pc \in {"idle", "check"} /\ \A t \in JobRuns \ {q} : dispatch'[t] = dispatch[t]
    BY <1>0, <2>1, DispatchOver
  <2> QED
    BY <1>1, <2>1, <2>2
<1>8. ASSUME NEW q \in JobRuns, PollEnded(q) \/ PollEnds(q) \/ PollDies(q) \/ UserStops(q)
                                \/ Watchdog(q)
      PROVE  Goal
  <2>1. UNCHANGED dispatch /\ (jobRow' = jobRow \/ Ends(q))
    BY <1>8 DEF PollEnded, PollEnds, PollDies, UserStops, Watchdog
  <2>2. jobRow'[r].status \in {jobRow[r].status, "ended"}
    BY <1>0, <2>1, EndsEffect
  <2> QED
    BY <1>1, <2>1, <2>2
<1>9. CASE BulkWrites
  BY <1>0, <1>1, <1>9 DEF BulkWrites, JobRows
<1>10. ASSUME UNCHANGED <<jobRow, dispatch>> PROVE Goal
  BY <1>1, <1>10
<1>11. ASSUME NEW c, JobLoadEnds(c) \/ BulkTells(c) PROVE UNCHANGED <<jobRow, dispatch>>
  BY <1>11 DEF JobLoadEnds, BulkTells
<1>12. CASE BulkLooks \/ UNCHANGED jobVars
  BY <1>10, <1>12 DEF BulkLooks, jobVars
<1> QED
  BY <1>2, <1>3, <1>4, <1>5, <1>6, <1>7, <1>8, <1>9, <1>10, <1>11, <1>12 DEF JobNext

LEMMA ToldStaysOver ==
    ASSUME JobTypes, \A q \in JobRuns : JobInv(q), LoadsAreServed, ToldIsOver, [JobNext]_jobVars
    PROVE  ToldIsOver'
<1>0. /\ jobRow \in JobRows /\ bulk.told \subseteq Loads /\ bulk.runs \subseteq JobRuns
      /\ bulk \in [pc : {"idle", "tell", "done"}, runs : SUBSET JobRuns,
                   told : SUBSET Loads, missed : SUBSET Loads]
      /\ \A c \in Loads : c.run \in JobRuns
  BY DEF JobTypes, Loads
<1>1. CASE UNCHANGED bulk
  <2>1. bulk.told \cap loads' = {}
    BY LoadSteps DEF ToldIsOver
  <2>2. \A c \in bulk.told : jobRow'[c.run].status # "queued" /\ dispatch'[c.run].pc # "agents"
    BY <1>0, JobsGoOn DEF ToldIsOver
  <2>3. bulk.pc = "done" => \A r \in bulk.runs : jobRow'[r].status = "ended"
    BY <1>0, JobsGoOn DEF ToldIsOver
  <2> QED
    BY <1>1, <2>1, <2>2, <2>3 DEF ToldIsOver
<1>2. CASE BulkLooks
  <2>1. bulk'.told = {} /\ bulk'.pc = "tell"
    BY <1>2 DEF BulkLooks, NoBulk
  <2> QED
    BY <2>1 DEF ToldIsOver
<1>3. ASSUME NEW c, BulkTells(c) PROVE ToldIsOver'
  <2>1. UNCHANGED <<jobRow, dispatch>> /\ bulk'.pc = "tell" /\ bulk'.runs = bulk.runs
    BY <1>0, <1>3 DEF BulkTells
  <2>2. PICK r \in bulk.runs : c \in jobRow[r].contexts
    BY <1>3 DEF BulkTells, Known
  <2>3. r \in JobRuns /\ c.run = r /\ jobRow[r].status # "queued" /\ dispatch[r].pc # "agents"
    BY <1>0, <2>2 DEF JobInv, RunOfJob, RequestsOfRun
  <2>4. \/ bulk'.told = bulk.told \cup {c} /\ loads' = loads \ {c}
        \/ bulk'.told = bulk.told /\ loads' \subseteq loads
    BY <1>0, <1>3 DEF BulkTells
  <2> QED
    BY <2>1, <2>3, <2>4 DEF ToldIsOver
<1>4. CASE BulkWrites
  <2>1. /\ UNCHANGED <<loads, dispatch>> /\ bulk'.told = bulk.told /\ bulk'.runs = bulk.runs
    BY <1>0, <1>4 DEF BulkWrites
  <2>2. \A r \in JobRuns : jobRow'[r].status = IF r \in bulk.runs THEN "ended" ELSE jobRow[r].status
    BY <1>0, <1>4 DEF BulkWrites, JobRows
  <2> QED
    BY <1>0, <2>1, <2>2 DEF ToldIsOver
<1>5. ASSUME NEW r \in JobRuns,
             \/ Claim(r) \/ LaunchJob(r) \/ DispatchFails(r) \/ Persist(r) \/ StartPoll(r)
             \/ WorkerDiesInDispatch(r) \/ PollEnded(r) \/ PollEnds(r) \/ PollDies(r)
             \/ UserStops(r) \/ Watchdog(r) \/ \E s \in 1..Slots[r] : Post(r, s)
      PROVE  UNCHANGED bulk
  BY <1>5 DEF Claim, LaunchJob, DispatchFails, Persist, StartPoll, WorkerDiesInDispatch,
              PollEnded, PollEnds, PollDies, UserStops, Watchdog, Post
<1>6. ASSUME NEW l, JobLoadEnds(l) PROVE UNCHANGED bulk
  BY <1>6 DEF JobLoadEnds
<1>7. UNCHANGED jobVars => UNCHANGED bulk
  BY DEF jobVars
<1> QED
  BY <1>1, <1>2, <1>3, <1>4, <1>5, <1>6, <1>7 DEF JobNext
-----------------------------------------------------------------------------
(* The theorems *)

AllJobsInv == JobTypes /\ (\A r \in JobRuns : JobInv(r)) /\ LoadsAreServed /\ ToldIsOver

LEMMA AllJobsInit == ASSUME NEW waiting, JobInit(waiting) PROVE AllJobsInv
<1>1. loads = {} /\ bulk.told = {} /\ bulk.pc = "idle"
  BY DEF JobInit, NoBulk
<1> QED
  BY <1>1, JobTypesInit, JobInvInit DEF AllJobsInv, LoadsAreServed, ToldIsOver

LEMMA AllJobsKept == AllJobsInv /\ [JobNext]_jobVars => AllJobsInv'
  BY JobTypesKept, JobInvKept, LoadsStayServed, ToldStaysOver DEF AllJobsInv

LEMMA AllJobsHold == AllJobsInv => JobTypeOK /\ JobsEnd
<1> SUFFICES ASSUME AllJobsInv PROVE JobTypeOK /\ JobsEnd
  OBVIOUS
<1>1. JobTypeOK
  BY DEF AllJobsInv, JobTypes, JobRows, Dispatches, OfDispatch, Loads, LoadsAreServed, JobTypeOK
<1>2. JobsServe
  <2>1. \A r \in JobRuns : r # Pool
    BY SlotsTyped DEF Pool
  <2> QED
    BY <2>1 DEF AllJobsInv, JobInv, JobOfRunning, LoadsAreServed, JobsServe
<1>3. JobsAreRemoved
  BY DEF AllJobsInv, JobInv, SomeoneRemoves, JobsAreRemoved
<1>4. BulkStops
  BY DEF AllJobsInv, ToldIsOver, BulkStops
<1> QED
  BY <1>1, <1>2, <1>3, <1>4 DEF JobsEnd

\* For any number of runs, agents and attempts: loads are driven in jobs that are there; a job
\* outlives its run only where the dispatch failed, died, was overtaken by a stop or made the
\* job for some slots only, the poll died, or kubectl failed; and the stop of all runs ends
\* every run that it found and every load that it was told had stopped.
THEOREM JobsEndWell == JobSpec => [](JobTypeOK /\ JobsEnd)
<1>1. JobInit(JobRuns) => AllJobsInv
  BY AllJobsInit
<1> QED
  BY <1>1, AllJobsKept, AllJobsHold, PTL DEF JobSpec

\* The same in the model that is checked, where the jobs are one part of a behaviour.
THEOREM JobsHoldThere == MCSpec => []JobsHold
<1>1. MCInit => AllJobsInv
  BY AllJobsInit DEF MCInit
<1>2. [MCNext]_<<vars, part, jobVars, readingVars>> => [JobNext]_jobVars
  BY DEF MCNext, JobSteps, ReadingSteps
<1>3. AllJobsInv => JobsHold
  BY AllJobsHold DEF JobsHold
<1> QED
  BY <1>1, <1>2, <1>3, AllJobsKept, PTL DEF MCSpec

-----------------------------------------------------------------------------
(* The curve of an agent's readings *)

LastOf(s, n, m, a) == m \in s[a].tells /\ \A c \in a + 1..n : m \notin s[c].tells
InOrder(s) == \A a, b \in DOMAIN s : a <= b => s[a].at <= s[b].at
Metrics == {"cpu", "bytes"}

\* What the points say once the first i readings have been joined.
Apart(pts) == \A a, b \in DOMAIN pts : a < b => pts[b].at - pts[a].at >= Step
UpTo(pts, s, i) ==
    /\ i = 0 => pts = <<>>
    /\ i > 0 => pts # <<>> /\ pts[Len(pts)].at = s[i].at
Tells(pts, s, i, m) ==
    /\ (\E a \in DOMAIN pts : m \in pts[a].tells) <=> (\E b \in 1..i : m \in s[b].tells)
    /\ \A a \in DOMAIN pts, b \in 1..i :
          LastOf(pts, Len(pts), m, a) /\ LastOf(s, i, m, b) => pts[a][m] = s[b][m]
PointsHold(pts, s, i) ==
    /\ pts \in Seq(Reading) /\ Apart(pts) /\ UpTo(pts, s, i)
    /\ \A m \in Metrics : Tells(pts, s, i, m)

LEMMA JoinedShows ==
    ASSUME NEW old \in Reading, NEW r \in Reading
    PROVE  /\ Joined(old, r) \in Reading /\ Joined(old, r).at = r.at
           /\ Joined(old, r).tells = old.tells \cup r.tells
           /\ \A m \in Metrics : Joined(old, r)[m] = IF m \in r.tells THEN r[m] ELSE old[m]
<1>1. Joined(old, r) \in Reading
  BY DEF Joined, Reading
<1>2. Joined(old, r).at = r.at /\ Joined(old, r).tells = old.tells \cup r.tells
  BY DEF Joined, Reading
<1>3. Joined(old, r).cpu = IF "cpu" \in r.tells THEN r.cpu ELSE old.cpu
  BY DEF Joined, Reading
<1>4. Joined(old, r).bytes = IF "bytes" \in r.tells THEN r.bytes ELSE old.bytes
  BY DEF Joined, Reading
<1> QED
  BY <1>1, <1>2, <1>3, <1>4 DEF Metrics

LEMMA ReadingTime == \A r \in Reading : r.at \in Int
<1> SUFFICES ASSUME NEW r \in Reading PROVE r.at \in Int
  OBVIOUS
<1>1. r.at \in 0..MaxSeconds
  BY DEF Reading
<1> QED
  BY <1>1

\* A reading that is joined to the last point, and one that is a point of its own.
LEMMA ReadingJoins ==
    ASSUME NEW s \in Seq(Reading), InOrder(s), NEW i \in 1..Len(s), NEW pts,
           PointsHold(pts, s, i - 1), pts # <<>>
    PROVE  PointsHold(Front(pts) \o <<Joined(Last(pts), s[i])>>, s, i)
<1> DEFINE L == Len(pts)
           r == s[i]
           j == Joined(pts[L], r)
           new == Front(pts) \o <<j>>
<1>0. /\ pts \in Seq(Reading) /\ L \in Nat \ {0} /\ i - 1 \in Nat /\ i \in Nat /\ Len(s) \in Nat
      /\ r \in Reading /\ pts[L] \in Reading /\ i - 1 # 0 /\ i - 1 \in DOMAIN s /\ i \in DOMAIN s
  BY DEF PointsHold, UpTo
<1>1. /\ j \in Reading /\ j.at = r.at /\ j.tells = pts[L].tells \cup r.tells
      /\ \A m \in Metrics : j[m] = IF m \in r.tells THEN r[m] ELSE pts[L][m]
  BY <1>0, JoinedShows
<1> HIDE DEF j, r
<1>2. /\ new \in Seq(Reading) /\ Len(new) = L /\ new[L] = j
      /\ \A a \in 1..L - 1 : new[a] = pts[a]
  BY <1>0, <1>1 DEF Front
<1> HIDE DEF new
<1>3. \A a \in 1..L : pts[a] \in Reading /\ pts[a].at \in Int
  <2>1. \A a \in 1..L : pts[a] \in Reading
    BY <1>0
  <2> QED
    BY <2>1, ReadingTime
<1>4. j.at >= pts[L].at /\ j.at \in Int
  <2>1. pts[L].at = s[i - 1].at /\ s[i - 1].at <= s[i].at
    BY <1>0 DEF PointsHold, UpTo, InOrder
  <2>2. j.at \in Int
    BY <1>1, ReadingTime
  <2> QED
    BY <1>1, <1>3, <2>1, <2>2, <1>0 DEF r
<1>5. Apart(new)
  <2> SUFFICES ASSUME NEW a \in 1..L, NEW b \in 1..L, a < b
               PROVE  new[b].at - new[a].at >= Step
    BY <1>0, <1>2 DEF Apart
  <2>1. a \in 1..L - 1 /\ new[a] = pts[a]
    BY <1>0, <1>2
  <2>2. pts[b].at - pts[a].at >= Step
    BY <1>0 DEF PointsHold, Apart
  <2>3. new[b].at >= pts[b].at /\ new[b].at \in Int
    <3>1. CASE b = L
      BY <1>2, <1>4, <3>1
    <3>2. CASE b # L
      <4>1. b \in 1..L - 1
        BY <1>0, <3>2
      <4>2. new[b] = pts[b] /\ pts[b].at \in Int
        BY <1>2, <1>3, <4>1
      <4> QED
        BY <4>2
    <3> QED
      BY <3>1, <3>2
  <2>4. Step \in Int /\ pts[a].at \in Int /\ pts[b].at \in Int
    BY <1>3, ReadingsAssumption
  <2> QED
    BY <2>1, <2>2, <2>3, <2>4
<1>6. UpTo(new, s, i)
  BY <1>0, <1>1, <1>2 DEF UpTo, r
<1>7. ASSUME NEW m \in Metrics PROVE Tells(new, s, i, m)
  <2>0. Tells(pts, s, i - 1, m) /\ m \in {"cpu", "bytes"}
    BY DEF PointsHold, Metrics
  <2>1. CASE m \in r.tells
    <3>1. m \in new[L].tells /\ m \in s[i].tells /\ new[L][m] = s[i][m]
      BY <1>1, <1>2, <2>1 DEF r
    <3>2. \A a \in DOMAIN new : LastOf(new, L, m, a) => a = L
      BY <1>0, <1>2, <3>1 DEF LastOf
    <3>3. \A b \in 1..i : LastOf(s, i, m, b) => b = i
      BY <1>0, <3>1 DEF LastOf
    <3>4. L \in DOMAIN new /\ i \in 1..i
      BY <1>0, <1>2
    <3> QED
      BY <1>2, <3>1, <3>2, <3>3, <3>4 DEF Tells
  <2>2. CASE m \notin r.tells
    <3>0. (m \in j.tells <=> m \in pts[L].tells) /\ j[m] = pts[L][m]
      BY <1>1, <2>2
    <3>1. ASSUME NEW a \in 1..L
          PROVE  (m \in new[a].tells <=> m \in pts[a].tells) /\ new[a][m] = pts[a][m]
      <4>1. CASE a = L
        BY <1>2, <3>0, <4>1
      <4>2. CASE a # L
        <5>1. a \in 1..L - 1
          BY <1>0, <4>2
        <5> QED
          BY <1>2, <5>1
      <4> QED
        BY <4>1, <4>2
    <3>2. \A a \in 1..L : LastOf(new, L, m, a) <=> LastOf(pts, L, m, a)
      BY <1>0, <3>1 DEF LastOf
    <3>3. \A b \in 1..i : LastOf(s, i, m, b) => b \in 1..i - 1 /\ LastOf(s, i - 1, m, b)
      BY <1>0, <2>2 DEF LastOf, r
    <3>4. (\E b \in 1..i : m \in s[b].tells) <=> (\E b \in 1..i - 1 : m \in s[b].tells)
      BY <1>0, <2>2 DEF r
    <3>5. DOMAIN new = 1..L /\ DOMAIN pts = 1..L
      BY <1>0, <1>2
    <3> QED
      BY <1>2, <2>0, <3>1, <3>2, <3>3, <3>4, <3>5 DEF Tells
  <2> QED
    BY <2>1, <2>2
<1>8. new = Front(pts) \o <<Joined(Last(pts), s[i])>>
  BY DEF new, j, r, Last
<1> QED
  BY <1>2, <1>5, <1>6, <1>7, <1>8 DEF PointsHold

LEMMA ReadingAppends ==
    ASSUME NEW s \in Seq(Reading), InOrder(s), NEW i \in 1..Len(s), NEW pts,
           PointsHold(pts, s, i - 1),
           pts = <<>> \/ ~(s[i].at - Last(pts).at < Step)
    PROVE  PointsHold(pts \o <<s[i]>>, s, i)
<1> DEFINE L == Len(pts)
           r == s[i]
           new == pts \o <<r>>
<1>0. /\ pts \in Seq(Reading) /\ L \in Nat /\ i - 1 \in Nat /\ i \in Nat /\ Len(s) \in Nat
      /\ r \in Reading /\ i \in DOMAIN s /\ r.at \in Int
  <2>1. pts \in Seq(Reading) /\ r \in Reading
    BY DEF PointsHold
  <2> QED
    BY <2>1, ReadingTime
<1>1. r = s[i]
  OBVIOUS
<1> HIDE DEF r
<1>2. /\ new \in Seq(Reading) /\ Len(new) = L + 1 /\ new[L + 1] = r
      /\ \A a \in 1..L : new[a] = pts[a]
  BY <1>0
<1>3. \A a \in 1..L : pts[a] \in Reading /\ pts[a].at \in Int
  <2>1. \A a \in 1..L : pts[a] \in Reading
    BY <1>0
  <2> QED
    BY <2>1, ReadingTime
<1>4. new = pts \o <<s[i]>>
  BY <1>1
<1> HIDE DEF new
<1>5. Apart(new)
  <2> SUFFICES ASSUME NEW a \in 1..L + 1, NEW b \in 1..L + 1, a < b
               PROVE  new[b].at - new[a].at >= Step
    BY <1>0, <1>2 DEF Apart
  <2>1. a \in 1..L /\ new[a] = pts[a]
    BY <1>0, <1>2
  <2>2. CASE b \in 1..L
    <3>1. pts[b].at - pts[a].at >= Step
      BY <1>0, <2>1, <2>2 DEF PointsHold, Apart
    <3> QED
      BY <1>2, <2>1, <2>2, <3>1
  <2>3. CASE b = L + 1
    <3>1. L \in 1..L /\ pts[L] = Last(pts) /\ pts # <<>>
      BY <1>0, <2>1 DEF Last
    <3>2. r.at - pts[L].at >= Step
      BY <1>0, <1>1, <1>3, <3>1, ReadingsAssumption
    <3>3. a = L \/ pts[L].at - pts[a].at >= Step
      BY <1>0, <2>1, <3>1 DEF PointsHold, Apart
    <3>4. /\ r.at \in Int /\ pts[L].at \in Int /\ pts[a].at \in Int /\ Step \in Nat
          /\ new[b] = r /\ new[a] = pts[a]
      BY <1>0, <1>2, <1>3, <2>1, <2>3, <3>1, ReadingsAssumption
    <3>5. r.at - pts[a].at >= Step
      BY <3>2, <3>3, <3>4
    <3> QED
      BY <3>4, <3>5
  <2> QED
    BY <1>0, <2>2, <2>3
<1>6. UpTo(new, s, i)
  BY <1>0, <1>1, <1>2 DEF UpTo
<1>7. ASSUME NEW m \in Metrics PROVE Tells(new, s, i, m)
  <2>0. Tells(pts, s, i - 1, m) /\ DOMAIN new = 1..L + 1 /\ DOMAIN pts = 1..L
    BY <1>0, <1>2 DEF PointsHold
  <2>1. CASE m \in r.tells
    <3>1. m \in new[L + 1].tells /\ m \in s[i].tells /\ new[L + 1][m] = s[i][m]
      BY <1>1, <1>2, <2>1
    <3>2. \A a \in DOMAIN new : LastOf(new, L + 1, m, a) => a = L + 1
      BY <1>0, <2>0, <3>1 DEF LastOf
    <3>3. \A b \in 1..i : LastOf(s, i, m, b) => b = i
      BY <1>0, <3>1 DEF LastOf
    <3>4. L + 1 \in DOMAIN new /\ i \in 1..i
      BY <1>0, <2>0
    <3> QED
      BY <1>2, <3>1, <3>2, <3>3, <3>4 DEF Tells
  <2>2. CASE m \notin r.tells
    <3>1. \A a \in 1..L + 1 : m \in new[a].tells <=> a \in 1..L /\ m \in pts[a].tells
      BY <1>0, <1>2, <2>2
    <3>2. \A a \in 1..L + 1 : LastOf(new, L + 1, m, a) =>
             a \in 1..L /\ LastOf(pts, L, m, a) /\ new[a] = pts[a]
      BY <1>0, <1>2, <3>1 DEF LastOf
    <3>3. \A b \in 1..i : LastOf(s, i, m, b) => b \in 1..i - 1 /\ LastOf(s, i - 1, m, b)
      BY <1>0, <1>1, <2>2 DEF LastOf
    <3>4. (\E b \in 1..i : m \in s[b].tells) <=> (\E b \in 1..i - 1 : m \in s[b].tells)
      BY <1>0, <1>1, <2>2
    <3>5. (\E a \in DOMAIN new : m \in new[a].tells) <=> (\E a \in DOMAIN pts : m \in pts[a].tells)
      BY <1>0, <2>0, <3>1
    <3> QED
      BY <1>2, <2>0, <3>2, <3>3, <3>4, <3>5 DEF Tells
  <2> QED
    BY <2>1, <2>2
<1> QED
  BY <1>2, <1>4, <1>5, <1>6, <1>7 DEF PointsHold

\* The step of the fold.
LEMMA PointAdds ==
    ASSUME NEW pts \in Seq(Reading), NEW r \in Reading
    PROVE  AddPoint(pts, r) \in Seq(Reading)
<1>1. CASE pts = <<>>
  BY <1>1 DEF AddPoint
<1>2. CASE pts # <<>>
  <2>1. Len(pts) \in Nat \ {0} /\ Last(pts) \in Reading
    BY <1>2 DEF Last
  <2>2. Joined(Last(pts), r) \in Reading
    BY <2>1, JoinedShows
  <2>3. Front(pts) \in Seq(Reading)
    BY <2>1 DEF Front
  <2> QED
    BY <2>2, <2>3 DEF AddPoint
<1> QED
  BY <1>1, <1>2

\* The function behind the fold that makes the points of a history s.
IsPoints(s, h) ==
    h = [T \in SUBSET (DOMAIN s) |->
            IF T = {} THEN <<>> ELSE AddPoint(h[T \ {Max(T)}], s[Max(T)])]

LEMMA PointsFold ==
    ASSUME readings.kept \in Seq(Reading)
    PROVE  \E g : Points = g[1..Len(readings.kept)] /\ g[1..0] = <<>> /\
              \A i \in 1..Len(readings.kept) :
                 g[1..i] = AddPoint(g[1..(i - 1)], readings.kept[i])
<1> DEFINE s == readings.kept
           n == Len(s)
           D == Seq(Reading) \X (1..n)
           st == [p \in D |-> AddPoint(p[1], s[p[2]])]
<1>1. n \in Nat /\ DOMAIN s = 1..n /\ <<>> \in Seq(Reading) /\ \A i \in 1..n : s[i] \in Reading
  OBVIOUS
<1>2. st \in [D -> Seq(Reading)]
  BY <1>1, PointAdds
<1>3. \A pts \in Seq(Reading), i \in 1..n : st[<<pts, i>>] = AddPoint(pts, s[i])
  OBVIOUS
<1>x. readings.kept = s
  OBVIOUS
<1> HIDE DEF st, s
<1>4. PICK g \in [SUBSET (1..n) -> Seq(Reading)] : IsFold(<<>>, n, st, g)
  BY <1>1, <1>2, FoldExists
<1>5. Prefix(<<>>, n, st, g)
  BY <1>1, <1>4, FoldOfPrefixes
<1>6. ASSUME NEW i \in 1..n PROVE g[1..i] = AddPoint(g[1..(i - 1)], s[i])
  <2>1. 1..(i - 1) \in SUBSET (1..n)
    BY <1>1
  <2>2. g[1..(i - 1)] \in Seq(Reading)
    BY <1>4, <2>1
  <2> QED
    BY <1>3, <1>5, <2>2 DEF Prefix
<1>7. \A T \in SUBSET (1..n) : T # {} =>
         Max(T) \in T /\ Max(T) \in 1..n /\ T \ {Max(T)} \in SUBSET (1..n)
  BY <1>1, SubsetOfInterval
<1>8. IsPoints(s, g)
  <2>1. ASSUME NEW T \in SUBSET (1..n)
        PROVE  g[T] = IF T = {} THEN <<>> ELSE AddPoint(g[T \ {Max(T)}], s[Max(T)])
    <3>1. CASE T = {}
      BY <1>4, <3>1 DEF IsFold
    <3>2. CASE T # {}
      <4>1. Max(T) \in 1..n /\ g[T \ {Max(T)}] \in Seq(Reading)
        BY <1>4, <1>7, <3>2
      <4> QED
        BY <1>3, <1>4, <3>2, <4>1 DEF IsFold
    <3> QED
      BY <3>1, <3>2
  <2> QED
    BY <1>1, <1>4, <2>1 DEF IsPoints
<1>9. ASSUME NEW h, IsPoints(s, h) PROVE h = g
  <2>1. \A T \in SUBSET (1..n) : /\ h[T] = IF T = {} THEN <<>> ELSE AddPoint(h[T \ {Max(T)}], s[Max(T)])
                                 /\ g[T] = IF T = {} THEN <<>> ELSE AddPoint(g[T \ {Max(T)}], s[Max(T)])
    BY <1>1, <1>8, <1>9 DEF IsPoints
  <2> DEFINE P == {T \in SUBSET (1..n) : h[T] = g[T]}
  <2>2. ASSUME NEW T \in SUBSET (1..n), \A x \in T : T \ {x} \in P PROVE T \in P
    <3>1. CASE T = {}
      BY <2>1, <3>1
    <3>2. CASE T # {}
      <4>1. h[T \ {Max(T)}] = g[T \ {Max(T)}]
        BY <1>7, <2>2, <3>2
      <4> QED
        BY <2>1, <3>2, <4>1
    <3> QED
      BY <3>1, <3>2
  <2> HIDE DEF P
  <2>3. IsFiniteSet(1..n)
    BY <1>1, FS_Interval
  <2>4. \A T \in SUBSET (1..n) : T \in P
    BY <2>2, <2>3, SubsetInduction
  <2>5. \A T \in SUBSET (1..n) : h[T] = g[T]
    BY <2>4 DEF P
  <2>6. h = [T \in SUBSET (1..n) |-> h[T]]
    BY <1>1, <1>9 DEF IsPoints
  <2> QED
    BY <2>5, <2>6
<1>10. Points = (CHOOSE h : IsPoints(s, h))[DOMAIN s]
  BY <1>x DEF Points, FoldLeft, MapThenFoldSet, IsPoints
<1>11. (CHOOSE h : IsPoints(s, h)) = g
  BY <1>8, <1>9
<1> QED
  BY <1>1, <1>5, <1>6, <1>10, <1>11 DEF s, Prefix

LEMMA PointsStand ==
    ASSUME readings.kept \in Seq(Reading), InOrder(readings.kept)
    PROVE  PointsHold(Points, readings.kept, Len(readings.kept))
<1> DEFINE s == readings.kept
           n == Len(s)
<1>1. n \in Nat /\ \A i \in 1..n : s[i] \in Reading
  OBVIOUS
<1>2. PICK g : Points = g[1..n] /\ g[1..0] = <<>> /\
               \A i \in 1..n : g[1..i] = AddPoint(g[1..(i - 1)], s[i])
  BY PointsFold
<1>3. InOrder(s) /\ s \in Seq(Reading)
  OBVIOUS
<1> HIDE DEF s
<1> DEFINE P == {i \in Nat : i <= n => PointsHold(g[1..i], s, i)}
<1>4. 0 \in P
  <2>1. PointsHold(<<>>, s, 0)
    BY DEF PointsHold, Apart, UpTo, Tells
  <2> QED
    BY <1>2, <2>1
<1>5. ASSUME NEW i \in Nat, i \in P PROVE i + 1 \in P
  <2> SUFFICES ASSUME i + 1 <= n PROVE PointsHold(g[1..(i + 1)], s, i + 1)
    OBVIOUS
  <2>1. i <= n /\ i + 1 \in 1..n /\ (i + 1) - 1 = i
    BY <1>1
  <2> DEFINE pts == g[1..i]
  <2>2. PointsHold(pts, s, (i + 1) - 1)
    BY <1>5, <2>1
  <2>3. g[1..(i + 1)] = AddPoint(pts, s[i + 1])
    BY <1>2, <2>1
  <2> HIDE DEF pts
  <2>4. CASE pts # <<>> /\ s[i + 1].at - Last(pts).at < Step
    <3>1. PointsHold(Front(pts) \o <<Joined(Last(pts), s[i + 1])>>, s, i + 1)
      BY <1>3, <2>1, <2>2, <2>4, ReadingJoins
    <3> QED
      BY <2>3, <2>4, <3>1 DEF AddPoint
  <2>5. CASE ~(pts # <<>> /\ s[i + 1].at - Last(pts).at < Step)
    <3>1. PointsHold(pts \o <<s[i + 1]>>, s, i + 1)
      BY <1>3, <2>1, <2>2, <2>5, ReadingAppends
    <3> QED
      BY <2>3, <2>5, <3>1 DEF AddPoint
  <2> QED
    BY <2>4, <2>5
<1> HIDE DEF P
<1>6. n \in P
  BY <1>1, <1>4, <1>5, Induction
<1>7. PointsHold(Points, s, n)
  BY <1>1, <1>2, <1>6 DEF P
<1> QED
  BY <1>7 DEF s

\* A curve shows the last reading of its metric, and its points are Step apart.
LEMMA CurveShows ==
    ASSUME readings.kept \in Seq(Reading), InOrder(readings.kept)
    PROVE  CurveIsCurrent
<1> SUFFICES ASSUME NEW m \in Metrics
             PROVE  LET curve == Curve(m)
                        of == {i \in DOMAIN readings.kept : m \in readings.kept[i].tells}
                    IN /\ \A i, j \in curve : i < j => Points[j].at - Points[i].at >= Step
                       /\ (curve = {}) = (of = {})
                       /\ of # {} => Points[Max(curve)][m] = readings.kept[Max(of)][m]
  BY DEF CurveIsCurrent, Metrics
<1> DEFINE s == readings.kept
           n == Len(s)
           of == {i \in DOMAIN s : m \in s[i].tells}
           curve == Curve(m)
<1>1. PointsHold(Points, s, n)
  BY PointsStand
<1>2. /\ n \in Nat /\ DOMAIN s = 1..n /\ Points \in Seq(Reading) /\ Len(Points) \in Nat
      /\ DOMAIN Points = 1..Len(Points)
  BY <1>1 DEF PointsHold
<1>3. Tells(Points, s, n, m) /\ Apart(Points)
  BY <1>1 DEF PointsHold
<1>4. of \in SUBSET (1..n) /\ curve \in SUBSET (1..Len(Points))
  BY <1>2 DEF Curve
<1>5. \A i, j \in curve : i < j => Points[j].at - Points[i].at >= Step
  BY <1>2, <1>3, <1>4 DEF Apart
<1>6. curve = {} <=> of = {}
  BY <1>2, <1>3 DEF Tells, Curve
<1>7. ASSUME of # {} PROVE Points[Max(curve)][m] = s[Max(of)][m]
  <2>1. Max(of) \in of /\ \A x \in of : x <= Max(of)
    <3> HIDE DEF of
    <3> QED
      BY <1>2, <1>4, <1>7, SubsetOfInterval
  <2>2. Max(curve) \in curve /\ \A x \in curve : x <= Max(curve)
    <3>1. curve # {}
      BY <1>6, <1>7
    <3> HIDE DEF curve
    <3> QED
      BY <1>2, <1>4, <3>1, SubsetOfInterval
  <2>3. LastOf(s, n, m, Max(of)) /\ Max(of) \in 1..n
    <3>1. Max(of) \in 1..n /\ m \in s[Max(of)].tells
      BY <1>2, <2>1
    <3>2. ASSUME NEW c \in Max(of) + 1..n, m \in s[c].tells PROVE FALSE
      <4>1. c \in 1..n /\ c \in Int /\ Max(of) \in Int /\ ~(c <= Max(of))
        BY <1>2, <3>1
      <4>2. c \in of
        BY <1>2, <3>2, <4>1
      <4> QED
        BY <2>1, <4>1, <4>2
    <3> QED
      BY <3>1, <3>2 DEF LastOf
  <2>4. LastOf(Points, Len(Points), m, Max(curve)) /\ Max(curve) \in DOMAIN Points
    <3> DEFINE L == Len(Points)
    <3>1. Max(curve) \in 1..L /\ m \in Points[Max(curve)].tells
      BY <1>2, <2>2 DEF Curve
    <3>2. ASSUME NEW c \in Max(curve) + 1..L, m \in Points[c].tells PROVE FALSE
      <4>1. c \in 1..L /\ c \in Int /\ Max(curve) \in Int /\ ~(c <= Max(curve))
        BY <1>2, <3>1
      <4>2. c \in curve
        BY <1>2, <3>2, <4>1 DEF Curve
      <4> QED
        BY <2>2, <4>1, <4>2
    <3> QED
      BY <1>2, <3>1, <3>2 DEF LastOf
  <2> QED
    BY <1>3, <2>3, <2>4 DEF Tells
<1> HIDE DEF curve, of
<1>8. (curve = {}) = (of = {})
  BY <1>6
<1> QED
  BY <1>5, <1>7, <1>8 DEF curve, of

-----------------------------------------------------------------------------
(* The readings while they are taken *)

Takers == {"run", "sampler", "page"}
Takings == [pc : {"idle", "reading"}, last : BOOLEAN, counter : Counters \cup {"nothing"}, cpu : Figures]
ReadTypes ==
    /\ place \in [host : BOOLEAN, groups : BOOLEAN]
    /\ load \in [process : {"none", "alive", "gone"}, pid : BOOLEAN, status : {"running", "ended"}]
    /\ clock \in 0..MaxSeconds /\ told \in {"unborn", "no", "yes"}
    /\ readings \in [kept : Seq(Reading), warm : BOOLEAN, recorded : BOOLEAN]
    /\ Len(readings.kept) <= Keep
    /\ taker \in [Takers -> Takings] /\ taken \in [n : Nat, most : Nat]

\* The history is in the order of time, and holds what every difference starts from unless it
\* has begun to forget.
Based(f, s, i) == \E j \in 1..i : s[j].at = f.since /\ f.of \in s[j].tells
HistoryInv ==
    /\ InOrder(readings.kept) /\ \A a \in DOMAIN readings.kept : readings.kept[a].at <= clock
    /\ Len(readings.kept) <= taken.n
RatesInv ==
    taken.n <= Keep =>
        /\ \A i \in DOMAIN readings.kept : readings.kept[i].cpu.of \in Counters =>
              Based(readings.kept[i].cpu, readings.kept, i - 1)
        /\ \A t \in Takers : taker[t].cpu.of \in Counters =>
              Based(taker[t].cpu, readings.kept, Len(readings.kept))
\* A last reading is taken of an ended run, and after it no other begins.
LastInv ==
    /\ \A t \in Takers : taker[t].last => load.status = "ended"
    /\ readings.recorded => load.status = "ended"
    /\ taken.most # 0 => /\ readings.recorded /\ taken.n # 0
                         /\ taken.n + Cardinality(Taking) <= taken.most
ReadInv == ReadTypes /\ HistoryInv /\ RatesInv /\ LastInv

LEMMA TakingIsFinite ==
    ASSUME taker \in [Takers -> Takings]
    PROVE  /\ Taking \subseteq Takers /\ IsFiniteSet(Taking) /\ Cardinality(Taking) \in Nat
<1>1. IsFiniteSet(Takers)
  <2>1. IsFiniteSet({}) /\ Takers = (({} \cup {"run"}) \cup {"sampler"}) \cup {"page"}
    BY FS_EmptySet DEF Takers
  <2> QED
    BY <2>1, FS_AddElement
<1>2. Taking \subseteq Takers
  BY DEF Taking
<1>3. IsFiniteSet(Taking)
  BY <1>1, <1>2, FS_Subset
<1> QED
  BY <1>2, <1>3, FS_CardinalityType

\* The figure that a reading begins with is a difference to a reading of the history.
LEMMA FigureIsBased ==
    ASSUME ReadInv
    PROVE  /\ CpuFigure \in Figures /\ CpuCounter \in Counters \cup {"nothing"}
           /\ CpuFigure.of \in Counters =>
                 Based(CpuFigure, readings.kept, Len(readings.kept))
<1> DEFINE c == CpuCounter
           s == readings.kept
<1>1. c \in Counters \cup {"nothing"}
  BY DEF CpuCounter, TreeTotals, GroupTotals, Counters
<1>2. s \in Seq(Reading) /\ clock \in 0..MaxSeconds
  BY DEF ReadInv, ReadTypes
<1>3. CASE c = "nothing"
  BY <1>1, <1>2, <1>3 DEF CpuFigure, Figures, Counters
<1>4. CASE c # "nothing" /\ (Earlier(c) = {} \/ clock = s[Max(Earlier(c))].at)
  <2>1. CpuFigure = NoFigure
    BY <1>4 DEF CpuFigure
  <2>2. 0 \in 0..MaxSeconds
    BY ReadingsAssumption
  <2> QED
    BY <1>1, <2>1, <2>2 DEF NoFigure, Figures, Counters
<1>5. CASE c # "nothing" /\ Earlier(c) # {} /\ clock # s[Max(Earlier(c))].at
  <2>1. CpuFigure = [of |-> c, since |-> s[Max(Earlier(c))].at]
    BY <1>5 DEF CpuFigure
  <2>2. Earlier(c) \in SUBSET (1..Len(s)) /\ Len(s) \in Nat
    BY <1>2 DEF Earlier
  <2>3. Max(Earlier(c)) \in Earlier(c) /\ Max(Earlier(c)) \in 1..Len(s)
    BY <1>5, <2>2, SubsetOfInterval
  <2> DEFINE j == Max(Earlier(c))
  <2> HIDE DEF j
  <2>4. j \in 1..Len(s) /\ c \in s[j].tells
    BY <2>3 DEF Earlier, j
  <2>x. s[j] \in Reading
    BY <1>2, <2>4
  <2>5. s[j].at \in 0..MaxSeconds
    BY <2>x DEF Reading
  <2>6. CpuFigure = [of |-> c, since |-> s[j].at]
    BY <2>1 DEF j
  <2> HIDE DEF c
  <2>7. CpuFigure \in Figures
    BY <1>1, <2>5, <2>6 DEF Figures
  <2>8. Based(CpuFigure, s, Len(s))
    BY <2>4, <2>6 DEF Based
  <2> QED
    BY <1>1, <2>7, <2>8 DEF c
<1> QED
  BY <1>1, <1>3, <1>4, <1>5

LEMMA BeginsKeeps ==
    ASSUME ReadInv, NEW t \in Takers, NEW last \in BOOLEAN, Begins(t, last),
           last => load.status = "ended", taken.most = 0
    PROVE  ReadInv'
<1> DEFINE me == taker'[t]
<1>0. /\ taker \in [Takers -> Takings] /\ CpuBranch(t, last) /\ UNCHANGED taken
      /\ UNCHANGED <<place, load, clock, told>>
      /\ readings \in [kept : Seq(Reading), warm : BOOLEAN, recorded : BOOLEAN]
  BY DEF ReadInv, ReadTypes, Begins, CpuBranch
<1>1. /\ me.pc = "reading" /\ me.last = last /\ me.counter = CpuCounter
      /\ me.cpu \in {NoFigure, CpuFigure}
      /\ me = [pc |-> "reading", last |-> last, counter |-> CpuCounter, cpu |-> me.cpu]
      /\ taker' = [taker EXCEPT ![t] = me]
  BY <1>0 DEF CpuBranch
<1>2. /\ CpuFigure \in Figures /\ CpuCounter \in Counters \cup {"nothing"}
      /\ CpuFigure.of \in Counters => Based(CpuFigure, readings.kept, Len(readings.kept))
  BY FigureIsBased
<1>3. NoFigure \in Figures /\ NoFigure.of \notin Counters
  BY ReadingsAssumption DEF NoFigure, Figures, Counters
<1> HIDE DEF me
<1>4. me \in Takings
  BY <1>1, <1>2, <1>3 DEF Takings
<1>5. /\ readings'.kept = readings.kept /\ readings'.recorded = readings.recorded
      /\ readings' \in [kept : Seq(Reading), warm : BOOLEAN, recorded : BOOLEAN]
  <2>1. readings' = [readings EXCEPT !.warm = @ \/ (CpuFigure.of \in Counters /\ ~readings.warm)]
    BY <1>0 DEF CpuBranch
  <2>2. readings' = [readings EXCEPT !.warm = readings'.warm] /\ readings'.warm \in BOOLEAN
    BY <1>0, <2>1
  <2> QED
    BY <1>0, <2>2
<1>6. ReadTypes'
  BY <1>0, <1>1, <1>4, <1>5 DEF ReadInv, ReadTypes
<1>7. HistoryInv'
  BY <1>0, <1>5 DEF ReadInv, HistoryInv, InOrder
<1>8. RatesInv'
  <2>1. \A u \in Takers : taker'[u].cpu.of \in Counters =>
           \/ Based(taker'[u].cpu, readings.kept, Len(readings.kept))
           \/ u # t /\ taker'[u] = taker[u]
    BY <1>0, <1>1, <1>2, <1>3
  <2> QED
    BY <1>0, <1>5, <2>1 DEF ReadInv, RatesInv, Based
<1>9. LastInv'
  <2>1. \A u \in Takers : taker'[u].last => load.status = "ended"
    BY <1>0, <1>1 DEF ReadInv, LastInv
  <2> QED
    BY <1>0, <1>5, <2>1 DEF ReadInv, LastInv
<1> QED
  BY <1>6, <1>7, <1>8, <1>9 DEF ReadInv

\* What a reading adds to a history.
LEMMA TakesKeeps ==
    ASSUME ReadInv, NEW t \in Takers, Takes(t)
    PROVE  ReadInv'
<1> DEFINE me == taker[t]
           s == readings.kept
           r == [at |-> clock,
                 tells |-> (IF me.cpu.of = "nothing" THEN {} ELSE {"cpu"})
                           \cup ({me.counter} \cap Counters)
                           \cup (IF OtherTotals = "nothing" THEN {} ELSE {"bytes"}),
                 cpu |-> me.cpu, bytes |-> IF OtherTotals = "tree" THEN "tree" ELSE "machine"]
           all == s \o <<r>>
           first == Max({1, Len(all) - Keep + 1})
           L == Len(s)
<1>0. /\ s \in Seq(Reading) /\ L \in Nat /\ me \in Takings /\ clock \in 0..MaxSeconds
      /\ taken \in [n : Nat, most : Nat] /\ taker \in [Takers -> Takings]
      /\ readings \in [kept : Seq(Reading), warm : BOOLEAN, recorded : BOOLEAN]
      /\ told \in {"unborn", "no", "yes"} /\ place.host \in BOOLEAN /\ load.pid \in BOOLEAN
      /\ Keep \in Nat \ {0} /\ L <= Keep /\ L <= taken.n
  BY ReadingsAssumption DEF ReadInv, ReadTypes, HistoryInv
<1>1. /\ readings'.kept = SubSeq(all, first, Len(all))
      /\ readings'.recorded = (readings.recorded \/ me.last)
      /\ readings'.warm = (readings.warm \/ (t = "run" /\ told = "unborn" /\ OfTree))
      /\ readings' = [kept |-> readings'.kept, warm |-> readings'.warm, recorded |-> readings'.recorded]
      /\ taker' = [taker EXCEPT ![t] = NoReading] /\ me.pc = "reading"
      /\ taken' = [n |-> taken.n + 1, most |-> IF taken.most = 0 /\ me.last
                                               THEN taken.n + Cardinality(Taking) ELSE taken.most]
      /\ UNCHANGED <<place, load, clock, told>>
  BY DEF Takes
<1>2. r \in Reading /\ r.at = clock /\ r.cpu = me.cpu
  <2>1. me.cpu \in Figures /\ r.tells \in SUBSET {"cpu", "bytes", "tree", "group"}
        /\ r.bytes \in {"tree", "machine"}
    BY <1>0 DEF Takings, Counters
  <2> QED
    BY <1>0, <2>1 DEF Reading
<1> HIDE DEF r
<1>3. /\ all \in Seq(Reading) /\ Len(all) = L + 1 /\ all[L + 1] = r
      /\ \A i \in 1..L : all[i] = s[i]
  BY <1>0, <1>2
<1>x. all = s \o <<r>>
  OBVIOUS
<1> HIDE DEF all
<1>4. first \in 1..L + 1 /\ (L + 1 <= Keep => first = 1) /\ L + 1 - first + 1 <= Keep
  <2> DEFINE pair == {1, Len(all) - Keep + 1}
  <2>1. Len(all) - Keep + 1 \in Int /\ Len(all) = L + 1
    BY <1>0, <1>3
  <2>2. pair \in SUBSET Int /\ pair # {}
    BY <2>1
  <2>x. IsFiniteSet(pair)
    BY PairIsFinite
  <2>3. Max(pair) \in pair /\ \A x \in pair : x <= Max(pair)
    <3> HIDE DEF pair
    <3> QED
      BY <2>2, <2>x, MaxIs
  <2>4. first = Max(pair)
    OBVIOUS
  <2>y. 1 \in pair /\ L + 1 - Keep + 1 \in pair /\ \A x \in pair : x \in {1, L + 1 - Keep + 1}
    <3>1. Len(all) - Keep + 1 = L + 1 - Keep + 1
      BY <1>0, <2>1
    <3> QED
      BY <3>1
  <2> HIDE DEF first, pair
  <2>5. first \in {1, L + 1 - Keep + 1} /\ 1 <= first /\ L + 1 - Keep + 1 <= first
    BY <2>3, <2>4, <2>y
  <2> QED
    BY <1>0, <2>5
<1> HIDE DEF first
<1> DEFINE new == readings'.kept
<1>5. /\ new \in Seq(Reading) /\ Len(new) = L + 1 - first + 1
      /\ \A i \in 1..Len(new) : new[i] = all[i + first - 1] /\ i + first - 1 \in 1..L + 1
  <2>1. first \in Nat \ {0} /\ first <= Len(all) + 1 /\ Len(all) = L + 1 /\ L + 1 \in Nat
    BY <1>0, <1>3, <1>4
  <2>2. new = SubSeq(all, first, L + 1)
    BY <1>1, <2>1
  <2> HIDE DEF new
  <2>3. /\ Len(new) = L + 1 - first + 1 /\ \A i \in 1..Len(new) : i + first - 1 \in 1..L + 1
        /\ \A i \in 1..Len(new) : new[i] = all[i + first - 1]
    BY <1>3, <1>4, <2>1, <2>2
  <2>4. new \in Seq(Reading)
    BY <1>3, <1>4, <2>1, <2>2
  <2> QED
    BY <2>3, <2>4
<1>6. L + 1 <= Keep => new = all
  BY <1>0, <1>1, <1>3, <1>4
<1>7. NoReading \in Takings
  BY ReadingsAssumption DEF NoReading, NoFigure, Takings, Figures
<1>8. ReadTypes'
  <2>1. readings' \in [kept : Seq(Reading), warm : BOOLEAN, recorded : BOOLEAN]
    <3>1. readings'.recorded \in BOOLEAN /\ readings'.warm \in BOOLEAN
      BY <1>0, <1>1 DEF Takings, OfTree
    <3> QED
      BY <1>1, <1>5, <3>1
  <2>2. Len(readings'.kept) <= Keep
    BY <1>4, <1>5
  <2>3. taker' \in [Takers -> Takings]
    BY <1>0, <1>1, <1>7
  <2>4. taken' \in [n : Nat, most : Nat]
    BY <1>0, <1>1, TakingIsFinite
  <2> QED
    BY <1>1, <2>1, <2>2, <2>3, <2>4 DEF ReadInv, ReadTypes
<1> HIDE DEF new
<1>n. readings'.kept = new
  BY DEF new
<1>9. HistoryInv'
  <2>1. \A i \in 1..L : s[i].at <= clock
    BY DEF ReadInv, HistoryInv
  <2>2. \A i \in 1..L, j \in 1..L : i <= j => s[i].at <= s[j].at
    BY DEF ReadInv, HistoryInv, InOrder
  <2>3. \A i \in 1..L + 1 : all[i].at <= clock
    BY <1>0, <1>2, <1>3, <2>1
  <2>4. ASSUME NEW i \in 1..L + 1, NEW j \in 1..L + 1, i <= j PROVE all[i].at <= all[j].at
    <3>1. CASE j = L + 1
      BY <1>2, <1>3, <2>3, <3>1
    <3>2. CASE j # L + 1
      <4>1. i \in 1..L /\ j \in 1..L
        BY <1>0, <2>4, <3>2
      <4> QED
        BY <1>3, <2>2, <2>4, <4>1
    <3> QED
      BY <3>1, <3>2
  <2>5. InOrder(new)
    <3> SUFFICES ASSUME NEW i \in 1..Len(new), NEW j \in 1..Len(new), i <= j
                 PROVE  new[i].at <= new[j].at
      BY <1>5 DEF InOrder
    <3>1. i + first - 1 <= j + first - 1
      BY <1>4, <1>5
    <3> QED
      BY <1>5, <2>4, <3>1
  <2>6. \A a \in DOMAIN new : new[a].at <= clock
    BY <1>5, <2>3
  <2>7. Len(new) <= taken.n + 1
    BY <1>0, <1>4, <1>5
  <2> QED
    BY <1>1, <1>n, <2>5, <2>6, <2>7 DEF HistoryInv
<1>10. RatesInv'
  <2> SUFFICES ASSUME taken.n + 1 <= Keep
               PROVE  /\ \A i \in DOMAIN new : new[i].cpu.of \in Counters =>
                            Based(new[i].cpu, new, i - 1)
                      /\ \A u \in Takers : taker'[u].cpu.of \in Counters =>
                            Based(taker'[u].cpu, new, Len(new))
    BY <1>1, <1>n DEF RatesInv
  <2>1. L + 1 <= Keep /\ taken.n <= Keep
    BY <1>0
  <2>2. new = all /\ DOMAIN new = 1..L + 1 /\ Len(new) = L + 1
    BY <1>3, <1>6, <2>1
  <2>3. /\ \A i \in 1..L : s[i].cpu.of \in Counters => Based(s[i].cpu, s, i - 1)
        /\ \A u \in Takers : taker[u].cpu.of \in Counters => Based(taker[u].cpu, s, L)
    BY <2>1 DEF ReadInv, RatesInv
  <2>4. ASSUME NEW f, NEW i \in 0..L, Based(f, s, i) PROVE Based(f, all, i)
    BY <1>0, <1>3, <2>4 DEF Based
  <2>5. ASSUME NEW f, Based(f, all, L) PROVE Based(f, all, L + 1)
    BY <1>0, <2>5 DEF Based
  <2>6. ASSUME NEW i \in 1..L + 1, all[i].cpu.of \in Counters PROVE Based(all[i].cpu, all, i - 1)
    <3>1. CASE i = L + 1
      <4>1. Based(me.cpu, s, L)
        BY <1>2, <1>3, <2>3, <2>6, <3>1
      <4>2. Based(me.cpu, all, L) /\ i - 1 = L
        BY <1>0, <2>4, <3>1, <4>1
      <4> QED
        BY <1>2, <1>3, <3>1, <4>2
    <3>2. CASE i # L + 1
      <4>1. i \in 1..L /\ i - 1 \in 0..L /\ all[i] = s[i]
        BY <1>0, <1>3, <3>2
      <4> QED
        BY <2>3, <2>4, <2>6, <4>1
    <3> QED
      BY <3>1, <3>2
  <2>7. ASSUME NEW u \in Takers, taker'[u].cpu.of \in Counters PROVE Based(taker'[u].cpu, all, L + 1)
    <3>1. NoReading.cpu.of \notin Counters
      BY DEF NoReading, NoFigure, Counters
    <3>2. taker'[u] = taker[u]
      BY <1>0, <1>1, <2>7, <3>1
    <3>3. L \in 0..L /\ Based(taker[u].cpu, s, L)
      BY <1>0, <2>3, <2>7, <3>2
    <3> QED
      BY <2>4, <2>5, <3>2, <3>3
  <2> QED
    BY <2>2, <2>6, <2>7
<1>11. LastInv'
  <2>1. \A u \in Takers : taker'[u].last => load.status = "ended"
    BY <1>0, <1>1 DEF ReadInv, LastInv, NoReading
  <2>2. me.last \in BOOLEAN /\ (me.last => load.status = "ended") /\ (readings.recorded => load.status = "ended")
    BY <1>0 DEF ReadInv, LastInv, Takings
  <2>3. Taking' = Taking \ {t} /\ t \in Taking /\ IsFiniteSet(Taking) /\ Cardinality(Taking) \in Nat
    BY <1>0, <1>1, TakingIsFinite DEF Taking, NoReading
  <2>4. Cardinality(Taking') = Cardinality(Taking) - 1
    BY <2>3, FS_RemoveElement
  <2>5. ASSUME taken'.most # 0
        PROVE  /\ readings'.recorded /\ taken'.n # 0 /\ taken'.n + Cardinality(Taking') <= taken'.most
    <3>1. CASE taken.most = 0
      <4>1. me.last /\ taken'.most = taken.n + Cardinality(Taking) /\ taken'.n = taken.n + 1
        BY <1>0, <1>1, <2>5, <3>1
      <4>2. readings'.recorded
        BY <1>1, <4>1
      <4>3. taken'.n + Cardinality(Taking') = taken'.most /\ taken'.n # 0 /\ taken'.most \in Nat
            /\ taken'.n + Cardinality(Taking') \in Nat
        <5> DEFINE C == Cardinality(Taking)
        <5>1. C \in Nat /\ taken.n \in Nat /\ Cardinality(Taking') = C - 1 /\ C # 0
          <6>1. Taking # {}
            BY <2>3
          <6> QED
            BY <1>0, <2>3, <2>4, <6>1, FS_EmptySet
        <5> HIDE DEF C
        <5>2. taken'.most = taken.n + C
          BY <4>1 DEF C
        <5> QED
          BY <4>1, <5>1, <5>2
      <4> QED
        BY <4>2, <4>3
    <3>2. CASE taken.most # 0
      <4>1. taken'.most = taken.most /\ taken'.n = taken.n + 1
        BY <1>0, <1>1, <3>2
      <4>2. readings.recorded /\ taken.n + Cardinality(Taking) <= taken.most
        BY <3>2 DEF ReadInv, LastInv
      <4> QED
        BY <1>0, <1>1, <2>3, <2>4, <4>1, <4>2
    <3> QED
      BY <3>1, <3>2
  <2> QED
    BY <1>1, <2>1, <2>2, <2>5 DEF LastInv
<1> QED
  BY <1>8, <1>9, <1>10, <1>11 DEF ReadInv

\* What happens to the load and the clock while readings are taken.
LEMMA OthersKeep ==
    ASSUME ReadInv, UNCHANGED <<place, readings, taker, taken>>, clock' \in 0..MaxSeconds,
           clock' >= clock, told' \in {"unborn", "no", "yes"},
           load' \in [process : {"none", "alive", "gone"}, pid : BOOLEAN, status : {"running", "ended"}],
           load.status = "ended" => load'.status = "ended"
    PROVE  ReadInv'
<1>1. ReadTypes'
  BY DEF ReadInv, ReadTypes
<1>2. HistoryInv'
  <2>1. \A a \in DOMAIN readings.kept : readings.kept[a].at <= clock'
    <3> SUFFICES ASSUME NEW a \in DOMAIN readings.kept PROVE readings.kept[a].at <= clock'
      OBVIOUS
    <3>1. readings.kept[a] \in Reading
      BY DEF ReadInv, ReadTypes
    <3>2. readings.kept[a].at \in Int /\ clock \in Int /\ clock' \in Int /\ readings.kept[a].at <= clock
      BY <3>1, ReadingTime DEF ReadInv, ReadTypes, HistoryInv
    <3> QED
      BY <3>2
  <2> QED
    BY <2>1 DEF ReadInv, HistoryInv, InOrder
<1>3. RatesInv' /\ Taking' = Taking
  BY DEF ReadInv, RatesInv, Based, Taking
<1>4. LastInv'
  BY <1>3 DEF ReadInv, LastInv
<1> QED
  BY <1>1, <1>2, <1>3, <1>4 DEF ReadInv

LEMMA ReadingsKept == ReadInv /\ [ReadingNext]_readingVars => ReadInv'
<1> SUFFICES ASSUME ReadInv, [ReadingNext]_readingVars PROVE ReadInv'
  OBVIOUS
<1>0. /\ taker \in [Takers -> Takings] /\ clock \in 0..MaxSeconds /\ MaxSeconds \in Nat
      /\ load \in [process : {"none", "alive", "gone"}, pid : BOOLEAN, status : {"running", "ended"}]
      /\ told \in {"unborn", "no", "yes"} /\ taken \in [n : Nat, most : Nat]
  BY ReadingsAssumption DEF ReadInv, ReadTypes
<1>1. taken.most # 0 => readings.recorded /\ load.status = "ended" /\ taken.n # 0
  BY DEF ReadInv, LastInv
<1>2. CASE RunBegins
  BY <1>1, <1>2, BeginsKeeps DEF RunBegins, Takers
<1>3. CASE Prime \/ Sample
  BY <1>1, <1>3, BeginsKeeps DEF Prime, Sample, Takers
<1>4. CASE PageAsks
  BY <1>0, <1>1, <1>4, BeginsKeeps DEF PageAsks, LastWanted, Takers
<1>5. CASE RecordLast
  BY <1>1, <1>5, BeginsKeeps DEF RecordLast, Takers
<1>6. CASE LoadIsLaunched \/ ProcessEnds \/ Publish \/ Release \/ StartSampler
  <2>1. /\ UNCHANGED <<place, readings, taker, taken, clock>>
        /\ told' \in {"unborn", "no", "yes"}
        /\ load' \in [process : {"none", "alive", "gone"}, pid : BOOLEAN, status : {"running", "ended"}]
        /\ load.status = "ended" => load'.status = "ended"
    BY <1>0, <1>6 DEF LoadIsLaunched, ProcessEnds, Publish, Release, StartSampler
  <2> QED
    BY <1>0, <2>1, OthersKeep
<1>7. CASE Second
  BY <1>0, <1>7, OthersKeep DEF Second
<1>8. CASE \E t \in DOMAIN taker : Takes(t)
  BY <1>0, <1>8, TakesKeeps
<1>9. CASE UNCHANGED readingVars
  BY <1>0, <1>9, OthersKeep DEF readingVars
<1> QED
  BY <1>2, <1>3, <1>4, <1>5, <1>6, <1>7, <1>8, <1>9 DEF ReadingNext

LEMMA ReadingsStart == ReadingInit \/ ReadingRest => ReadInv
<1> SUFFICES ASSUME ReadingInit \/ ReadingRest PROVE ReadInv
  OBVIOUS
<1>1. /\ place \in [host : BOOLEAN, groups : BOOLEAN]
      /\ load = [process |-> "none", pid |-> FALSE, status |-> "running"]
      /\ clock = 0 /\ readings = [kept |-> <<>>, warm |-> FALSE, recorded |-> FALSE]
      /\ taker = [t \in Takers |-> NoReading]
      /\ told = "unborn" /\ taken = [n |-> 0, most |-> 0]
  <2>1. CASE ReadingInit
    BY <2>1 DEF ReadingInit, Takers
  <2>2. CASE ReadingRest
    BY <2>2 DEF ReadingRest, Takers
  <2> QED
    BY <2>1, <2>2
<1>2. NoReading \in Takings /\ NoReading.cpu.of \notin Counters /\ ~NoReading.last
  BY ReadingsAssumption DEF NoReading, NoFigure, Takings, Figures, Counters
<1>3. ReadTypes
  BY <1>1, <1>2, ReadingsAssumption DEF ReadTypes
<1>4. HistoryInv
  BY <1>1 DEF HistoryInv, InOrder
<1>5. RatesInv
  BY <1>1, <1>2 DEF RatesInv
<1>6. LastInv
  BY <1>1, <1>2 DEF LastInv
<1> QED
  BY <1>3, <1>4, <1>5, <1>6 DEF ReadInv

LEMMA ReadingsAreRight == ReadInv => ReadingTypeOK /\ ReadingsAreSound
<1> SUFFICES ASSUME ReadInv PROVE ReadingTypeOK /\ ReadingsAreSound
  OBVIOUS
<1>1. ReadingTypeOK
  BY DEF ReadInv, ReadTypes, ReadingTypeOK
<1>2. CurveIsCurrent
  BY CurveShows DEF ReadInv, ReadTypes, HistoryInv
<1>3. RatesAreOfOneCounter
  <2>0. taken.n \in Nat /\ Keep \in Nat
    BY ReadingsAssumption DEF ReadInv, ReadTypes
  <2>1. CASE taken.n > Keep
    BY <2>1 DEF RatesAreOfOneCounter
  <2>2. CASE taken.n <= Keep
    BY <2>2 DEF ReadInv, RatesInv, Based, RatesAreOfOneCounter
  <2> QED
    BY <2>0, <2>1, <2>2
<1>4. LastIsLast
  BY TakingIsFinite DEF ReadInv, ReadTypes, LastInv, LastIsLast
<1> QED
  BY <1>1, <1>2, <1>3, <1>4 DEF ReadingsAreSound

\* Whoever takes a reading, and whoever else takes one meanwhile, a figure for CPU is the growth
\* of one counter, a curve shows what was read last, and after the last reading none begins.
THEOREM ReadingsHoldThere == MCSpec => []ReadingsHold
<1>1. MCInit => ReadInv
  BY ReadingsStart DEF MCInit
<1>2. [MCNext]_<<vars, part, jobVars, readingVars>> => [ReadingNext]_readingVars
  BY DEF MCNext, PlanSteps, UserSteps, PoolSteps, JobSteps, ReadingSteps
<1>3. ReadInv => ReadingsHold
  BY ReadingsAreRight DEF ReadingsHold
<1> QED
  BY <1>1, <1>2, <1>3, ReadingsKept, PTL DEF MCSpec

=============================================================================
