----------------------------- MODULE AgentPool -----------------------------
(***************************************************************************)
(* The agents as the control plane sees them: the registry, the health     *)
(* probes and the cache they fill, what a run counts for in the pool of    *)
(* idle agents, the check of a new run against that pool, and the choice   *)
(* of the agents it is launched on.  Every agent is one slot.  The hosts   *)
(* are those of all environments, the use is that of one environment.      *)
(* Source: backend/ptp-admin/app/core/agent_orchestrator.py,               *)
(* core/nacos_client.py, services/task_service.py, services/run_service.py.*)
(***************************************************************************)
EXTENDS Integers, FiniteSets, SequencesExt

CONSTANTS
    NumAgents,      \* agents are 1..NumAgents
    Pods,           \* per run that may be created: the agents it asks for
    Env,            \* per run: the environment of its task
    Static,         \* AGENT_HOSTS
    RealDiscovery,  \* a registry is configured
    Grace           \* ticks for which the last discovery may be used again

Agents == 1..NumAgents
Runs == DOMAIN Pods

ASSUME PoolAssumption ==
    /\ NumAgents \in Nat /\ Static \subseteq Agents /\ RealDiscovery \in BOOLEAN
    /\ Grace \in Nat /\ IsFiniteSet(Runs) /\ \A r \in Runs : Pods[r] \in Nat \ {0}
    /\ DOMAIN Env = Runs

VARIABLES
    listed,     \* agents the registry lists as healthy and enabled
    silent,     \* per agent: 0 while it answers, then one more than the ticks of silence
    cache,      \* the orchestrator's agents
    age,        \* ticks since the discovery that filled the cache
    row,        \* per run: [status, aged] in the database
    step,       \* per run: where its creation and launch are
    chosen,     \* per run: the agents selected for it, then those its row names
    token,      \* per run and agent: what the agent knows of the run
    excuse      \* history: why an agent may have been given to two runs

registry == <<listed, silent>>
discovery == <<cache, age>>
runs == <<row, step, chosen, token>>
poolVars == <<registry, discovery, runs, excuse>>

Old == Grace + 1    \* the bound of age, and of the ticks of silence
Answering == {a \in Agents : silent[a] = 0}
Load(r) == {a \in Agents : token[r][a] = "running"}
Envs == {Env[r] : r \in Runs}
RunsIn(e) == {r \in Runs : Env[r] = e}
InFlight(e, s) == {r \in RunsIn(e) : step[r] = s}

PoolInit ==
    /\ silent \in [Agents -> {0, Old + 1}]
    /\ listed = (IF RealDiscovery THEN Answering ELSE {})
    /\ cache = {} /\ age = Old
    /\ row = [r \in Runs |-> [status |-> "none", aged |-> FALSE]]
    /\ step = [r \in Runs |-> "idle"] /\ chosen = [r \in Runs |-> {}]
    /\ token = [r \in Runs |-> [a \in Agents |-> "none"]]
    /\ excuse = {}
-----------------------------------------------------------------------------
(* What a run counts for *)

Active(r) == row[r].status \in {"preparing", "running"}
Named(r) == IF step[r] = "launched" THEN chosen[r] ELSE {}

\* _live_run_counts_as_in_use asks every agent that the run's row names.
Live(r) ==
    IF Named(r) \cap Answering \cap Load(r) # {} THEN "yes"
    ELSE IF Named(r) # {} /\ \A a \in Named(r) : a \in Answering /\ token[r][a] = "ended"
    THEN "no" ELSE "unknown"

\* Mutant: a run counts while its row is active only.
UsageOfActive(r) ==
    IF Active(r) /\ (Live(r) = "yes" \/ (Live(r) = "unknown" /\ ~row[r].aged))
    THEN Pods[r] ELSE 0
\* An active run counts unless all its agents have ended, or nothing is known of it for
\* long; an ended one counts for some time while an agent says that it still runs.
Usage(r) ==
    IF \/ Live(r) = "yes" /\ (Active(r) \/ (row[r].status = "ended" /\ ~row[r].aged))
       \/ Live(r) = "unknown" /\ Active(r) /\ ~row[r].aged
    THEN Pods[r] ELSE 0

Total(f) == FoldFunction(+, 0, f)

\* The pool's size: what is listed, or the configured agents, whatever the environment.
Standby == Cardinality(IF listed # {} THEN listed ELSE Static)
\* Only the runs of the environment are taken off.
Idle(e) == LET left == Standby - Total([r \in RunsIn(e) |-> Usage(r)])
           IN IF left > 0 THEN left ELSE 0

\* An agent's part of the environment's usage: all of it where it is the run's only agent,
\* else a share.
UsageOn(e, a) ==
    LET Share(r) == IF a \notin Named(r) \/ Usage(r) = 0 THEN 0
                    ELSE (Usage(r) + Cardinality(Named(r)) - 1) \div Cardinality(Named(r))
    IN Total([r \in RunsIn(e) |-> Share(r)])
-----------------------------------------------------------------------------
(* Discovery *)

\* The registry's agents, the configured ones only where there is no registry.
Candidates == IF listed = {} /\ ~RealDiscovery THEN Static ELSE listed
Healthy == Candidates \cap Answering
\* What a discovery that is not broken off finds: those that pass a probe, or those that one
\* had found shortly before.
Discovered == IF Healthy # {} THEN Healthy ELSE IF age <= Grace THEN cache ELSE {}

\* Mutant: agents from the cache count as discovered now.
DiscoverRenews ==
    /\ cache' = Discovered
    /\ age' = IF Discovered # {} THEN 0 ELSE age
\* discover_agents returns the cache as it leaves it.  A probe may fail in a way that is_healthy
\* does not expect (an answer that is no object, a connection that is reset): then the cache
\* stays, whatever its age.
Discover ==
    \/ cache' = Discovered /\ age' = IF Healthy # {} THEN 0 ELSE age
    \/ Candidates # {} /\ UNCHANGED discovery

\* A selection that ends without an agent (select_agents raises) has discovered all the same.
DiscoverInVain == Discover /\ discovery' # discovery /\ UNCHANGED <<registry, runs, excuse>>

FallSilent(a) ==
    /\ silent[a] = 0 /\ silent' = [silent EXCEPT ![a] = 1]
    /\ UNCHANGED <<listed, discovery, runs, excuse>>
Return(a) ==
    /\ silent[a] > 0 /\ silent' = [silent EXCEPT ![a] = 0]
    /\ UNCHANGED <<listed, discovery, runs, excuse>>
\* Heartbeats stop or resume: the registry follows later.  While it cannot be asked, its
\* client lists no agent.
RegistryFollows ==
    /\ RealDiscovery /\ \E known \in {Answering, {}} : listed # known /\ listed' = known
    /\ UNCHANGED <<silent, discovery, runs, excuse>>
Tick ==
    /\ silent' = [a \in Agents |-> IF silent[a] \in 1..Old THEN silent[a] + 1
                                   ELSE silent[a]]
    /\ age' = IF age < Old THEN age + 1 ELSE age
    /\ <<silent, age>>' # <<silent, age>>
    /\ UNCHANGED <<listed, cache, runs, excuse>>
-----------------------------------------------------------------------------
(* The creation of a run *)

\* A load that the environment's count cannot see: its row is too old, or has ended and its
\* agent is silent.
Unseen(e) == \E r \in RunsIn(e) :
    Load(r) # {} /\ (row[r].aged \/ (~Active(r) /\ ~(Load(r) \subseteq Answering)))
Note(why, holds) == IF holds THEN {why} ELSE {}

\* create_run counts the idle agents before it creates the row.
Validate(r) ==
    /\ step[r] = "idle"
    /\ step' = [step EXCEPT ![r] = IF Pods[r] > Idle(Env[r]) THEN "refused" ELSE "checked"]
    /\ excuse' = excuse \cup Note("overlap", InFlight(Env[r], "checked") # {})
                        \cup Note("unseen", Unseen(Env[r]))
    /\ UNCHANGED <<registry, discovery, row, chosen, token>>

Insert(r) ==
    /\ step[r] = "checked" /\ step' = [step EXCEPT ![r] = "created"]
    /\ row' = [row EXCEPT ![r].status = "preparing"]
    /\ UNCHANGED <<registry, discovery, chosen, token, excuse>>

Launched(r, status) ==
    /\ step' = [step EXCEPT ![r] = "launched"]
    /\ row' = [row EXCEPT ![r].status = status]

\* select_agents: the least used first; among equals feedback and the task's number decide.
Selections(r, found) ==
    {S \in SUBSET found :
        /\ Cardinality(S) = Pods[r]
        /\ \A a \in S, b \in found \ S : UsageOn(Env[r], a) <= UsageOn(Env[r], b)}

Select(r) ==
    /\ step[r] = "created" /\ Discover
    /\ excuse' = excuse \cup Note("overlap", InFlight(Env[r], "dispatch") # {})
                        \cup Note("missing", Answering # Agents \/ cache' # Agents)
                        \cup Note("unseen", Unseen(Env[r]))
    /\ UNCHANGED <<registry, token>>
    /\ IF Cardinality(cache') < Pods[r] THEN Launched(r, "ended") /\ UNCHANGED chosen
       ELSE /\ \E S \in Selections(r, cache') : chosen' = [chosen EXCEPT ![r] = S]
            /\ step' = [step EXCEPT ![r] = "dispatch"] /\ UNCHANGED row

\* All agents are asked to execute the run; if one cannot, the others are stopped and the
\* run has failed.
Dispatch(r) ==
    /\ step[r] = "dispatch"
    /\ IF chosen[r] \subseteq Answering
       THEN /\ Launched(r, "running") /\ UNCHANGED chosen
            /\ token' = [token EXCEPT ![r] =
                  [a \in Agents |-> IF a \in chosen[r] THEN "running" ELSE @[a]]]
       ELSE /\ Launched(r, "ended")
            /\ chosen' = [chosen EXCEPT ![r] = @ \cap Answering]
            /\ token' = [token EXCEPT ![r] =
                  [a \in Agents |-> IF a \in chosen[r] \cap Answering THEN "ended" ELSE @[a]]]
    /\ UNCHANGED <<registry, discovery, excuse>>

LoadEnds(r, a) ==
    /\ token[r][a] = "running" /\ token' = [token EXCEPT ![r][a] = "ended"]
    /\ UNCHANGED <<registry, discovery, row, step, chosen, excuse>>
\* The run is ended in the database; a poll that gives up does so while its load runs on.
RowEnds(r) ==
    /\ row[r].status = "running" /\ row' = [row EXCEPT ![r].status = "ended"]
    /\ UNCHANGED <<registry, discovery, step, chosen, token, excuse>>
\* Half an hour without a change to the row.
RowAges(r) ==
    /\ row[r].status \in {"running", "ended"} /\ ~row[r].aged
    /\ row' = [row EXCEPT ![r].aged = TRUE]
    /\ UNCHANGED <<registry, discovery, step, chosen, token, excuse>>

Weather == \/ \E a \in Agents : FallSilent(a) \/ Return(a)
           \/ RegistryFollows \/ Tick \/ DiscoverInVain
Launch(r) == Insert(r) \/ Select(r) \/ Dispatch(r)
Life(r) == \/ RowEnds(r) \/ RowAges(r)
           \/ \E a \in Agents : LoadEnds(r, a)

PoolNext == \/ Weather
            \/ \E r \in Runs : Validate(r) \/ Launch(r) \/ Life(r)
PoolSpec == PoolInit /\ [][PoolNext]_poolVars
-----------------------------------------------------------------------------
(* Properties *)

PoolTypeOK ==
    /\ listed \subseteq Agents /\ silent \in [Agents -> 0..Old + 1]
    /\ cache \subseteq Agents /\ age \in 0..Old
    /\ row \in [Runs -> [status : {"none", "preparing", "running", "ended"}, aged : BOOLEAN]]
    /\ step \in [Runs -> {"idle", "refused", "checked", "created", "dispatch", "launched"}]
    /\ chosen \in [Runs -> SUBSET Agents]
    /\ token \in [Runs -> [Agents -> {"none", "running", "ended"}]]
    /\ excuse \subseteq {"overlap", "missing", "unseen"}

\* No agent bears the load of two runs of one environment, unless two of its runs were checked
\* or selected at the same time, an agent was missing when the agents were selected, or a load
\* could not be seen.  (Runs of different environments do share agents.)
AgentsNotShared ==
    excuse = {} => \A e \in Envs, a \in Agents : Cardinality({r \in RunsIn(e) : a \in Load(r)}) <= 1

\* A run is never handed to an agent that has been silent for longer than the grace, however
\* often the cache was used in between, but by a discovery that breaks off and keeps an older
\* cache.
SelectedRecently ==
    [][\A r \in Runs : step[r] = "created" /\ step'[r] = "dispatch" =>
          \A a \in chosen'[r] : silent[a] - 1 <= Grace \/ (age > Grace /\ UNCHANGED discovery)]_poolVars
=============================================================================
