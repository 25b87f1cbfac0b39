----------------------------- MODULE LoadShares -----------------------------
(***************************************************************************)
(* The load of a run, divided among its agents.  Every agent computes its  *)
(* own share from the target and the number of agents that the dispatch    *)
(* has put into the request (ptp-agent execute.py, k6_runner.py,           *)
(* jmeter_runner.py); nobody adds the shares up.  A k6 agent starts one    *)
(* scenario per weight at rate iterations in every unit seconds, with      *)
(* virtual users allocated out of a budget per agent; a JMeter agent has   *)
(* its target as a property of the test plan, rounded to 1/10000.          *)
(*                                                                         *)
(* Weights are whole numbers; the standard scripts without weights have    *)
(* the same weight for all scenarios.                                      *)
(***************************************************************************)
EXTENDS Integers, Sequences, FiniteSets, Functions

CONSTANTS
    Targets,        \* target_tps of a run
    MaxAgents,      \* agents of a run
    Threads,        \* thread counts of a run
    Mixes           \* the weights of the scripts: sequences of positive numbers

\* A script with more scenarios than an agent has users to start with would leave some of its
\* scenarios none; the standard scripts have a few.
HardCapVus == 400
ASSUME LoadAssumption ==
    /\ Targets \subseteq Nat \ {0} /\ MaxAgents \in Nat \ {0} /\ Threads \subseteq Nat \ {0}
    /\ Mixes \subseteq Seq(Nat \ {0}) /\ \A mix \in Mixes : Len(mix) \in 1..HardCapVus

VARIABLES
    load,       \* [engine, target, agents, threads, mix, uniform, influx, duration]
    config      \* what each agent that has been started runs with

loadVars == <<load, config>>

\* The _STANDARD_SCENARIO_ constants, per agent.
BaselineVus == 200
MinMaxVus == 200
MaxVusCap == 800
QpsPerVu == 5

Small(a, b) == IF a < b THEN a ELSE b
Large(a, b) == IF a > b THEN a ELSE b
Ceil(a, b) == (a + b - 1) \div b
Total(f) == SumFunction(f)
Each(f, Op(_)) == [i \in DOMAIN f |-> Op(f[i])]
-----------------------------------------------------------------------------
(* _allocate_proportional_integers *)

\* The largest remainders get what the division leaves; ties go to larger values, then to
\* earlier ones.
Scale(values, target) ==
    LET sum == Total(values)
        floor == [i \in DOMAIN values |-> (values[i] * target) \div sum]
        rest == [i \in DOMAIN values |-> (values[i] * target) % sum]
        Ahead(j, i) ==
            \/ rest[j] > rest[i]
            \/ rest[j] = rest[i] /\ values[j] > values[i]
            \/ rest[j] = rest[i] /\ values[j] = values[i] /\ j < i
        first == {i \in DOMAIN values :
                    Cardinality({j \in DOMAIN values : Ahead(j, i)}) < target - Total(floor)}
    IN [i \in DOMAIN values |-> floor[i] + (IF i \in first THEN 1 ELSE 0)]

Allocate(values, target, minimums) ==
    IF Total(minimums) >= target THEN Scale(minimums, target)
    ELSE IF Total(values) <= target THEN values
    ELSE LET extras == [i \in DOMAIN values |-> Large(0, values[i] - minimums[i])]
             scaled == Scale(extras, target - Total(minimums))
         IN [i \in DOMAIN values |-> minimums[i] + scaled[i]]
-----------------------------------------------------------------------------
(* k6: _build_uniform_arrival_scenario_configs, _build_weighted_mixed_adapter_details *)

\* Mutant: the target is divided by the agents first, and what is left over is lost.
RatesOfShare(l) ==
    LET share == Large(1, l.target \div l.agents)
        parts == Total(l.mix)
        shares == Each(l.mix, LAMBDA w : w * share)
        d == CHOOSE d \in 1..parts :
                /\ parts % d = 0 /\ \A i \in DOMAIN shares : shares[i] % d = 0
                /\ \A e \in d + 1..parts :
                      ~(parts % e = 0 /\ \A i \in DOMAIN shares : shares[i] % e = 0)
    IN [unit |-> parts \div d, rate |-> Each(shares, LAMBDA s : s \div d)]
\* Each scenario's part of target / agents as a fraction, all over the same unit.
Rates(l) ==
    LET parts == Total(l.mix) * l.agents
        shares == Each(l.mix, LAMBDA w : w * l.target)
        d == CHOOSE d \in 1..parts :
                /\ parts % d = 0 /\ \A i \in DOMAIN shares : shares[i] % d = 0
                /\ \A e \in d + 1..parts :
                      ~(parts % e = 0 /\ \A i \in DOMAIN shares : shares[i] % e = 0)
    IN [unit |-> parts \div d, rate |-> Each(shares, LAMBDA s : s \div d)]

\* The virtual users that each scenario starts with at least, and those it asks for.
Floor(l) == IF l.uniform THEN l.threads ELSE Ceil(l.threads, Len(l.mix))
Asked(l) ==
    IF l.uniform
    THEN Each(l.mix, LAMBDA w : Large(l.threads, Ceil(l.target, l.agents * Len(l.mix))))
    ELSE Each(Rates(l).rate, LAMBDA r : Large(Floor(l), Ceil(r, Rates(l).unit)))
\* _resolve_standard_total_pre_allocated_vus_budget
Budget(l) ==
    Small(HardCapVus,
          Large(Len(l.mix) * Floor(l), Large(BaselineVus, Ceil(l.target, l.agents * QpsPerVu))))

PreAllocated(l) == Allocate(Asked(l), Budget(l), Each(l.mix, LAMBDA w : Floor(l)))
\* _compute_standard_scenario_max_vus, within twice what is allocated and the cap
MaxVus(l, pre) ==
    Allocate(Each(pre, LAMBDA v : Large(4 * v, Ceil(MinMaxVus, Len(l.mix)))),
             Small(MaxVusCap, Large(MinMaxVus, 2 * Total(pre))), pre)
-----------------------------------------------------------------------------
(* JMeter: _enrich_jmeter_influx_properties, _resolve_iteration_count *)

\* target_tps_per_agent, in 1/10000; it is set along with the metrics only.
PerAgent(l) ==
    IF l.influx THEN Large(10000, (2 * 10000 * l.target + l.agents) \div (2 * l.agents)) ELSE 0
\* The iterations of each thread of a mixed run that counts them.
Iterations(l) ==
    IF l.influx THEN Large(1, Ceil(PerAgent(l) * l.duration, 10000 * l.threads)) ELSE 0

Configure(i) ==
    /\ i \in 1..load.agents \ DOMAIN config
    /\ \E rates \in {Rates(load)}, pre \in {PreAllocated(load)} :
       \E mine \in {IF load.engine = "k6"
                    THEN [unit |-> rates.unit, rate |-> rates.rate,
                          pre |-> pre, most |-> MaxVus(load, pre)]
                    ELSE [share |-> PerAgent(load), iterations |-> Iterations(load)]} :
          config' = [j \in (DOMAIN config) \cup {i} |-> IF j = i THEN mine ELSE config[j]]
    /\ UNCHANGED load
-----------------------------------------------------------------------------
LoadInit ==
    /\ load \in [engine : {"k6", "jmeter"}, target : Targets, agents : 1..MaxAgents,
                 threads : Threads, mix : Mixes, uniform : BOOLEAN, influx : BOOLEAN,
                 duration : {1, 10}]
    /\ load.uniform => \A i \in DOMAIN load.mix : load.mix[i] = 1
    \* What the engine does not look at is not varied.
    /\ load.engine = "k6" => load.influx /\ load.duration = 1
    /\ load.engine = "jmeter" => Len(load.mix) = 1 /\ load.uniform
    /\ config = [i \in {} |-> 0]
LoadNext == \E i \in 1..MaxAgents : Configure(i)
LoadSpec == LoadInit /\ [][LoadNext]_loadVars
-----------------------------------------------------------------------------
(* Properties *)

LoadTypeOK ==
    /\ load.agents \in 1..MaxAgents /\ load.target \in Targets /\ load.mix \in Mixes
    /\ DOMAIN config \subseteq 1..load.agents

Scenarios == DOMAIN load.mix
RatesAddUp ==
    LET Fraction(i, s) == config[i].rate[s] * load.agents * Total(load.mix)
    IN \A i \in 1..load.agents, s \in Scenarios :
          config[i].unit = config[1].unit /\ Fraction(i, s) = load.target * load.mix[s] * config[i].unit
VusFit ==
    \A i \in 1..load.agents :
        /\ \A s \in Scenarios : 1 <= config[i].pre[s] /\ config[i].pre[s] <= config[i].most[s]
        /\ Total(config[i].pre) <= HardCapVus /\ Total(config[i].most) <= MaxVusCap
        /\ Floor(load) * Len(load.mix) <= HardCapVus =>
              \A s \in Scenarios : config[i].pre[s] >= Floor(load)
SharesAddUp ==
    LET sum == Total([i \in 1..load.agents |-> config[i].share])
    IN load.target >= load.agents =>
          /\ 2 * (sum - 10000 * load.target) \in -load.agents..load.agents
          /\ \A i \in 1..load.agents :
                config[i].iterations * load.threads * 10000 >= config[i].share * load.duration

\* Once all agents have been started, their shares are the target: for k6 exactly, and every
\* scenario has the part of its weight; for JMeter up to the rounding, if the metrics are on
\* and no agent would have less than one request per second.  The virtual users of an agent
\* stay within the caps, k6 is never given more to start with than at most, and every
\* scenario has the threads of the task as long as all of them fit.
LoadIsShared ==
    DOMAIN config = 1..load.agents =>
        IF load.engine = "k6" THEN RatesAddUp /\ VusFit ELSE load.influx => SharesAddUp
=============================================================================
