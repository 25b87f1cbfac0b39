----------------------------- MODULE RunFigures -----------------------------
(***************************************************************************)
(* The figures that pages show of a JMeter run on several agents: the      *)
(* table of endpoints (run_service.py, get_summary_metrics), the chart     *)
(* (get_metrics), the trends (get_endpoint_trends) and the totals.  They   *)
(* are merged from what the agents answer at that moment, or from what the *)
(* poll task or an earlier reader has stored in the run's row.             *)
(*                                                                         *)
(* Time is counted in ticks of the agents' trends; an agent drives each    *)
(* endpoint with a rate and a response time of its own.                    *)
(***************************************************************************)
EXTENDS Integers, Sequences, FiniteSets, SequencesExt, FiniteSetsExt

CONSTANTS
    Loads,          \* of the agents in agent_runs: <<endpoint -> [rate, rt], ...>>
    Endpoints,
    MaxTicks,
    MaxMissed,      \* bounds the ticks that samplers miss
    Bucket          \* ticks in one point of a merged chart or trend

ASSUME FiguresAssumption ==
    /\ Loads \in Seq([Endpoints -> [rate : Nat, rt : Nat]]) /\ Len(Loads) > 1
    /\ \A a \in DOMAIN Loads : \E e \in Endpoints : Loads[a][e].rate > 0
    /\ IsFiniteSet(Endpoints) /\ MaxTicks \in Nat /\ Bucket \in Nat \ {0}

VARIABLES
    agent,      \* agent -> [ticks, seen, read, state, error, up]; seen: ticks of metric_history,
                \* read: ticks in its summary
    row         \* [status, reason, entries, rows, total, archive] of the run

figureVars == <<agent, row>>

Drivers == DOMAIN Loads
Answering == {a \in Drivers : agent[a].up}
Plus(S, f(_)) == SumFunctionOnSet([x \in S |-> f(x)], S)
-----------------------------------------------------------------------------
(* What an agent tells: [n, rt] of an endpoint, rt a fraction *)

Requests(a, e) == Loads[a][e].rate * agent[a].ticks
Rate(a) == Plus(Endpoints, LAMBDA e : Loads[a][e].rate)
\* The summary is read from the results so far.
RowsOf(a, ticks) ==
    {[endpoint |-> e, n |-> Loads[a][e].rate * ticks, rt |-> [num |-> Loads[a][e].rt, den |-> 1]] :
        e \in {e \in Endpoints : Loads[a][e].rate * ticks > 0}}
Fresh(a) == RowsOf(a, agent[a].ticks)
Summary(a) == RowsOf(a, agent[a].read)
BucketOf(tick) == tick \div Bucket
\* Throughput is given for Bucket ticks, to keep to whole numbers.
CoarseTrend(a, e, b) == Cardinality({t \in 0..agent[a].ticks - 1 : BucketOf(t) = b}) * Loads[a][e].rate
FineTrend(a, e) == {[at |-> t, rps |-> Loads[a][e].rate * Bucket] : t \in 0..agent[a].ticks - 1}
-----------------------------------------------------------------------------
(* Merging *)

\* Mutant: every agent weighs the same.
MergeRowEvenly(rows, e) ==
    LET own == {r \in rows : r[2].endpoint = e}
    IN [endpoint |-> e, n |-> Plus(own, LAMBDA r : r[2].n),
        rt |-> [num |-> Plus(own, LAMBDA r : r[2].rt.num), den |-> Cardinality(own)]]
\* _merge_summary_metric_rows, _merge_summary_metric_rows_from_status_entries: rows of agents
\* as <<agent, row>>.
MergeRow(rows, e) ==
    LET own == {r \in rows : r[2].endpoint = e}
    IN [endpoint |-> e, n |-> Plus(own, LAMBDA r : r[2].n),
        rt |-> [num |-> Plus(own, LAMBDA r : r[2].rt.num * r[2].n), den |-> Plus(own, LAMBDA r : r[2].n)]]
Merge(A, rowsOf) ==
    LET rows == UNION {{<<a, r>> : r \in rowsOf[a]} : a \in A}
    IN {MergeRow(rows, e) : e \in {r[2].endpoint : r \in rows}}
\* _aggregate_agent_execution_summaries, _aggregate_execution_summary_items
TotalOf(A) == Plus(A, LAMBDA a : Plus(Summary(a), LAMBDA r : r.n))

\* Each agent's points of a bucket are reduced to their mean, then added up.
MergedChart(A) ==
    LET buckets(a) == {BucketOf(t) : t \in agent[a].seen}
    IN {[at |-> b, rps |-> Plus({a \in A : b \in buckets(a)}, Rate)] : b \in UNION {buckets(a) : a \in A}}
-----------------------------------------------------------------------------
(* The pages *)

Ended == row.status # "running"

\* get_summary_metrics: _attach_run_display_fields has put the rows of the agents that answer
\* in the place of the stored ones, also when the run has ended.
ShownRows ==
    LET live == Merge(Answering, [a \in Answering |-> Fresh(a)])
    IN IF live # {} THEN live ELSE row.rows

\* _get_real_metrics_response without Prometheus: all agents, else the first one, else the one
\* archive that the row names.  Otherwise get_metrics makes a curve up.
PointsOf(a) == {[at |-> t, rps |-> Rate(a)] : t \in agent[a].seen}
ShownChart ==
    IF Answering = Drivers /\ MergedChart(Drivers) # {} THEN MergedChart(Drivers)
    ELSE IF agent[1].up /\ PointsOf(1) # {} THEN PointsOf(1)
    ELSE IF row.archive # 0 THEN PointsOf(row.archive)
    ELSE {}

\* get_endpoint_trends while the run is on: the agents are asked for points of one bucket each.
ShownTrend(e) ==
    {[at |-> b, rps |-> Plus(Answering, LAMBDA a : CoarseTrend(a, e, b))] :
        b \in {BucketOf(t) : t \in UNION {0..agent[a].ticks - 1 : a \in Answering}}}
\* What the poll task stores as trends: the points of all agents, each one once.
StoredTrend(e) == UNION {FineTrend(a, e) : a \in {a \in Drivers : row.entries[a] # "running"}}

\* _build_run_overview_summary
OverviewTotal == IF ShownRows # {} THEN Plus(ShownRows, LAMBDA r : r.n) ELSE row.total
-----------------------------------------------------------------------------
(* The agents *)

Advance(sampled) ==
    /\ sampled \subseteq {a \in Drivers : agent[a].state = "running"}
    /\ \E a \in Drivers : agent[a].state = "running" /\ agent[a].ticks < MaxTicks
    /\ agent' = [a \in Drivers |->
          IF agent[a].state # "running" \/ agent[a].ticks = MaxTicks THEN agent[a]
          ELSE [agent[a] EXCEPT !.ticks = @ + 1,
                                !.seen = IF a \in sampled THEN @ \cup {agent[a].ticks} ELSE @]]
    /\ Plus(Drivers, LAMBDA a : agent'[a].ticks - Cardinality(agent'[a].seen)) <= MaxMissed
    /\ UNCHANGED row
AgentEnds(a) ==
    /\ agent[a].state = "running"
    /\ \/ agent' = [agent EXCEPT ![a].state = "succeeded", ![a].read = agent[a].ticks]
       \/ \E read \in {agent[a].read, agent[a].ticks}, error \in BOOLEAN :
             agent' = [agent EXCEPT ![a].state = "failed", ![a].read = read, ![a].error = error]
    /\ UNCHANGED row
\* A page that asks an agent for its table has it read the results.
AgentIsAsked(a) ==
    /\ agent[a].up /\ agent' = [agent EXCEPT ![a].read = agent[a].ticks]
    /\ UNCHANGED row
Falters(a) == agent' = [agent EXCEPT ![a].up = ~@] /\ UNCHANGED row
-----------------------------------------------------------------------------
(* What is stored *)

Kept(new) == IF new = {} THEN row.rows ELSE new
FirstArchive(A) ==
    LET ended == {a \in A : agent[a].state # "running"}
    IN IF ended = {} THEN row.archive ELSE Min(ended)
StoredBy(A, status) ==
    [status  |-> status,
     reason  |-> IF status = "failed" THEN \E a \in A : agent[a].error ELSE FALSE,
     entries |-> [a \in Drivers |-> IF a \in A THEN agent[a].state ELSE "running"],
     rows    |-> Kept(Merge(A, [a \in A |-> Summary(a)])),
     total   |-> IF status = "running" THEN row.total ELSE TotalOf(A),
     archive |-> FirstArchive(A)]

\* poll_run_status: agents that do not answer count as running.
Poll ==
    /\ row.status = "running"
    /\ row' = StoredBy(Answering, IF \E a \in Answering : agent[a].state = "failed" THEN "failed"
                                ELSE IF \E a \in Drivers : a \notin Answering \/ agent[a].state = "running"
                                THEN "running" ELSE "succeeded")
    /\ UNCHANGED agent

\* _sync_terminal_run_from_agent_status: nothing is stored unless all agents answer and have ended.
ShouldSync ==
    \/ row.status = "running"
    \/ row.status = "succeeded" /\ row.total = 0
    \/ row.status = "failed" /\ ~row.reason
Sync ==
    /\ ShouldSync /\ Answering = Drivers /\ \A a \in Drivers : agent[a].state # "running"
    /\ row' = StoredBy(Drivers, IF \E a \in Drivers : agent[a].state = "failed" THEN "failed" ELSE "succeeded")
    /\ UNCHANGED agent

\* generate_report_file: the rows that it shows are assigned to the run of its session, and
\* stored with the report.
ReportMade == Ended /\ row' = [row EXCEPT !.rows = ShownRows] /\ UNCHANGED agent
-----------------------------------------------------------------------------
FigureInit ==
    /\ agent = [a \in Drivers |-> [ticks |-> 0, seen |-> {}, state |-> "running", read |-> 0,
                                   error |-> FALSE, up |-> TRUE]]
    /\ row = [status |-> "running", reason |-> FALSE, entries |-> [a \in Drivers |-> "running"],
              rows |-> {}, total |-> 0, archive |-> 0]
FigureNext ==
    \/ \E sampled \in SUBSET Drivers : Advance(sampled)
    \/ \E a \in Drivers : AgentEnds(a) \/ AgentIsAsked(a) \/ Falters(a)
    \/ Poll \/ Sync \/ ReportMade
FigureSpec == FigureInit /\ [][FigureNext]_figureVars
-----------------------------------------------------------------------------
(* Properties *)

FigureTypeOK ==
    /\ row.status \in {"running", "succeeded", "failed"} /\ row.archive \in 0..Len(Loads)
    /\ \A a \in Drivers : agent[a].ticks \in agent[a].read..MaxTicks /\ agent[a].seen \subseteq 0..MaxTicks - 1

\* No page shows more than the agents have done.  What it shows is all that some of them have
\* done, with response times as if their requests had been one list: of a run that is on, those
\* that answer; of a run that has succeeded too, or what is stored if none does.
AllRequests(A, e) == Plus(A, LAMBDA a : Requests(a, e))
AllTime(A, e) == Plus(A, LAMBDA a : Requests(a, e) * Loads[a][e].rt)
WholeOf(rows, A) ==
    \A e \in Endpoints : AllRequests(A, e) > 0 =>
        \E r \in rows : /\ r.endpoint = e /\ r.n = AllRequests(A, e)
                        /\ r.rt.num * r.n = AllTime(A, e) * r.rt.den
NeverMore ==
    /\ \A r \in ShownRows : r.n <= AllRequests(Drivers, r.endpoint)
    /\ \A p \in ShownChart : p.rps <= Plus(Drivers, Rate)
    /\ \A e \in Endpoints : \A p \in ShownTrend(e) \cup StoredTrend(e) :
          p.rps <= Plus(Drivers, LAMBDA a : Loads[a][e].rate) * Bucket
FiguresAddUp ==
    /\ NeverMore
    /\ row.status = "succeeded" =>
          \E A \in (SUBSET Drivers) \ {{}} :
             /\ WholeOf(ShownRows, A) /\ {a \in Answering : agent[a].ticks > 0} \in {{}, A}
             /\ OverviewTotal = Plus(Endpoints, LAMBDA e : AllRequests(A, e))
    /\ ~Ended => WholeOf(ShownRows, Answering)
=============================================================================
