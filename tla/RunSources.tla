----------------------------- MODULE RunSources -----------------------------
(***************************************************************************)
(* Where the pages of a run take their figures from (run_service.py): the  *)
(* table of endpoints, the chart, the trends and the checks each try their *)
(* sources in an order of their own - the agents, Prometheus and the push  *)
(* gateway, the archive, what is stored with the run - and the chart makes *)
(* a curve up when all fail.  A figure is modelled by its source and by    *)
(* the agents whose work it covers.                                        *)
(***************************************************************************)
EXTENDS Integers, FiniteSets, Sequences, FiniteSetsExt

CONSTANTS
    Kinds,          \* of runs: "jmeter", or k6 of the protocol "http", "grpc", "mixed"
    SourceAgents    \* the agents of the run: numbers from 1, the order of its contexts

ASSUME SourcesAssumption ==
    /\ Kinds \subseteq {"jmeter", "http", "grpc", "mixed"}
    /\ 1 \in SourceAgents /\ SourceAgents \subseteq Nat /\ IsFiniteSet(SourceAgents)

VARIABLES
    kind,
    driver,     \* agent -> [at, up, tells]: tells, what its status holds of "rows", "trends"
    prom,       \* Prometheus: [up, runs, token]: agents whose k6 series it has, the first one's gauges
    gateway,    \* the push gateway has the gauges of the first agent
    kept        \* the run's row: [status, rows, checks, trends, totals, archive]

sourceVars == <<kind, driver, prom, gateway, kept>>

K6 == kind # "jmeter"
IsGrpc == kind = "grpc"
IsMixed == kind = "mixed"
RunEnded == kept.status # "running"
Heard == {a \in SourceAgents : driver[a].up}
Started(A) == {a \in A : driver[a].at # "starting"}
Telling(A, what) == {a \in A : what \in driver[a].tells}
-----------------------------------------------------------------------------
(* Figures.  A page takes the first source that has any. *)

Figure(source, agents) == [from |-> source, of |-> agents]
Nothing == Figure("nothing", {})
When(condition, figure) == IF condition THEN figure ELSE Nothing
FirstFigure(figures) ==
    LET some == {i \in DOMAIN figures : figures[i].of # {}}
    IN IF some = {} THEN Nothing ELSE figures[Min(some)]

\* _fetch_agent_summary_metrics_from_all_contexts: agents that do not answer are left out.  A
\* JMeter agent reads its results when it is asked, a k6 agent that drives has one overall row.
LiveRows == IF K6 THEN Telling(Heard, "rows") ELSE Started(Heard)
OverallRows == IF K6 THEN Started(Heard) ELSE {}
LiveTable == IF LiveRows # {} THEN Figure("agents", LiveRows \cup OverallRows)
             ELSE Figure("agents, overall", OverallRows)
\* Prometheus is asked for the window of the run, by the label of the run, not the token.
Sampled == IF prom.up THEN prom.runs ELSE {}
\* _fetch_prometheus_live_http_summary_metrics, _fetch_prometheus_live_grpc_summary_metrics
Series == IF K6 THEN Sampled ELSE {}
\* The archived points have a time, a rate and a percentile: rows of another kind are looked for
\* in vain.
ArchivedTable == Nothing
ArchivedTrends == Nothing
ArchivedChecks == Nothing

(* The chart *)
PromChart == When(prom.up /\ prom.token, Figure("prometheus", {1}))
GatewayChart == When(gateway, Figure("gateway", {1}))
AgentChart == When(1 \in Heard, Figure("agents", Started({1})))
AllAgentsChart == When(Heard = SourceAgents, Figure("agents", Started(SourceAgents)))
ArchiveChart == Figure("archive", kept.archive)
\* _get_real_metrics_response
RealChart ==
    FirstFigure(<<When(Cardinality(SourceAgents) > 1, AllAgentsChart),
              PromChart, GatewayChart, AgentChart, ArchiveChart>>)
\* get_metrics
Chart == IF RealChart.of # {} THEN RealChart ELSE Figure("made up", {})

(* The table *)
\* _fetch_prometheus_live_k6_endpoint_contract_fields: requests and rates by endpoint
Contract == Series
\* _apply_real_metric_summary_contract: Prometheus has the last word on a row of k6.
Align(figure) ==
    IF figure.of # {} /\ Contract # {} THEN Figure("prometheus", Contract) ELSE figure
Totals == Figure("totals", kept.totals)
\* _build_fallback_summary_metrics
OverallFigure == FirstFigure(<<RealChart, Totals>>)
MixedTable == Figure("agents", LiveTable.of \cup Series)
\* The rows of JMeter agents that answer stand in for the stored ones.
StoredTable == Figure("stored", IF ~K6 /\ LiveRows # {} THEN LiveRows ELSE kept.rows)
\* get_summary_metrics
Table ==
    Align(FirstFigure(<<When(RunEnded, StoredTable),
                    When(IsMixed, MixedTable),
                    LiveTable,
                    StoredTable,
                    When(IsGrpc \/ ~RunEnded, Figure("prometheus", Series)),
                    ArchivedTable,
                    OverallFigure>>))

(* The trends, which leave the stored rows alone *)
HttpTrends == When(~IsGrpc, Figure("prometheus", Series))
GrpcTrends == When(IsGrpc \/ IsMixed, Figure("prometheus", Series))
\* _fetch_prometheus_k6_endpoint_trends
SeriesTrends == FirstFigure(<<HttpTrends, GrpcTrends>>)
StoredTrends == Figure("stored", kept.trends)
AgentTrends == Figure("agents", IF K6 THEN Telling(Heard, "rows") ELSE Started(Heard))
\* _build_endpoint_trends_from_summary_rows: the same value from start to end
Flat(rows) == Figure("flat lines", rows)
\* Stored trends of at least two points an endpoint come first, once a JMeter run has ended.
DurableTrends == When(RunEnded /\ ~K6, StoredTrends)
TotalTrends == When(kept.totals # {}, FirstFigure(<<RealChart, Totals>>))
\* get_endpoint_trends
Trends ==
    FirstFigure(<<SeriesTrends, DurableTrends, AgentTrends, Flat(LiveRows), ArchivedTrends,
              Flat(kept.rows), StoredTrends, TotalTrends>>)

(* The checks: the stored ones come first, also while the run is on *)
StatusChecks == Figure("status", IF K6 THEN Telling(Heard, "rows") ELSE {})
AgentChecks == Figure("agents", IF K6 THEN Telling(Heard, "rows") ELSE Started(Heard))
SeriesChecks == Figure("prometheus", Series)
TotalChecks == When(K6 \/ kept.rows # {}, Totals)
\* get_checks
Checks ==
    FirstFigure(<<Figure("stored", kept.checks),
              When(IsMixed, Figure("agents", StatusChecks.of \cup AgentChecks.of \cup Series)),
              StatusChecks, AgentChecks, SeriesChecks, ArchivedChecks, TotalChecks>>)

(* The rate in the overview of an ended k6 run: what the run's summary says, unless Prometheus says *)
(* something else - which it does, within a tenth, when it has heard of other agents. *)
Headline ==
    IF ~IsMixed /\ Contract \notin {{}, kept.totals} THEN Figure("prometheus", Contract) ELSE Totals
-----------------------------------------------------------------------------
(* The agents and the stores beside them *)

DriverBegins(a) ==
    /\ driver[a].at = "starting" /\ driver' = [driver EXCEPT ![a].at = "driving"]
    /\ UNCHANGED <<kind, prom, gateway, kept>>
\* The first agent's gauges are pushed when it ends; the push may fail.
DriverEnds(a) ==
    /\ driver[a].at = "driving"
    /\ driver' = [driver EXCEPT ![a].at = "ended", ![a].tells = {"rows", "trends"}]
    /\ \/ UNCHANGED gateway
       \/ a = 1 /\ gateway' = TRUE
    /\ UNCHANGED <<kind, prom, kept>>
\* A page asks a JMeter agent: the results it reads take the place of its summary, trends and all.
DriverIsAsked(a) ==
    /\ ~K6 /\ a \in Started(Heard) /\ driver' = [driver EXCEPT ![a].tells = {"rows"}]
    /\ UNCHANGED <<kind, prom, gateway, kept>>
DriverFalters(a) ==
    /\ driver' = [driver EXCEPT ![a].up = ~@] /\ UNCHANGED <<kind, prom, gateway, kept>>
Scrape ==
    /\ \/ K6 /\ \E a \in Started(SourceAgents) : prom' = [prom EXCEPT !.runs = @ \cup {a}]
       \/ gateway /\ prom' = [prom EXCEPT !.token = TRUE]
    /\ UNCHANGED <<kind, driver, gateway, kept>>
PrometheusFalters ==
    /\ prom' = [prom EXCEPT !.up = ~@] /\ UNCHANGED <<kind, driver, gateway, kept>>
-----------------------------------------------------------------------------
(* What is stored *)

Update(new, old) == IF new = {} THEN old ELSE new
AllHaveEnded == Heard = SourceAgents /\ \A a \in SourceAgents : driver[a].at = "ended"
ArchiveOf(A) ==
    LET ended == {a \in A : driver[a].at = "ended"}
    IN IF ended = {} THEN kept.archive ELSE {CHOOSE a \in ended : \A b \in ended : a <= b}

\* poll_run_status of the worker
StoredByPoll ==
    /\ ~RunEnded
    /\ kept' = [status  |-> IF AllHaveEnded THEN "succeeded" ELSE "running",
                rows    |-> Update(Telling(Heard, "rows"), kept.rows),
                checks  |-> Update(Telling(Heard, "rows"), kept.checks),
                trends  |-> Update(Telling(Heard, "trends"), kept.trends),
                totals  |-> IF AllHaveEnded THEN Heard ELSE kept.totals,
                archive |-> ArchiveOf(Heard)]
    /\ UNCHANGED <<kind, driver, prom, gateway>>
\* _sync_terminal_run_from_agent_status: trends that are stored already are left as they are.
StoredByPage ==
    /\ ~RunEnded /\ AllHaveEnded
    /\ kept' = [status |-> "succeeded", rows |-> SourceAgents, checks |-> SourceAgents,
                trends |-> Update(kept.trends, Telling(SourceAgents, "trends")),
                totals |-> SourceAgents, archive |-> ArchiveOf(SourceAgents)]
    /\ UNCHANGED <<kind, driver, prom, gateway>>
\* The run is given up, with what was stored until then.
GivenUp == ~RunEnded /\ kept' = [kept EXCEPT !.status = "failed"] /\ UNCHANGED <<kind, driver, prom, gateway>>
-----------------------------------------------------------------------------
SourceInit ==
    /\ kind \in Kinds
    /\ driver = [a \in SourceAgents |-> [at |-> "starting", up |-> TRUE, tells |-> {}]]
    /\ prom = [up |-> TRUE, runs |-> {}, token |-> FALSE] /\ gateway = FALSE
    /\ kept = [status |-> "running", rows |-> {}, checks |-> {}, trends |-> {}, totals |-> {},
               archive |-> {}]
SourceNext ==
    \/ \E a \in SourceAgents : DriverBegins(a) \/ DriverEnds(a) \/ DriverIsAsked(a) \/ DriverFalters(a)
    \/ Scrape \/ PrometheusFalters \/ StoredByPoll \/ StoredByPage \/ GivenUp
SourceSpec == SourceInit /\ [][SourceNext]_sourceVars
-----------------------------------------------------------------------------
(* Properties *)

SourceTypeOK ==
    /\ \A a \in SourceAgents : driver[a].at \in {"starting", "driving", "ended"}
    /\ prom.runs \subseteq SourceAgents /\ kept.status \in {"running", "succeeded", "failed"}
    /\ \A f \in {Table, Chart, Trends, Checks} : f.of \subseteq SourceAgents

\* No page is empty of a run of which another one shows figures: what the chart shows is in the
\* table too, and an ended run with a table has trends and checks.
NonePoorer ==
    /\ Chart.from # "made up" => Table.of # {}
    /\ kept.status = "succeeded" => Trends.of # {} /\ Checks.of # {} /\ Table.of # {}
\* Of a run that has succeeded a page shows the work of some agents as that of all only where
\* these are the ways to it.  The checks never do.  The chart does while an agent is silent: it is
\* asked for again.  Of k6, table and headline do where Prometheus has heard of some agents only,
\* whose sums it puts in place of the stored ones; trends also where it has heard of none and an
\* agent is silent.  Of JMeter, the rows of those that answer stand in for the stored ones, and
\* StoredByPage keeps trends that a poll has stored of the agents that had ended by then.
PartsAreExplained ==
    kept.status = "succeeded" =>
        /\ Checks.of = SourceAgents
        /\ Heard = SourceAgents => Chart.of = SourceAgents
        /\ IF K6
           THEN /\ Series \in {{}, SourceAgents} => {Table.of, Headline.of} = {SourceAgents}
                /\ Series = SourceAgents \/ (Series = {} /\ Heard = SourceAgents)
                      => Trends.of = SourceAgents
           ELSE Heard = SourceAgents =>
                   Table.of = SourceAgents /\ (Trends.of = SourceAgents \/ Trends.from = "stored")
SourcesHold == NonePoorer /\ PartsAreExplained
=============================================================================
