--------------------------- MODULE EvidenceGates ---------------------------
(***************************************************************************)
(* Two gates over the evidence of a run: whether there is enough to        *)
(* analyse it (run_analysis_readiness_service.py), computed whenever the   *)
(* run is shown, and whether its report may be handed over                 *)
(* (report_quality_gate_service.py), computed over what the report held    *)
(* when it was made.  A section of a gate is ready, partial or missing.    *)
(***************************************************************************)
EXTENDS Integers, FiniteSets, FiniteSetsExt

CONSTANT MaxReports     \* bounds the generations of the report

VARIABLES
    facts,      \* what is known of the run
    reported      \* [at, of, made]: of, what the report held when it was made

gateVars == <<facts, reported>>

Fields == {"requests", "rate", "avg", "p95"}
Monitors == {"monitors", "trace", "metrics"}
Facts == {"started", "over", "ended at", "rows", "check rates", "agents", "params"} \cup Fields \cup Monitors
-----------------------------------------------------------------------------
(* Sections *)

Missing == 0
Partial == 1
IsReady == 2
Graded(complete, some) == IF complete THEN IsReady ELSE IF some THEN Partial ELSE Missing
\* A gate is blocked by a missing section, else partial, else ready.
WorstState(levels) == Min(levels)

(* RunAnalysisReadinessService *)
Lifecycle(has) == Graded({"over", "started", "ended at"} \subseteq has, FALSE)
RunFigureSection(has) == Graded(Fields \subseteq has, Fields \cap has # {})
\* The rate of the overview stands in for rows of checks.
RunChecks(has) == Graded("check rates" \in has, FALSE)
Context(has) == Graded({"agents", "params"} \subseteq has, {"agents", "params"} \cap has # {})
\* The window of a run is shown once it has started.
FrontDoors(has) ==
    LET doors == {"monitors", "trace", "started"} IN Graded(doors \subseteq has, doors \cap has # {})
RunGate(has) == WorstState({Lifecycle(has), RunFigureSection(has), RunChecks(has), Context(has), FrontDoors(has)})

(* ReportQualityGateService, which looks at the rows of the report only *)
FrontDoorGaps(at) == Graded(at = "whole", FALSE)
ReportFigures(has) == Graded("rows" \in has /\ Fields \subseteq has, "rows" \in has)
\* A report draws its trends, flat ones at worst, for every figure that its rows have.
TrendFigures == {"rate", "avg", "p95"}
ReportTrends(has) ==
    LET drawn == IF "rows" \in has THEN TrendFigures \cap has ELSE {}
    IN Graded(drawn = TrendFigures, drawn # {})
Monitoring(has) == Graded({"monitors", "metrics"} \subseteq has, "monitors" \in has)
ReportGate(at, has) ==
    WorstState({FrontDoorGaps(at), ReportFigures(has), RunChecks(has), ReportTrends(has), Monitoring(has)})
-----------------------------------------------------------------------------
Learn(news) == facts' = facts \cup news /\ UNCHANGED reported
IsActive == "over" \notin facts
GatedStarts == IsActive /\ "started" \notin facts /\ Learn({"started", "agents"})
\* Rows come with some of the fields: k6 has no rate before it ends, a store may lack percentiles.
RowsArrive == "started" \in facts /\ \E some \in SUBSET Fields : Learn({"rows"} \cup some)
ChecksArrive == "started" \in facts /\ Learn({"check rates"})
\* A run that fails before it starts has an end and no beginning.
GatedEnds == IsActive /\ Learn({"over", "ended at"})
MonitorsAreBound == \E m \in Monitors : Learn({m} \cup {"params"})

Unreported == [at |-> "none", of |-> {}, made |-> 0]
\* create_report, and generate_report_file with what the pages of the run have at that time
ReportIsMade ==
    /\ ~IsActive /\ reported.made < MaxReports
    /\ reported' = [at |-> "whole", of |-> facts, made |-> reported.made + 1]
    /\ UNCHANGED facts
\* Its file is lost, or a new version of the control plane asks for another template.
ReportAges ==
    /\ reported.at = "whole" /\ reported' = [reported EXCEPT !.at = "stale"] /\ UNCHANGED facts
-----------------------------------------------------------------------------
GateInit == facts = {} /\ reported = Unreported
GateNext == GatedStarts \/ RowsArrive \/ ChecksArrive \/ GatedEnds \/ MonitorsAreBound \/ ReportIsMade \/ ReportAges
GateSpec == GateInit /\ [][GateNext]_gateVars
-----------------------------------------------------------------------------
(* Properties *)

GateTypeOK ==
    /\ facts \subseteq Facts /\ reported.of \subseteq facts
    /\ RunGate(facts) \in {Missing, Partial, IsReady}

\* What is learnt of a run never makes a gate worse, a gate is ready only of a run that has ended,
\* and a report that may be handed over is one of a run whose figures and checks can be analysed.
GatesHold ==
    /\ \A f \in Facts :
          /\ RunGate(facts \cup {f}) >= RunGate(facts)
          /\ ReportGate(reported.at, reported.of \cup {f}) >= ReportGate(reported.at, reported.of)
    /\ RunGate(facts) = IsReady => "over" \in facts
    /\ ReportGate(reported.at, reported.of) = IsReady =>
          "over" \in facts /\ RunFigureSection(facts) = IsReady /\ RunChecks(facts) = IsReady
=============================================================================
