--------------------------- MODULE RunJudgements ---------------------------
(***************************************************************************)
(* What the control plane says of a run (run_service.py): the baseline     *)
(* that users set for a task, the verdict by thresholds and against the    *)
(* baseline, the answer of the analyst, and the two gates that say whether *)
(* there is enough to analyse a run or to hand its report over.            *)
(***************************************************************************)
EXTENDS Integers, FiniteSets, Sequences, SequencesExt

CONSTANTS
    JudgedRuns,     \* of one task in one environment
    ProtocolOf,     \* run -> protocol, "none" if it has none
    MaxPending,     \* bounds the users who are setting a baseline at one time
    FigureSets,     \* what runs end with: [rate, time, tail, errors], errors in per cent
    OtherFigures,   \* with which verdicts are compared
    TimeLimit,      \* params.p95_threshold_ms, 0 for none
    Findings        \* what else the analyst may find: sets of Sources

Sources == {"dashboards", "queries", "trends", "logs", "strained pods", "alerts", "reason"}
ASSUME JudgementsAssumption ==
    /\ FigureSets \cup OtherFigures \subseteq [rate : Nat, time : Nat, tail : Nat, errors : Nat]
    /\ Findings \subseteq SUBSET Sources /\ TimeLimit \in Nat /\ MaxPending \in Nat

VARIABLES
    judged,     \* run -> [status, figures, over]: figures, a member of FigureSets or Unknown
    baseline,   \* scope -> rows of run_baselines: runs
    pending,    \* what users are about to set: [run, scope, sees]
    analyst     \* [at, run, first, later, found]: what it has read for the verdict, and afterwards

judgementVars == <<judged, baseline, pending, analyst>>

Unknown == [rate |-> 0, time |-> 0, tail |-> 0, errors |-> -1]
ActiveStati == {"preparing", "running"}
HasEnded(r) == judged[r].status \notin ActiveStati
\* _build_baseline_scope
TaskScope == <<"task_env">>
ProtocolScope(p) == <<"task_env_protocol", p>>
Scopes == {TaskScope} \cup {ProtocolScope(ProtocolOf[r]) : r \in {r \in JudgedRuns : ProtocolOf[r] # "none"}}
ScopesOf(r) == {TaskScope} \cup IF ProtocolOf[r] = "none" THEN {} ELSE {ProtocolScope(ProtocolOf[r])}
\* _normalize_baseline_scope_type
OwnScope(r) == IF ProtocolOf[r] = "none" THEN TaskScope ELSE ProtocolScope(ProtocolOf[r])
-----------------------------------------------------------------------------
(* The verdict *)

Pass == 0
Warn == 1
Fail == 2
Worst(ranks) == CHOOSE k \in ranks : \A other \in ranks : other <= k    \* _merge_verdict
Rank(fails, warns) == IF fails THEN Fail ELSE IF warns THEN Warn ELSE Pass
OfStatus(status) == Rank(status = "failed", status \in ActiveStati)
OfErrors(f) == Rank(f.errors >= 5, f.errors >= 1)
OfLimit(f) == Rank(TimeLimit > 0 /\ f.time > TimeLimit, FALSE)
\* A metric that either side lacks, or that is 0 in the baseline, is passed over.
Comparable(f, b, m) == f # Unknown /\ b # Unknown /\ b[m] # 0
\* Mutant: a gain counts like a loss.
RoseOrFell(f, b, m, percent) ==
    Comparable(f, b, m) /\ (f[m] * 100 >= b[m] * (100 + percent) \/ f[m] * 100 <= b[m] * (100 - percent))
Fell(f, b, m, percent) == Comparable(f, b, m) /\ f[m] * 100 <= b[m] * (100 - percent)
Rose(f, b, m, percent) == Comparable(f, b, m) /\ f[m] * 100 >= b[m] * (100 + percent)
AgainstBaseline(f, b) ==
    {Rank(Fell(f, b, "rate", 20), Fell(f, b, "rate", 10)),
     Rank(Rose(f, b, "time", 20), Rose(f, b, "time", 10)),
     Rank(Rose(f, b, "tail", 30), Rose(f, b, "tail", 15))}
\* get_run_verdict, b the figures of the baseline
Verdict(status, f, b) ==
    Worst({OfStatus(status), OfErrors(f), OfLimit(f)} \cup AgainstBaseline(f, b))
\* _select_run_ai_top_metric_delta: error rates have no delta
Deltas(f, b) == {m \in {"rate", "time", "tail"} : Comparable(f, b, m)}
-----------------------------------------------------------------------------
(* Runs *)

\* The load is over; poll task, watchdog or a page will end the run.
LoadEnds(r) ==
    /\ judged[r].status = "running" /\ ~judged[r].over
    /\ judged' = [judged EXCEPT ![r].over = TRUE]
    /\ UNCHANGED <<baseline, pending, analyst>>
JudgedStarts(r) ==
    /\ judged[r].status = "preparing" /\ judged' = [judged EXCEPT ![r].status = "running"]
    /\ UNCHANGED <<baseline, pending, analyst>>
\* A run that ends as "ended" has succeeded or was stopped: the verdict has no rule for either.
Endings == [status : {"ended", "failed"}, figures : FigureSets \cup {Unknown}]
EndedAs(r, e) == [judged EXCEPT ![r].status = e.status, ![r].figures = e.figures, ![r].over = TRUE]
JudgedEnds(r) ==
    /\ ~HasEnded(r) /\ \E e \in Endings : judged' = EndedAs(r, e)
    /\ UNCHANGED <<baseline, pending, analyst>>
-----------------------------------------------------------------------------
(* set_run_baseline: the row of the scope is looked up, then changed or inserted *)

SetterLooks(r, s) ==
    /\ Cardinality(pending) < MaxPending
    /\ s \in ScopesOf(r) /\ HasEnded(r)
    /\ pending' = pending \cup {[run |-> r, scope |-> s, sees |-> baseline[s] # <<>>]}
    /\ UNCHANGED <<judged, baseline, analyst>>
\* The rows of the scope after the commit.  A second insert fails, for the scope's key is unique,
\* and its user is told of an error.
Written(p) == IF ~p.sees /\ baseline[p.scope] # <<>> THEN baseline[p.scope] ELSE <<p.run>>
SetterWrites(p) ==
    /\ baseline' = [baseline EXCEPT ![p.scope] = Written(p)] /\ pending' = pending \ {p}
    /\ UNCHANGED <<judged, analyst>>
-----------------------------------------------------------------------------
(* get_run_ai_analyst: verdict, table, dashboards, baseline - read in this order by one session.  *)
(* A commit in between lets the later reads see what others have written meanwhile.               *)

Asleep == [at |-> "idle", run |-> 0, first |-> <<>>, later |-> <<>>, found |-> {}]
BaselineOf(r) == baseline[OwnScope(r)]
Sight(r) ==
    [status |-> judged[r].status, figures |-> judged[r].figures, base |-> BaselineOf(r)]
BaseFigures(sight) == IF sight.base = <<>> THEN Unknown ELSE judged[sight.base[1]].figures
AnalystJudges(r) ==
    /\ analyst = Asleep
    /\ analyst' = [at |-> "judged", run |-> r, first |-> Sight(r), later |-> Sight(r), found |-> {}]
    /\ UNCHANGED <<judged, baseline, pending>>
\* get_summary_metrics ends a run whose agents have ended, and commits that.
AnalystReadsTable ==
    LET r == analyst.run
        ends == analyst.first.status = "running" /\ judged[r].over
    IN /\ analyst.at = "judged"
       /\ \/ /\ ends /\ ~HasEnded(r)
             /\ \E e \in {e \in Endings : e.figures # Unknown} :
                   judged' = EndedAs(r, e)
          \/ (~ends \/ HasEnded(r)) /\ UNCHANGED judged
       /\ analyst' = [analyst EXCEPT
             !.at = "read",
             !.later.status = IF ends THEN judged'[r].status ELSE @,
             !.later.figures = IF ends THEN judged'[r].figures ELSE @]
       /\ UNCHANGED <<baseline, pending>>
Committed == analyst.first.status = "running" /\ analyst.later.status # "running"
AnalystAnswers ==
    /\ analyst.at = "read"
    /\ \E found \in Findings :
          analyst' = [analyst EXCEPT !.at = "answered", !.found = found,
                                     !.later.base = IF Committed THEN BaselineOf(analyst.run) ELSE @]
    /\ UNCHANGED <<judged, baseline, pending>>

AnalystLeaves ==
    /\ analyst.at = "answered" /\ analyst' = Asleep
    /\ UNCHANGED <<judged, baseline, pending>>

(* The answer *)
AnswerRank == Verdict(analyst.first.status, analyst.first.figures, BaseFigures(analyst.first))
TopDelta == Deltas(analyst.first.figures, BaseFigures(analyst.first)) # {}
HasRows == analyst.later.figures # Unknown
HasBaseline == analyst.later.base # <<>>
Confidence ==
    IF AnswerRank = Fail /\ HasBaseline /\ HasRows /\ "dashboards" \in analyst.found THEN "high"
    ELSE IF ~HasBaseline \/ ~HasRows \/ analyst.later.status = "running" THEN "low" ELSE "medium"
\* _build_run_ai_evidence_pack
Evidence ==
    {"verdict"} \cup (analyst.found \ {"reason"})
    \cup (IF HasRows THEN {"rows"} ELSE {}) \cup (IF HasBaseline /\ TopDelta THEN {"baseline"} ELSE {})
\* _build_run_ai_root_cause_hypotheses: <<category, score in per cent, evidence it rests on>>
Or(S, fallback) == IF S = {} THEN fallback ELSE S
Guesses ==
    (IF "reason" \in analyst.found THEN {<<"runtime", 74, Evidence \cap {"logs", "verdict"}>>} ELSE {})
    \cup (IF TopDelta
          THEN {<<"regression", IF HasBaseline /\ AnswerRank = Fail THEN 82 ELSE 68,
                  Or(Evidence \cap {"baseline", "rows", "trends", "dashboards", "queries"}, Evidence)>>}
          ELSE {})
Hypotheses ==
    LET strained == IF "strained pods" \in Evidence THEN {<<"load generator", 66, {"strained pods"}>>} ELSE {}
        more == IF Guesses = {} /\ AnswerRank = Pass THEN {} ELSE Guesses \cup strained
        all  == IF more = {} /\ AnswerRank # Pass THEN {<<"unclear", 38, Evidence>>} ELSE more
    IN IF HasBaseline THEN all ELSE {<<h[1], IF h[2] > 62 THEN 62 ELSE h[2], h[3]>> : h \in all}
\* _build_run_ai_primary_focus
Focus ==
    IF "reason" \in analyst.found THEN "logs"
    ELSE IF "dashboards" \in analyst.found THEN "dashboard"
    ELSE IF TopDelta THEN "table"
    ELSE IF ~HasBaseline THEN "baseline" ELSE "none"
-----------------------------------------------------------------------------
JudgementInit ==
    /\ judged = [r \in JudgedRuns |-> [status |-> "preparing", figures |-> Unknown, over |-> FALSE]]
    /\ baseline = [s \in Scopes |-> <<>>]
    /\ pending = {} /\ analyst = Asleep
JudgementNext ==
    \/ \E r \in JudgedRuns : JudgedStarts(r) \/ LoadEnds(r) \/ JudgedEnds(r) \/ AnalystJudges(r)
    \/ \E r \in JudgedRuns, s \in Scopes : SetterLooks(r, s)
    \/ \E p \in pending : SetterWrites(p)
    \/ AnalystReadsTable \/ AnalystAnswers \/ AnalystLeaves
JudgementSpec == JudgementInit /\ [][JudgementNext]_judgementVars
-----------------------------------------------------------------------------
(* Properties *)

JudgementTypeOK ==
    /\ \A r \in JudgedRuns : judged[r].figures \in FigureSets \cup {Unknown}
    /\ \A s \in Scopes : \A i \in DOMAIN baseline[s] : baseline[s][i] \in JudgedRuns
    /\ analyst.at \in {"idle", "judged", "read", "answered"}

\* A scope has one baseline, a run of that scope that has ended: verdicts compare with figures
\* that will not change.
BaselinesAreSound ==
    \A s \in Scopes :
        Len(baseline[s]) <= 1 /\ \A r \in ToSet(baseline[s]) : HasEnded(r) /\ s \in ScopesOf(r)
\* A run with worse figures is never judged better, whatever its baseline, and a run that is on
\* or has failed does not pass.
Worse(f, g) == f.rate <= g.rate /\ f.time >= g.time /\ f.tail >= g.tail /\ f.errors >= g.errors
VerdictsAreFair ==
    \A r \in JudgedRuns :
        LET s == Sight(r)
            rank == Verdict(s.status, s.figures, BaseFigures(s))
        IN /\ s.status \in ActiveStati \cup {"failed"} => rank # Pass
           /\ \A f \in OtherFigures : s.figures # Unknown /\ Worse(f, s.figures) =>
                 Verdict(s.status, f, BaseFigures(s)) >= rank
\* The analyst's answer holds together: its delta is against the baseline that it names, unless
\* it has ended the run itself; it gives a cause unless the run passes, each cause rests on
\* evidence in the answer, and without a baseline no cause is held more likely than not by much.
AnswersHold ==
    analyst.at = "answered" =>
        /\ ~Committed => analyst.first.base = analyst.later.base
        /\ TopDelta => HasBaseline
        /\ AnswerRank # Pass => Hypotheses # {}
        /\ \A h \in Hypotheses : h[3] # {} /\ h[3] \subseteq Evidence /\ (~HasBaseline => h[2] <= 62)
        /\ Confidence = "high" => AnswerRank = Fail /\ Focus # "baseline"
JudgementsAreSound == BaselinesAreSound /\ VerdictsAreFair /\ AnswersHold
=============================================================================
