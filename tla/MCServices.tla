---------------------------- MODULE MCServices ----------------------------
(***************************************************************************)
(* The services around a run, one instance of each in one run of TLC: the  *)
(* part that a behaviour is about is chosen at the start, the variables of *)
(* the other parts rest.                                                   *)
(***************************************************************************)
EXTENDS DataSlices, TaskAssets, ScriptLibrary, LogPages, Webhooks, Reports, LoadShares,
        PlanDeadlines, MCPlanPages, MCRunFigures, RunSources, RunJudgements, EvidenceGates,
        PlanLists, RunPods

VARIABLE part

MCMixes == {<<1>>, <<1, 1, 1>>, <<3, 1>>, <<5, 3, 2>>}
Parts == {"slices", "assets", "scripts", "logs", "hooks", "reports", "shares", "deadlines",
          "pages", "figures", "sources", "judgements", "gates", "lists", "pods"}
None == [i \in {} |-> 0]

Takes(what, t, r, over) == [kind |-> what, base |-> t, over |-> over, retries |-> r, abort |-> t = 1]
Runs(t, r) == Takes("task", t, r, None)
MCPlans ==
    {[rounds |-> 2, stages |-> <<<<Runs(1, 0), Takes("task", 2, 0, 2 :> 3),
                                   Takes("sleep", 1, 0, 2 :> 2), Runs(1, 0)>>, <<Runs(0, 0)>>>>],
     [rounds |-> 1, stages |-> <<<<Runs(1, 1), Runs(3, 0)>>, <<Takes("sleep", 2, 0, None), Runs(2, 1)>>>>],
     [rounds |-> 2, stages |-> <<<<Takes("task", 1, 0, 2 :> 4)>>>>],
     [rounds |-> 1, stages |-> <<<<Runs(1, 0), Runs(1, 0)>>>>]}

\* Judgements: a run that got slower and fails more, and what the analyst may find of it.
MCFigures == {[rate |-> 100, time |-> 100, tail |-> 100, errors |-> 0],
              [rate |-> 79, time |-> 112, tail |-> 100, errors |-> 1]}
MCOther == [rate : {100, 79}, time : {112, 125}, tail : {100}, errors : {0, 5}]
MCFindings == {{"dashboards", "strained pods"}, {"reason", "logs"}}
MCProtocols == <<"http", "none">>
MCPeaks == <<40, 95, 70>>

\* Lists: two tasks, four plans, and a walk through each list with each kind of filter.
MCTasks == <<[line |-> "pay", env |-> "e1", engine |-> "k6"],
             [line |-> "big shop", env |-> "e2", engine |-> "jmeter"]>>
Form(e, t, n, b, h) == [explicit |-> e, tasks |-> t, rounds |-> n, by |-> b, hidden |-> h]
MCForms == {Form(<<>>, {1}, 1, 1, FALSE), Form(<<>>, {1, 2}, 2, 2, FALSE),
            Form(<<{"pay"}>>, {2}, 2, 1, FALSE), Form(<<{}>>, {2}, 1, 2, TRUE)}
MCFinds == [x \in {"ann", "us"} |-> IF x = "ann" THEN [label |-> {1}, id |-> {}]
                                   ELSE [label |-> {}, id |-> {1, 2}]]
Ask(l, n, s, k, t) == [list |-> l, size |-> n, status |-> s, kind |-> k, terms |-> t]
MCQueries ==
    {Ask("plans", 1, "any", "all", {}), Ask("plans", 1, "running", "all", {}),
     Ask("plans", 1, "any", "line", {"pay"}), Ask("plans", 1, "any", "creator", {"ann"}),
     Ask("runs", 1, "running", "all", {}), Ask("runs", 2, "failed", "all", {}),
     Ask("runs", 1, "running", "line", {"pay", "big shop"}),
     Ask("runs", 1, "failed", "engine", {"jmeter"}), Ask("runs", 1, "running", "rounds", {"multi"}),
     Ask("runs", 1, "any", "creator", {"us"})}

\* The variables of a part at rest have no value; EditStaysPrivate looks at the scripts' always.
ScriptRest ==
    /\ content = [s \in Scripts |-> 0] /\ uses = [t \in ScriptTasks |-> "none"]
    /\ edits = 0 /\ doing = [u \in Users |-> Nobody]
SliceRest ==
    /\ file = <<>> /\ shards = <<>> /\ asked = <<>> /\ slicing = <<>> /\ got = <<>>
AssetRest ==
    /\ store = <<>> /\ tasks = <<>> /\ asset = <<>> /\ objects = <<>> /\ request = <<>>
    /\ mishap = <<>>
LogRest ==
    /\ log = <<>> /\ archived = <<>> /\ answering = <<>> /\ page = <<>>
HookRest ==
    /\ ended = <<>> /\ hook = <<>> /\ changes = <<>> /\ round = <<>> /\ record = <<>>
    /\ received = <<>>
ReportRest ==
    /\ withS3 = <<>> /\ report = <<>> /\ html = <<>> /\ archive = <<>> /\ cached = <<>>
    /\ maker = <<>> /\ viewer = <<>> /\ crossed = <<>> /\ edited = <<>>
LoadRest ==
    /\ load = <<>> /\ config = <<>>
DeadlineRest ==
    /\ plan = <<>> /\ now = <<>> /\ at = <<>> /\ phase = <<>> /\ until = <<>> /\ wave = <<>>
    /\ loose = <<>> /\ late = <<>> /\ history = <<>>
PageRest ==
    /\ course = <<>> /\ wanted = <<>> /\ launches = <<>> /\ place = <<>> /\ counted = <<>>
    /\ marker = <<>> /\ outcome = <<>> /\ odd = <<>>
FigureRest ==
    /\ agent = <<>> /\ row = <<>>
SourceRest ==
    /\ kind = <<>> /\ driver = <<>> /\ prom = <<>> /\ gateway = <<>> /\ kept = <<>>
JudgementRest ==
    /\ judged = <<>> /\ baseline = <<>> /\ pending = <<>> /\ analyst = <<>>
GateRest ==
    /\ facts = <<>> /\ reported = <<>>
ListRest ==
    /\ plans = <<>> /\ planStatus = <<>> /\ order = <<>> /\ rows = <<>> /\ turns = <<>> /\ walk = <<>>
PodsRest ==
    /\ pod = <<>> /\ shown = <<>>

MCInit ==
    /\ part \in Parts
    \* a bound: a local store copies what it clones
    /\ IF part = "assets" THEN AssetInit /\ store # "reference" ELSE AssetRest
    /\ IF part = "scripts" THEN ScriptInit ELSE ScriptRest
    /\ IF part = "logs" THEN LogInit ELSE LogRest
    /\ IF part = "hooks" THEN HookInit ELSE HookRest
    /\ IF part = "reports" THEN ReportInit ELSE ReportRest
    /\ IF part = "shares" THEN LoadInit ELSE LoadRest
    /\ IF part = "deadlines" THEN DeadlineInit ELSE DeadlineRest
    /\ IF part = "pages" THEN PageInit ELSE PageRest
    /\ IF part = "sources" THEN SourceInit ELSE SourceRest
    \* bounds: the first plan names no lines of its own and is not hidden, it runs and the
    \* other does not
    /\ IF part = "lists"
       THEN ListInit /\ plans[1].explicit = <<>> /\ planStatus = <<"running", "ready">>
       ELSE ListRest
    /\ IF part = "figures" THEN FigureInit ELSE FigureRest
    /\ IF part = "judgements" THEN JudgementInit ELSE JudgementRest
    /\ IF part = "gates" THEN GateInit ELSE GateRest
    /\ IF part = "pods" THEN PodsInit ELSE PodsRest
    \* a bound: the third of the settings is absent or 2
    /\ IF part = "slices" THEN SliceInit /\ asked.total.n \in {0, 2} ELSE SliceRest

Resting(name, vars) == part # name => UNCHANGED vars
MCNext ==
    /\ UNCHANGED part
    /\ \/ part = "slices" /\ SliceNext
       \/ part = "assets" /\ AssetNext
          \* bounds: the third is a clone, no step follows a race, which excuses everything, nor
          \* a second mishap
          /\ request'[3].kind \notin {"upload", "finalize"}
          /\ "race" \notin mishap /\ Cardinality(mishap) <= 1
       \/ part = "scripts" /\ ScriptNext
       \/ part = "logs" /\ LogNext
       \/ part = "hooks" /\ HookNext
       \/ part = "reports" /\ ReportNext
          \* bounds: no step follows an overlap or an edit that the property leaves aside, such
          \* an edit marks the local file completed, and only the copy of an object has two
          \* viewers, while no maker is at work
          /\ 1 \notin crossed \cup edited
          /\ (1 \in edited' => report'[1] = [status |-> "completed", path |-> "local"])
          /\ (viewer'[2] = NoViewer
              \/ (withS3 /\ \A m \in Makers : maker'[m].step \in {"off", "queued"}))
       \/ part = "shares" /\ LoadNext
       \/ part = "deadlines" /\ DeadlineNext
       \/ part = "pages" /\ PageNext
       \/ part = "figures" /\ FigureNext /\ agent'[2].up    \* a bound: only the first falters
       \/ part = "sources" /\ SourceNext
       \/ part = "judgements" /\ JudgementNext
          /\ judged'[2].figures.errors # 1                   \* a bound: only the first gets worse
       \/ part = "gates" /\ GateNext
       \/ part = "lists" /\ ListNext
          \* a bound: only who reads the list of plans meets an edit that names a status
          /\ (order' # order /\ walk.query.list = "runs" => planStatus' = planStatus)
       \/ part = "pods" /\ PodsNext
    /\ Resting("slices", sliceVars) /\ Resting("assets", assetVars)
    /\ Resting("scripts", scriptVars) /\ Resting("logs", logVars)
    /\ Resting("hooks", hookVars) /\ Resting("reports", reportVars)
    /\ Resting("shares", loadVars) /\ Resting("deadlines", deadlineVars)
    /\ Resting("pages", pageVars) /\ Resting("figures", figureVars)
    /\ Resting("sources", sourceVars) /\ Resting("judgements", judgementVars)
    /\ Resting("gates", gateVars) /\ Resting("lists", listVars) /\ Resting("pods", podVars)

mcVars == <<part, sliceVars, assetVars, scriptVars, logVars, hookVars, reportVars, loadVars,
            deadlineVars, pageVars, figureVars, sourceVars, judgementVars, gateVars, listVars,
            podVars>>
MCSpec == MCInit /\ [][MCNext]_mcVars

-----------------------------------------------------------------------------
(* The invariants of the parts, each of the behaviours that are about it *)

TypeOK ==
    /\ part = "slices" => SliceTypeOK
    /\ part = "assets" => AssetTypeOK
    /\ part = "scripts" => ScriptTypeOK
    /\ part = "logs" => LogTypeOK
    /\ part = "hooks" => HookTypeOK
    /\ part = "reports" => ReportTypeOK
    /\ part = "shares" => LoadTypeOK
    /\ part = "deadlines" => DeadlineTypeOK
    /\ part = "pages" => PageTypeOK
    /\ part = "figures" => FigureTypeOK
    /\ part = "sources" => SourceTypeOK
    /\ part = "judgements" => JudgementTypeOK
    /\ part = "gates" => GateTypeOK
    /\ part = "lists" => ListTypeOK
    /\ part = "pods" => PodsTypeOK
\* Slices of data files: every line is driven once, shards make up the file, readings agree.
SlicesHold == part = "slices" => SlicesAreSound
\* Task assets: rows have their files, and files have a row or a request that knows of them.
AssetsHold == part = "assets" => StoreIsKept
\* Log pages loaded one after the other show no line twice and leave none out.
LogsHold == part = "logs" => PagesJoin
\* Webhooks: records say what was sent, and no hook is forgotten because of another.
HooksHold == part = "hooks" => HooksAreTold
\* A report that the front door calls ready is a file written to its end.
ReportsHold == part = "reports" => ReadyIsWhole
\* The shares of the agents add up to the load that the run asks for.
SharesHold == part = "shares" => LoadIsShared
\* The watchdog leaves a plan run alone whose runs keep their timeouts; the estimate is right.
DeadlinesHold == part = "deadlines" => TimesAgree
\* The pages of a plan run show every run, and at its own place until something fails; the
\* pages of the lists of plans and plan runs keep their filter, and a reader who walks through
\* them meets every row once, as far as the rows stand still.
PagesHold ==
    /\ part = "pages" => PagesTellTheRuns
    /\ part = "lists" => ListsHold
\* The figures of a run add up to what its agents have done; its pages take them from sources
\* that agree on whose they are; the counts of its pods agree.
FiguresHold ==
    /\ part = "figures" => FiguresAddUp
    /\ part = "sources" => SourcesHold
    /\ part = "pods" => PodsAddUp
\* Baselines are runs that have ended, verdicts and the analyst's answers follow from what they
\* have read, and no gate is opened by a run or a report that lacks what it asks for.
JudgementsHold ==
    /\ part = "judgements" => JudgementsAreSound
    /\ part = "gates" => GatesHold
=============================================================================
