------------------------------ MODULE PlanLists ------------------------------
(***************************************************************************)
(* The lists of plans and of plan runs, read page by page with a filter.   *)
(* Plans are filtered in the database and ordered by their last edit; the  *)
(* status that they are filtered by is written by their plan runs, too.    *)
(* Plan runs are filtered by their status alone in the database, by what   *)
(* their tasks and plan say in two stages: candidates of the database,     *)
(* then the service's own comparison.  Reading a page of plan runs also    *)
(* reconciles rows with the runs that they have launched: the rows change  *)
(* under the filter that has found them.                                   *)
(*                                                                         *)
(* A term stands for one value of a filter.  Names, times, collaborators   *)
(* and the labels of a row are left out, and so is the time after which a  *)
(* row counts as stale: `truth' is what the launched runs say by then.     *)
(***************************************************************************)
EXTENDS Integers, Sequences, FiniteSets, SequencesExt

CONSTANTS
    TaskOf,         \* tasks -> [line, env, engine]
    PlanForms,      \* what plans look like: [explicit, tasks, rounds, by, hidden]
    Spaced,         \* business lines with a space in their name
    Finds,          \* parts of names -> [label, id]: creators whose name, whose "user#id" has it
    Queries,        \* [list, size, status, kind, terms]
    MaxListed,      \* plan runs
    MaxTurns        \* changes during the walk

Stati == {"running", "failed", "succeeded"}
PlanStati == {"ready", "suspended", "running"}

ASSUME ListAssumption ==
    /\ \A f \in PlanForms : /\ DOMAIN f = {"explicit", "tasks", "rounds", "by", "hidden"}
                            /\ f.tasks \subseteq DOMAIN TaskOf /\ f.rounds \in Nat
    /\ Queries # {}
    /\ \A q \in Queries : /\ q.list \in {"plans", "runs"} /\ q.size \in Nat \ {0}
                          /\ q.kind \in {"all", "rounds", "creator", "line", "env", "engine"}
                          /\ q.status \in {"any"} \cup (IF q.list = "plans" THEN PlanStati ELSE Stati)
    /\ MaxListed \in Nat /\ MaxTurns \in Nat

VARIABLES
    plans,      \* the plans: a function to PlanForms
    planStatus, \* per plan
    order,      \* plans, last edited last
    rows,       \* plan runs, oldest first: [plan, tasks, by, status, truth]
    turns,      \* changes so far
    walk        \* the reader: [on, query, page, total, ids, last, due, gone, came]

listVars == <<plans, planStatus, order, rows, turns, walk>>

Shut == [on |-> FALSE, query |-> CHOOSE q \in Queries : TRUE, page |-> 0, total |-> 0,
           ids |-> <<>>, last |-> <<>>, due |-> {}, gone |-> FALSE, came |-> FALSE]
-----------------------------------------------------------------------------
(* What a row shows *)

\* _build_plan_overview: lines that the plan names come before those of its tasks.
Overview(tasks, explicit) ==
    [line |-> IF explicit = <<>> THEN {TaskOf[t].line : t \in tasks} ELSE explicit[1],
     env |-> {TaskOf[t].env : t \in tasks}, engine |-> {TaskOf[t].engine : t \in tasks}]
RoundMode(p) == IF plans[p].rounds > 1 THEN "multi" ELSE "single"
Stages(row) == IF row.tasks # {} THEN row.tasks ELSE plans[row.plan].tasks
PlanRow(p) == [shows |-> Overview(plans[p].tasks, plans[p].explicit), rounds |-> RoundMode(p),
               by |-> plans[p].by, status |-> planStatus[p]]
RunRow(row) == [shows |-> Overview(Stages(row), plans[row.plan].explicit),
                rounds |-> RoundMode(row.plan), by |-> row.by, status |-> row.status]

\* What the filter asks, of a row as it is shown.
Says(shown, q) ==
    CASE q.kind = "all" -> TRUE
      [] q.kind = "rounds" -> shown.rounds \in q.terms
      [] q.kind = "creator" -> \E n \in q.terms : shown.by \in Finds[n].label \cup Finds[n].id
      [] OTHER -> shown.shows[q.kind] \cap q.terms # {}
-----------------------------------------------------------------------------
(* The filters *)

\* _find_task_ids_by_...: spaces are taken out of the stored text, not of the term.
TasksBy(q) ==
    {t \in DOMAIN TaskOf : TaskOf[t][q.kind] \in IF q.kind = "line" THEN q.terms \ Spaced ELSE q.terms}
\* _resolve_plan_run_creator_filter_ids, with creators of whom only "user#id" is known.
CreatorIds(q) == UNION {Finds[n].label \cup Finds[n].id : n \in q.terms}
\* _build_business_line_filter, _build_task_reference_filter and the others: tasks by reference.
Selects(p, by, tasks, q) ==
    CASE q.kind = "all" -> TRUE
      [] q.kind = "rounds" -> RoundMode(p) \in q.terms
      [] q.kind = "creator" -> by \in CreatorIds(q)
      [] q.kind = "line" /\ plans[p].explicit # <<>> -> plans[p].explicit[1] \cap (q.terms \ Spaced) # {}
      [] OTHER -> tasks \cap TasksBy(q) # {}
StatusIs(row, q) == q.status \in {"any", row.status}

\* find_filter_candidates: the stages of the run or those of the plan now.
Candidate(row, q) ==
    /\ ~plans[row.plan].hidden /\ StatusIs(row, q)
    /\ Selects(row.plan, row.by, row.tasks \cup plans[row.plan].tasks, q)
\* _match_filtered_plan_run_ids: the stages that the row shows.
Matched(row, q) ==
    IF q.kind \in {"line", "env", "engine", "rounds"} THEN Says(RunRow(row), q) ELSE TRUE

Found(rs, q) == {r \in DOMAIN rs : Candidate(rs[r], q) /\ Matched(rs[r], q)}
\* find_all
FoundPlans(q) ==
    {p \in DOMAIN plans : /\ ~plans[p].hidden /\ q.status \in {"any", planStatus[p]}
                          /\ Selects(p, plans[p].by, plans[p].tasks, q)}
Selected(q) == IF q.list = "plans" THEN FoundPlans(q) ELSE Found(rows, q)

\* The members of S, the last first.
NewestFirst(S) == [n \in 1..Cardinality(S) |-> CHOOSE i \in S : Cardinality({j \in S : j > i}) = n - 1]
Cut(s, page, size) == SubSeq(s, (page - 1) * size + 1, IF page * size < Len(s) THEN page * size ELSE Len(s))
-----------------------------------------------------------------------------
(* Reading a page *)

\* The rows S with the status that their launched runs give: _backfill_stale_active_plan_runs
\* of those that run, _backfill_terminal_plan_run_closure_fields of those that have ended.
Reconciled(rs, S) == [r \in DOMAIN rs |-> IF r \in S THEN [rs[r] EXCEPT !.status = rs[r].truth] ELSE rs[r]]
StillActive(rs, S) == {r \in S : rs[r].status = "running"}
\* _recover_plan_status_if_idle, for the rows that a read closes: it asks the database, which
\* does not know yet of the others that this read closes.
Recovered(closed) ==
    [p \in DOMAIN plans |->
        IF /\ planStatus[p] = "running"
           /\ \E r \in closed : /\ rows[r].plan = p
                                 /\ StillActive(rows, {x \in DOMAIN rows : rows[x].plan = p}) \subseteq {r}
        THEN "ready" ELSE planStatus[p]]
Closing(rs, s) == Reconciled(rs, ToSet(s) \ StillActive(rs, ToSet(s)))

\* With an attribute in the filter: the page is cut from what the service has matched.
Narrowed(q, page) ==
    LET first == {r \in DOMAIN rows : Candidate(rows[r], q)}
        before == IF q.status = "running" THEN Reconciled(rows, StillActive(rows, first)) ELSE rows
        matched == NewestFirst(Found(before, q))
        cut == Cut(matched, page, q.size)
        after == IF q.status = "running" THEN before ELSE Reconciled(before, StillActive(before, ToSet(cut)))
    IN [rows |-> Closing(after, cut), page |-> cut, total |-> Len(matched)]
\* Without: the page is cut by the database, and asked for again if reconciling has changed it.
Direct(q, page) ==
    LET first == NewestFirst(Found(rows, q))
        cut == Cut(first, page, q.size)
        after == Reconciled(rows, StillActive(rows, ToSet(cut)))
        again == IF q.status = "running" /\ after # rows THEN NewestFirst(Found(after, q)) ELSE first
        shown == Cut(again, page, q.size)
    IN [rows |-> Closing(after, shown), page |-> shown, total |-> Len(again)]
ListPlanRuns(q, page) == IF q.kind # "all" THEN Narrowed(q, page) ELSE Direct(q, page)
ListPlans(q, page) ==
    LET at == NewestFirst({i \in DOMAIN order : order[i] \in FoundPlans(q)})
        found == [n \in DOMAIN at |-> order[at[n]]]
    IN [rows |-> rows, page |-> Cut(found, page, q.size), total |-> Len(found)]

Open(q) ==
    /\ ~walk.on /\ walk.page = 0
    /\ walk' = [Shut EXCEPT !.on = TRUE, !.query = q, !.due = Selected(q)]
    /\ UNCHANGED <<plans, planStatus, order, rows, turns>>

\* A row that leaves from before the page, by a status that this read has written, moves the rest.
LeavesBefore(q, page, new) ==
    \E r \in Found(rows, q) \ Found(new, q) : \E i \in 1..(page - 1) * q.size :
        i <= Cardinality(Found(rows, q)) /\ NewestFirst(Found(rows, q))[i] = r
ReadPage ==
    /\ walk.on
    /\ \E q \in {walk.query}, page \in {walk.page + 1} :
       \E got \in {IF q.list = "plans" THEN ListPlans(q, page) ELSE ListPlanRuns(q, page)} :
          /\ rows' = got.rows
          /\ planStatus' = Recovered({r \in StillActive(rows, DOMAIN rows) : got.rows[r].status # "running"})
          /\ walk' = [walk EXCEPT
                !.page = page, !.total = got.total, !.ids = @ \o got.page,
                !.last = [i \in DOMAIN got.page |-> IF q.list = "plans" THEN PlanRow(got.page[i])
                                                   ELSE RunRow(got.rows[got.page[i]])],
                !.on = page * q.size < got.total,
                !.gone = @ \/ (q.list = "runs" /\ LeavesBefore(q, page, got.rows))]
    /\ UNCHANGED <<plans, order, turns>>
-----------------------------------------------------------------------------
(* What happens meanwhile *)

\* An edit puts the plan last.
Edited(p) == Append(RemoveAt(order, CHOOSE i \in DOMAIN order : order[i] = p), p)
\* Mutant: a plan whose status changes counts as edited.
StatusTouches(p) == Edited(p)
\* set_plan_status_without_touching_updated_at
StatusWritten(p) == order

\* What the reader has to put up with: rows that have left the filter or come to it.
Moves(moved) ==
    \E q \in {walk.query} :
        LET had == Selected(q)
            has == Selected(q)'
        IN walk' = IF ~walk.on THEN walk
                   ELSE [walk EXCEPT !.gone = @ \/ moved \/ had \ has # {},
                                     !.came = @ \/ moved \/ has \ had # {}]
Turn == walk.on /\ turns < MaxTurns /\ turns' = turns + 1

ExecutePlan(p) ==
    /\ Turn /\ Len(rows) < MaxListed
    /\ rows' = Append(rows, [plan |-> p, tasks |-> plans[p].tasks, by |-> plans[p].by,
                             status |-> "running", truth |-> "running"])
    /\ order' = StatusWritten(p)
    /\ UNCHANGED <<plans, planStatus>> /\ Moves(FALSE)
\* The worker begins: the plan runs, whatever it was.
WorkerBegins(r) ==
    /\ Turn /\ rows[r].status = "running"
    /\ planStatus' = [planStatus EXCEPT ![rows[r].plan] = "running"]
    /\ order' = StatusWritten(rows[r].plan)
    /\ UNCHANGED <<plans, rows>> /\ Moves(FALSE)
\* The executor ends the plan run, perhaps before its runs have ended, and releases the plan
\* if it gets to that.
PlanRunEnds(r, status, truth) ==
    /\ Turn /\ rows[r].status = "running" /\ rows[r].truth \in {"running", truth}
    /\ rows' = [rows EXCEPT ![r].status = status, ![r].truth = truth]
    /\ planStatus' \in {planStatus, Recovered({r})} /\ order' = StatusWritten(rows[r].plan)
    /\ UNCHANGED plans /\ Moves(FALSE)
\* Its runs have ended; the executor, if it lives, has not said so.
RunsEnd(r, truth) ==
    /\ Turn /\ rows[r].truth = "running" /\ truth # "running"
    /\ rows' = [rows EXCEPT ![r].truth = truth]
    /\ UNCHANGED <<plans, planStatus, order>> /\ Moves(FALSE)
\* update_plan, which may name a status, and log_audit_event, whose commit stores the lines that the answer was
\* decorated with: from then on they are the plan's own.
UpdatePlan(p, f, status) ==
    /\ Turn /\ f.by = plans[p].by /\ f.hidden = plans[p].hidden
    /\ planStatus' = [planStatus EXCEPT ![p] = status]
    /\ plans' = [plans EXCEPT ![p] = [f EXCEPT !.explicit = <<Overview(f.tasks, f.explicit).line>>]]
    /\ order' = Edited(p)
    /\ UNCHANGED rows /\ Moves(walk.query.list = "plans")

ListInit ==
    /\ plans \in [{1, 2} -> PlanForms] /\ planStatus \in [{1, 2} -> PlanStati] /\ order = <<1, 2>>
    /\ \E s, t \in {"running", "failed"} :
         rows = <<[plan |-> 1, tasks |-> {}, by |-> plans[1].by, status |-> s, truth |-> t],
                  [plan |-> 2, tasks |-> plans[2].tasks, by |-> plans[2].by, status |-> s, truth |-> "running"]>>
    /\ turns = 0 /\ walk = Shut
ListNext ==
    \/ \E q \in Queries : Open(q)
    \/ ReadPage
    \/ \E p \in DOMAIN plans :
         ExecutePlan(p) \/ \E f \in PlanForms, status \in PlanStati : UpdatePlan(p, f, status)
    \/ \E r \in DOMAIN rows : WorkerBegins(r)
    \/ \E r \in DOMAIN rows : \E truth \in Stati :
         RunsEnd(r, truth) \/ \E status \in Stati \ {"running"} : PlanRunEnds(r, status, truth)
ListSpec == ListInit /\ [][ListNext]_listVars
-----------------------------------------------------------------------------
ListTypeOK ==
    /\ planStatus \in [DOMAIN plans -> PlanStati]
    /\ ToSet(order) = DOMAIN plans /\ Len(order) = Cardinality(DOMAIN plans)
    /\ \A p \in DOMAIN plans : plans[p].tasks \subseteq DOMAIN TaskOf /\ plans[p].rounds \in Nat
    /\ \A r \in DOMAIN rows : {rows[r].status, rows[r].truth} \subseteq Stati
    /\ turns \in 0..MaxTurns /\ walk.query \in Queries

\* A page shows no row that its filter does not ask for, as the row is shown (of plan runs, a
\* filter by a status that ends them excepted: PlanService.list_plan_runs reconciles after it).
PagesKeepTheFilter ==
    \A i \in DOMAIN walk.last :
        /\ Says(walk.last[i], walk.query)
        /\ walk.query.list = "plans" \/ walk.query.status = "running" =>
              walk.query.status \in {"any", walk.last[i].status}
\* Whoever reads to the end has seen every row that the filter had and has, unless rows have
\* left it meanwhile; and none twice, unless rows have come or moved.  Reading does neither to
\* the list of plans, and the course of plan runs does only if it is filtered by a status.
\* (Again not of plan runs with such a status: the rows of a page that reconciling revives leave
\* the filter, and as many are skipped.)
Steady(q) == q.list = "plans" \/ q.status \in {"any", "running"}
Walked == walk.page > 0 /\ ~walk.on /\ Steady(walk.query)
NothingSkipped == Walked /\ ~walk.gone => walk.due \cap Selected(walk.query) \subseteq ToSet(walk.ids)
NothingTwice == Walked /\ ~walk.gone /\ ~walk.came => Cardinality(ToSet(walk.ids)) = Len(walk.ids)
\* Every row that shows what the filter asks for is found, but for lines with a space.
AllFound ==
    walk.on /\ walk.query.terms \cap Spaced = {} =>
        IF walk.query.list = "plans"
        THEN \A p \in DOMAIN plans : 
                ~plans[p].hidden /\ Says(PlanRow(p), walk.query)
                /\ walk.query.status \in {"any", PlanRow(p).status} => p \in Selected(walk.query)
        ELSE \A r \in DOMAIN rows :
               ~plans[rows[r].plan].hidden /\ StatusIs(rows[r], walk.query) /\ Says(RunRow(rows[r]), walk.query)
                   => r \in Selected(walk.query)
ListsHold == PagesKeepTheFilter /\ NothingSkipped /\ NothingTwice /\ AllFound
=============================================================================
