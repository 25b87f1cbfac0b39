----------------------------- MODULE PlanPages -----------------------------
(***************************************************************************)
(* The page of a plan run (plan_service.py, get_plan_run) and its line in  *)
(* the list.  The executor keeps one list of the runs it has launched, in  *)
(* the order of their launches, and one marker of the last sleep; which    *)
(* run belongs to which item of which round is not stored.  The page cuts  *)
(* the list into rounds of as many runs as the plan has task items.        *)
(*                                                                         *)
(* The executor is reduced to what it leaves for the pages: PlanExecution  *)
(* has the whole of it.                                                    *)
(***************************************************************************)
EXTENDS Integers, Sequences, FiniteSets, SequencesExt, FiniteSetsExt

CONSTANTS
    Courses,        \* what plans may be: [rounds, items], the items of a round, "task" or "sleep"
    Attempts,       \* runs of one item in one round
    MaxRounds,      \* that an edit of the plan may ask for
    ReportScan      \* the list does not look at the reports of longer plan runs

ASSUME PageAssumption ==
    /\ Courses \subseteq [rounds : 1..MaxRounds, items : Seq({"task", "sleep"})]
    /\ MaxRounds \in Nat /\ Attempts \in Nat /\ ReportScan \in Nat

VARIABLES
    course,         \* the plan run's snapshot of its plan, and the rounds it was started with
    wanted,         \* rounds of the plan, which users edit
    launches,       \* launched_run_ids: [round, slot, status, report] of the runs
    place,          \* [round, slot] of the executor
    counted,        \* item_idx: items the executor has met
    marker,         \* the postprocessor marker of status_detail: [round, item, action]
    outcome,        \* status of the plan run
    odd             \* history: launches before the first failed launch, retry or abort, or -1

pageVars == <<course, wanted, launches, place, counted, marker, outcome, odd>>

\* The task items among the first k, and all (_count_task_items).
TasksUpTo(k) == Cardinality({i \in 1..k : course.items[i] = "task"})
TaskItems == TasksUpTo(Len(course.items))
Noted == odd' = IF odd = -1 THEN Len(launches) ELSE odd
Unmarked == [round |-> 0, item |-> 0, action |-> "none"]
-----------------------------------------------------------------------------
(* The executor: execute_plan_task *)

AtTask == place.slot <= Len(course.items) /\ course.items[place.slot] = "task"
AtSleep == place.slot <= Len(course.items) /\ course.items[place.slot] = "sleep"
NewRun(slot) == [round |-> place.round, slot |-> slot, status |-> "running", report |-> "missing"]
Tries(slot) == {n \in DOMAIN launches : launches[n].round = place.round /\ launches[n].slot = slot}
Settled ==
    /\ outcome = "running" /\ ~AtTask /\ marker.action # "sleep_started"
    /\ \A n \in DOMAIN launches : launches[n].status # "running"
Won(slot) == \E n \in Tries(slot) : launches[n].status = "succeeded"
Lost == {s \in 1..Min({place.slot - 1, Len(course.items)}) : course.items[s] = "task" /\ ~Won(s)}

Launch ==
    /\ outcome = "running" /\ AtTask
    /\ \/ launches' = Append(launches, NewRun(place.slot)) /\ UNCHANGED odd
       \/ Noted /\ UNCHANGED launches
    /\ place' = [place EXCEPT !.slot = @ + 1] /\ counted' = counted + 1
    /\ UNCHANGED <<course, wanted, marker, outcome>>
Retry(slot) ==
    /\ Settled /\ slot \in Lost /\ Cardinality(Tries(slot)) \in 1..Attempts - 1
    /\ launches' = Append(launches, NewRun(slot)) /\ Noted
    /\ UNCHANGED <<course, wanted, place, counted, marker, outcome>>
\* The marker counts the items of all rounds.
StartSleep ==
    /\ Settled /\ AtSleep
    /\ marker' = [round |-> place.round, item |-> counted + 1, action |-> "sleep_started"]
    /\ UNCHANGED <<course, wanted, launches, place, counted, outcome, odd>>
EndSleep ==
    /\ outcome = "running" /\ marker.action = "sleep_started"
    /\ marker' = [marker EXCEPT !.action = "sleep_completed"]
    /\ place' = [place EXCEPT !.slot = @ + 1] /\ counted' = counted + 1
    /\ UNCHANGED <<course, wanted, launches, outcome, odd>>
LeaveRound ==
    /\ Settled
    /\ \/ place.slot > Len(course.items) /\ UNCHANGED odd
       \/ place.slot <= Len(course.items) /\ Lost # {} /\ Noted
    /\ IF place.round < course.rounds
       THEN place' = [round |-> place.round + 1, slot |-> 1] /\ UNCHANGED outcome
       ELSE /\ outcome' = IF \A r \in 1..course.rounds : \A s \in DOMAIN course.items :
                                course.items[s] = "task" => \E n \in DOMAIN launches :
                                    /\ launches[n].round = r /\ launches[n].slot = s
                                    /\ launches[n].status = "succeeded"
                          THEN "succeeded" ELSE "failed"
            /\ UNCHANGED place
    /\ UNCHANGED <<course, wanted, launches, counted, marker>>
Stop ==
    /\ outcome = "running" /\ outcome' = "stopped"
    /\ launches' = [n \in DOMAIN launches |->
                      IF launches[n].status = "running" THEN [launches[n] EXCEPT !.status = "stopped"]
                      ELSE launches[n]]
    /\ marker' = IF marker.action = "sleep_started" THEN [marker EXCEPT !.action = "sleep_interrupted"] ELSE marker
    /\ UNCHANGED <<course, wanted, place, counted, odd>>

ChildEnds(n) ==
    /\ launches[n].status = "running"
    /\ \E s \in {"succeeded", "failed"} : launches' = [launches EXCEPT ![n].status = s]
    /\ UNCHANGED <<course, wanted, place, counted, marker, outcome, odd>>
\* Reports are asked for when the plan run is over, here in the order of the runs; one of an
\* older template counts as missing (template_fallback).
Reported(n) ==
    /\ outcome # "running" /\ launches[n].report = "missing"
    /\ \A i \in 1..n - 1 : launches[i].report = "ready"
    /\ launches' = [launches EXCEPT ![n].report = "ready"]
    /\ UNCHANGED <<course, wanted, place, counted, marker, outcome, odd>>
EditRounds ==
    /\ wanted = course.rounds /\ wanted' \in 1..MaxRounds
    /\ UNCHANGED <<course, launches, place, counted, marker, outcome, odd>>
-----------------------------------------------------------------------------
(* The page of one round *)

TotalRounds == IF TaskItems = 0 THEN wanted ELSE Max({wanted, (Len(launches) + TaskItems - 1) \div TaskItems})
\* _has_plan_run_completed_all_expected_runs
AllLaunched == TaskItems > 0 /\ Len(launches) >= TaskItems * TotalRounds
CurrentRound ==
    IF outcome = "succeeded" /\ AllLaunched THEN TotalRounds
    ELSE Max({place.round, IF launches = <<>> \/ TaskItems = 0 THEN 1
                           ELSE Min({TotalRounds, Len(launches) \div TaskItems})})
\* _build_round_items
RoundStatus(r) ==
    CASE r < CurrentRound -> "succeeded" [] r = CurrentRound -> outcome [] OTHER -> "preparing"

\* The runs of a round, as indices of launches would show them.
Slice(r) == SubSeq(launches, (r - 1) * TaskItems + 1, Min({r * TaskItems, Len(launches)}))

\* _infer_record_status
Inferred(r) == IF RoundStatus(r) \in {"succeeded", "failed", "stopped"} THEN RoundStatus(r) ELSE "pending"
SleepStatus(r, k) ==
    IF marker.round = r /\ marker.item = k
    THEN CASE marker.action = "sleep_completed" -> "succeeded"
           [] marker.action = "sleep_started" -> "running"
           [] marker.action = "sleep_interrupted" -> IF RoundStatus(r) = "stopped" THEN "stopped" ELSE "failed"
    ELSE Inferred(r)

Unbound == [round |-> 0, slot |-> 0, status |-> "none", report |-> "none"]
\* _build_task_exec_records: the nth task item of the plan shows the nth run of the slice.
Record(r, k) ==
    LET nth == TasksUpTo(k)
        bound == course.items[k] = "task" /\ nth <= Len(Slice(r))
        run == IF bound THEN Slice(r)[nth] ELSE Unbound
    IN [run |-> run,
        status |-> IF bound THEN run.status
                   ELSE IF course.items[k] = "sleep" THEN SleepStatus(r, k) ELSE Inferred(r)]
Records(r) == [k \in DOMAIN course.items |-> Record(r, k)]

\* _build_execution_summary, _build_report_summary
Count(r, status) == Cardinality({k \in DOMAIN course.items : Records(r)[k].status = status})
Linked(r) == {k \in DOMAIN course.items : Records(r)[k].run # Unbound}
WithReport(r, report) == {k \in Linked(r) : Records(r)[k].run.report = report}

\* _build_advisory_summary
Advice(r) ==
    IF Count(r, "failed") > 0 THEN "fail"
    ELSE IF \/ RoundStatus(r) \in {"preparing", "running"} \/ Count(r, "stopped") + Count(r, "pending") > 0
            \/ WithReport(r, "missing") # {}
            \/ course.items = <<>>
    THEN "warn" ELSE "pass"
EvidenceReady(r) == Advice(r) = "pass" /\ Linked(r) # {} /\ WithReport(r, "ready") = Linked(r)

\* _build_plan_run_list_advisory.  The number of launched runs is the variable of an earlier
\* loop: that of the last plan run in the list, whichever line is judged.
Ready == {n \in DOMAIN launches : launches[n].report = "ready"}
ListAdvice(ofLast) ==
    IF Len(launches) > ReportScan THEN "unknown"
    ELSE IF outcome = "failed" THEN "fail"
    ELSE IF outcome # "succeeded" \/ ofLast <= 0 THEN "warn"
    ELSE IF \E n \in DOMAIN launches : launches[n].report # "ready" THEN "warn"
    ELSE IF Cardinality(Ready) = ofLast THEN "pass" ELSE "warn"
-----------------------------------------------------------------------------
PageInit ==
    /\ course \in Courses /\ wanted = course.rounds /\ launches = <<>>
    /\ place = [round |-> 1, slot |-> 1] /\ counted = 0 /\ marker = Unmarked
    /\ outcome = "running" /\ odd = -1
PageNext ==
    \/ Launch \/ StartSleep \/ EndSleep \/ LeaveRound \/ Stop \/ EditRounds
    \/ \E slot \in DOMAIN course.items : Retry(slot)
    \/ \E n \in DOMAIN launches : ChildEnds(n) \/ Reported(n)
PageSpec == PageInit /\ [][PageNext]_pageVars
-----------------------------------------------------------------------------
(* Properties *)

PageTypeOK ==
    /\ course \in Courses /\ wanted \in 1..MaxRounds /\ place.round \in 1..course.rounds
    /\ outcome \in {"running", "succeeded", "failed", "stopped"} /\ odd \in -1..Len(launches)
    /\ counted \in 0..course.rounds * Len(course.items)
    /\ \A n \in DOMAIN launches :
          /\ launches[n].status \in {"running", "succeeded", "failed", "stopped"}
          /\ launches[n].report \in {"missing", "ready"}

\* Up to the first failed launch, retry or abort, every run is shown at its own item of its own
\* round.  Every run is shown on some page, whatever has happened and however the plan was edited.
Certain == IF odd = -1 THEN Len(launches) ELSE odd
OwnItems ==
    \A n \in 1..Certain :
        /\ launches[n].round <= TotalRounds
        /\ Records(launches[n].round)[launches[n].slot].run = launches[n]
NoneHidden ==
    FlattenSeq([r \in 1..TotalRounds |-> Slice(r)]) = launches
\* A sleep of the first round that is on is shown as such.
SleepIsShown ==
    marker.action = "sleep_started" /\ marker.round = 1 /\ odd = -1 /\ outcome = "running"
        => Records(1)[place.slot].status = "running"
\* A list that takes a plan run for good judges runs that have reports; a page that calls its
\* evidence complete shows runs that have succeeded.
AdviceIsFounded ==
    /\ \A last \in 0..Len(launches) + 1 :
          ListAdvice(last) = "pass" => Cardinality(Ready) = Len(launches) /\ outcome = "succeeded"
    /\ \A r \in 1..TotalRounds : EvidenceReady(r) /\ r * TaskItems <= Certain =>
          \A k \in Linked(r) : Record(r, k).run.round = r /\ Record(r, k).run.status = "succeeded"
PagesTellTheRuns == OwnItems /\ NoneHidden /\ SleepIsShown /\ AdviceIsFounded
=============================================================================
