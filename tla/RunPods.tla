------------------------------ MODULE RunPods ------------------------------
(***************************************************************************)
(* What pages show of the agents of a run (run_service.py): the list of    *)
(* pods (get_pods), their curves (get_pods_monitor) with a summary, and    *)
(* the "completed / actual / total" of the run's overview.  Each asks the  *)
(* agents or reads what the poll task has stored, in an order of its own.  *)
(***************************************************************************)
EXTENDS Integers, FiniteSets, FiniteSetsExt

CONSTANTS
    Pods,           \* the agents of the run
    AskedFor,      \* how many agents runs ask for: numbers not below that of Pods
    PeakOf          \* pod -> the highest CPU figure of its curve

ASSUME PodsAssumption ==
    /\ Pods # {} /\ IsFiniteSet(Pods)
    /\ AskedFor \subseteq Nat /\ \A n \in AskedFor : n >= Cardinality(Pods)

VARIABLES
    pod,        \* pod -> [at, up]: status of its run, whether it answers
    shown       \* the run: [status, wanted, entries, curves]: of params, pod_count, agent_runs
                \* (pod -> status, "unknown" if left out) and pod_monitor_series (whose)

podVars == <<pod, shown>>

PodEnds == {"succeeded", "failed", "stopped"}
RunIsOver == shown.status \in PodEnds
Reached == {p \in Pods : pod[p].up}
Undefined == -1
\* The first value that is given.
FirstGiven(a, b) == IF a # Undefined THEN a ELSE b
-----------------------------------------------------------------------------
(* The poll task *)

\* Mutant: a run none of whose agents answers is of unknown status.
VerdictUndecided(seen) ==
    LET all == {seen[p] : p \in Pods}
    IN CASE "failed" \in all -> "failed"
         [] "running" \in all -> "running"
         [] "unknown" \in all -> "unknown"
         [] "stopped" \in all -> "stopped"
         [] OTHER -> "succeeded"
\* _aggregate_poll_status
PodVerdict(seen) ==
    LET all == {seen[p] : p \in Pods}
    IN CASE "failed" \in all -> "failed"
         [] {"running", "unknown"} \cap all # {} -> "running"
         [] "stopped" \in all -> "stopped"
         [] OTHER -> "succeeded"

\* The status of a run that has ended holds its curves: get_run_status.
CurvesTold == {p \in Reached : pod[p].at \in PodEnds}
\* _merge_run_params_from_status_entries: an empty list of curves leaves the stored ones.
PodsPolled ==
    LET seen == [p \in Pods |-> IF pod[p].up THEN pod[p].at ELSE "unknown"]
    IN /\ shown.status = "running"
       /\ shown' = [shown EXCEPT !.entries = seen, !.status = PodVerdict(seen),
                                 !.curves = IF CurvesTold # {} THEN CurvesTold ELSE @]
       /\ UNCHANGED pod

\* The launch is stored: rows without a status.
PodsDispatched ==
    /\ shown.status = "preparing"
    /\ shown' = [shown EXCEPT !.status = "running", !.entries = [p \in Pods |-> "unknown"]]
    /\ UNCHANGED pod
PodEndsItself ==
    /\ shown.status # "preparing"
    /\ \E p \in Pods, at \in {"succeeded", "failed"} :
         pod[p].at = "running" /\ pod' = [pod EXCEPT ![p].at = at]
    /\ UNCHANGED shown
UserStopsRun ==
    /\ shown.status = "running" /\ shown' = [shown EXCEPT !.status = "stopped"]
    /\ pod' = [p \in Pods |-> IF pod[p].up /\ pod[p].at = "running"
                              THEN [pod[p] EXCEPT !.at = "stopped"] ELSE pod[p]]
PodComesAndGoes ==
    /\ \E p \in Pods : pod' = [pod EXCEPT ![p].up = ~@]
    /\ UNCHANGED shown
-----------------------------------------------------------------------------
(* The pages *)

\* Rows of the pods that answer; when none does, rows made up from agent_runs.
PodRows ==
    IF Reached # {} THEN {[pod |-> p, status |-> pod[p].at] : p \in Reached}
    ELSE {[pod |-> p, status |-> shown.entries[p]] : p \in {q \in Pods : shown.entries[q] # "unknown"}}
         \cup {[pod |-> p, status |-> shown.status] : p \in {q \in Pods : shown.entries[q] = "unknown"}}
PodsPage == IF shown.entries = << >> THEN {} ELSE PodRows

\* A run that drives load is asked; otherwise what is stored comes first.
MonitorPage ==
    LET stored == IF shown.curves # {} THEN shown.curves ELSE Reached
    IN IF shown.entries = << >> THEN {}
       ELSE IF shown.status = "running" /\ Reached # {} THEN Reached ELSE stored
\* _build_pods_monitor_summary
PodSummary ==
    [observed |-> Cardinality(MonitorPage),
     peak |-> IF MonitorPage = {} THEN Undefined ELSE Max({PeakOf[p] : p \in MonitorPage})]

\* _attach_run_display_fields: the counts of the overview.
Observed == IF shown.curves = {} THEN Undefined ELSE Cardinality(shown.curves)
Listed == Cardinality(DOMAIN shown.entries)
PodsBegun == Listed > 0 /\ shown.status # "preparing"
PodsActual == IF PodsBegun THEN Max({FirstGiven(Observed, 0), Listed}) ELSE Observed
PodsCompleted ==
    IF PodsBegun THEN Cardinality({p \in DOMAIN shown.entries : shown.entries[p] \in PodEnds})
    ELSE IF RunIsOver THEN FirstGiven(Observed, shown.wanted) ELSE Undefined
Progress ==
    [completed |-> PodsCompleted, total |-> shown.wanted,
     actual |-> IF shown.status = "preparing" THEN PodsActual ELSE FirstGiven(PodsActual, shown.wanted)]

PodsInit ==
    /\ pod = [p \in Pods |-> [at |-> "running", up |-> TRUE]]
    /\ \E n \in AskedFor :
         shown = [status |-> "preparing", wanted |-> n, entries |-> << >>, curves |-> {}]
PodsNext == PodsDispatched \/ PodsPolled \/ PodEndsItself \/ UserStopsRun \/ PodComesAndGoes
PodsSpec == PodsInit /\ [][PodsNext]_podVars
-----------------------------------------------------------------------------
(* Properties *)

PodsTypeOK ==
    /\ pod \in [Pods -> [at : {"running"} \cup PodEnds, up : BOOLEAN]]
    /\ shown.status \in {"preparing", "running"} \cup PodEnds /\ shown.wanted \in AskedFor
    /\ shown.entries \in {<< >>} \cup [Pods -> {"running", "unknown"} \cup PodEnds]
    /\ shown.curves \subseteq Pods

\* No more agents are shown as completed than as at work, and no more of these than were asked
\* for, however many of them have answered the last poll.
CountsAreOrdered == Progress.completed <= Progress.actual /\ Progress.actual <= Progress.total
\* A run that succeeded shows every agent as completed, the curves of all of them without asking
\* any, and no pod that is still at work.
SucceededIsWhole ==
    shown.status = "succeeded" =>
        /\ Progress.completed = Cardinality(Pods) /\ MonitorPage = Pods
        /\ PodSummary = [observed |-> Cardinality(Pods), peak |-> Max({PeakOf[p] : p \in Pods})]
        /\ \A r \in PodsPage : r.status = "succeeded"

\* Pages of pods: the counts agree, and a success is shown whole.
PodsAddUp == CountsAreOrdered /\ SucceededIsWhole
=============================================================================
