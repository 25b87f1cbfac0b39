--------------------------- MODULE PlanDeadlines ---------------------------
(***************************************************************************)
(* The time that a plan run may take.  Its executor works through rounds,  *)
(* stages and items (plan_executor.py); a service computes from the same   *)
(* plan when it should end and when the watchdog may end it                *)
(* (plan_service.py, _build_plan_execution_estimate,                       *)
(* _build_plan_execution_timeout_seconds,                                  *)
(* govern_timed_out_active_plan_runs).  Both read the items on their own.  *)
(*                                                                         *)
(* Time is counted in units.  What an item takes is a number; for a run by *)
(* iterations it is the time they are estimated at.                        *)
(***************************************************************************)
EXTENDS Integers, Sequences, FiniteSets, SequencesExt

CONSTANTS
    Plans,          \* [rounds, stages]: a stage is a sequence of items, see Seconds, PollTimeout
    MinTimeout,     \* 150 s: no run times out before
    Slack,          \* 30 s, more for JMeter: what a run may take beyond its duration
    WaitLimit,      \* RUN_POLL_TIMEOUT: the executor waits no longer for a run
    RetryDelay,     \* between two attempts of an item
    Grace,          \* of the watchdog for plan runs
    ChildGrace,     \* and for the runs that are active
    MaxLate         \* bounds the time that passes while somebody should act

PlanItems == UNION {UNION {Range(stage) : stage \in Range(p.stages)} : p \in Plans}

\* A plan without stages is not launched.
ASSUME DeadlineAssumption ==
    /\ {MinTimeout, Slack, WaitLimit, RetryDelay, Grace, ChildGrace, MaxLate} \subseteq Nat
    /\ \A p \in Plans :
          p.rounds \in Nat \ {0} /\ p.stages # <<>> /\ p.stages \in Seq(Seq(PlanItems))
    /\ \A x \in PlanItems :
          /\ x.kind \in {"task", "sleep"} /\ x.base \in Nat
          /\ \A r \in DOMAIN x.over : x.over[r] \in Nat

VARIABLES
    plan,       \* one of Plans
    now,        \* time since the plan run was started
    at,         \* [round, stage, item, abort]: where the executor goes on; or leaves the round
    phase,      \* "next", "waiting", "pause" before a retry, "sleeping", "ended", "timed_out"
    until,      \* when the wait, the pause or the sleep is over
    wave,       \* runs of the present batch: [item, since, tries, status], in order
    loose,      \* active runs that the executor waits for no longer: their own deadlines
    late,       \* time that has passed while somebody should have acted
    history     \* "retried", "failed", "uneven": a run did not take its duration

deadlineVars == <<plan, now, at, phase, until, wave, loose, late, history>>

Later(a, b) == IF a > b THEN a ELSE b
-----------------------------------------------------------------------------
(* The items: [kind, base, over, retries, abort] *)

\* _resolve_stage_item_for_round: over maps rounds to what replaces the item's time there.
Seconds(item, r) == IF r \in DOMAIN item.over THEN item.over[r] ELSE item.base
\* _calculate_poll_timeout_seconds
PollTimeout(item, r) == Later(MinTimeout, Seconds(item, r) + Slack)
TimeoutOf(item, r) == IF item.kind = "task" THEN PollTimeout(item, r) ELSE Seconds(item, r)

TimeOf(item, r, limits) == IF limits THEN TimeoutOf(item, r) ELSE Seconds(item, r)

\* The tasks of a stage up to a sleep run together; by their limits or by their durations.
AddItem(sum, item, time) ==
    IF item.kind = "task" THEN [sum EXCEPT !.wave = Later(@, time)]
    ELSE [wave |-> 0, done |-> sum.done + sum.wave + time]
StageTime(stage, r, limits) ==
    LET end == FoldLeft(LAMBDA sum, item : AddItem(sum, item, TimeOf(item, r, limits)),
                        [wave |-> 0, done |-> 0], stage)
    IN end.done + end.wave
RoundTime(r, limits) ==
    SumFunction([s \in DOMAIN plan.stages |-> StageTime(plan.stages[s], r, limits)])
PlanTime(limits) == SumFunction([r \in 1..plan.rounds |-> RoundTime(r, limits)])

Estimate == PlanTime(FALSE)
\* Mutant: the deadline adds up durations, not timeouts.
DeadlineOfDurations == PlanTime(FALSE)
Deadline == PlanTime(TRUE)
-----------------------------------------------------------------------------
(* The executor: execute_plan_task, _execute_stage_task_batch *)

Stage == plan.stages[at.stage]
Active(run) == run.status = "active"
Recalled(why, holds) == IF holds THEN history \cup {why} ELSE history
Limit(run) == PollTimeout(Stage[run.item], at.round)

\* The batch in front, or the sleep, or the next stage, round or end.
NextSleep ==
    LET sleeps == {i \in at.item..Len(Stage) : Stage[i].kind = "sleep"}
    IN IF sleeps = {} THEN Len(Stage) + 1 ELSE CHOOSE i \in sleeps : \A j \in sleeps : i <= j
StartWave ==
    /\ phase = "next" /\ ~at.abort /\ at.item < NextSleep
    /\ wave' = [n \in 1..NextSleep - at.item |->
                  [item |-> at.item + n - 1, since |-> now, tries |-> 0, status |-> "active"]]
    /\ phase' = "waiting" /\ until' = now + WaitLimit /\ at' = [at EXCEPT !.item = NextSleep]
    /\ UNCHANGED <<plan, now, loose, late, history>>
GoToSleep ==
    /\ phase = "next" /\ ~at.abort /\ at.item = NextSleep /\ at.item <= Len(Stage)
    /\ phase' = "sleeping" /\ until' = now + Seconds(Stage[at.item], at.round)
    /\ at' = [at EXCEPT !.item = @ + 1]
    /\ UNCHANGED <<plan, now, wave, loose, late, history>>
LeaveStage ==
    /\ phase = "next" /\ (at.abort \/ at.item > Len(Stage))
    /\ IF ~at.abort /\ at.stage < Len(plan.stages)
       THEN at' = [at EXCEPT !.stage = @ + 1, !.item = 1] /\ UNCHANGED phase
       ELSE IF at.round < plan.rounds
       THEN at' = [round |-> at.round + 1, stage |-> 1, item |-> 1, abort |-> FALSE] /\ UNCHANGED phase
       ELSE phase' = "ended" /\ UNCHANGED at
    /\ UNCHANGED <<plan, now, until, wave, loose, late, history>>

\* The first run of the batch is waited for; one that is given up counts as failed.
Over == ~Active(Head(wave)) \/ now >= until
OwnDeadline(run) == run.since + Limit(run) + ChildGrace
Observe ==
    /\ phase = "waiting" /\ Over /\ UNCHANGED <<plan, now, late>>
    /\ LET run == Head(wave)
           failed == run.status # "succeeded"
       IN /\ loose' = loose \cup (IF Active(run) THEN {OwnDeadline(run)} ELSE {})
          /\ IF failed /\ run.tries < Stage[run.item].retries
             THEN /\ phase' = "pause" /\ until' = now + RetryDelay
                  /\ wave' = [wave EXCEPT ![1].status = "failed"]
                  /\ history' = history \cup {"retried"} /\ UNCHANGED at
             ELSE /\ phase' = IF Len(wave) = 1 THEN "next" ELSE "waiting"
                  /\ until' = now + WaitLimit /\ wave' = Tail(wave)
                  /\ history' = Recalled("failed", failed)
                  /\ at' = [at EXCEPT !.abort = @ \/ (failed /\ Stage[run.item].abort)]

TryAgain ==
    /\ phase = "pause" /\ now >= until
    /\ wave' = [wave EXCEPT ![1].since = now, ![1].tries = @ + 1, ![1].status = "active"]
    /\ phase' = "waiting" /\ until' = now + WaitLimit
    /\ UNCHANGED <<plan, now, at, loose, late, history>>

SleepOver ==
    /\ phase = "sleeping" /\ now >= until /\ phase' = "next"
    /\ UNCHANGED <<plan, now, at, until, wave, loose, late, history>>
-----------------------------------------------------------------------------
(* The runs, the clock and the watchdog *)

RunOver(n) ==
    /\ phase \in {"waiting", "pause"} /\ n \in DOMAIN wave /\ Active(wave[n])
    /\ \E ok \in BOOLEAN :
          /\ wave' = [wave EXCEPT ![n].status = IF ok THEN "succeeded" ELSE "failed"]
          /\ history' = Recalled("uneven", ~ok \/ now - wave[n].since # Seconds(Stage[wave[n].item], at.round))
    /\ UNCHANGED <<plan, now, at, phase, until, loose, late>>
LooseRunOver(d) ==
    /\ d \in loose /\ loose' = loose \ {d}
    /\ UNCHANGED <<plan, now, at, phase, until, wave, late, history>>

\* Somebody has something to do at this moment: the executor, or a run at its timeout.
Due ==
    \/ phase = "next"
    \/ phase \in {"pause", "sleeping"} /\ now >= until
    \/ phase = "waiting" /\ Over
    \/ \E n \in DOMAIN wave : Active(wave[n]) /\ now - wave[n].since >= Limit(wave[n])
Working == phase \notin {"ended", "timed_out"}
Tick ==
    /\ Working /\ now' = now + 1
    /\ late' = late + (IF Due THEN 1 ELSE 0) /\ late' <= MaxLate
    /\ UNCHANGED <<plan, at, phase, until, wave, loose, history>>

\* _has_active_child_run_within_timeout_deadline
ActiveChild ==
    \/ \E n \in DOMAIN wave : Active(wave[n]) /\ now < OwnDeadline(wave[n])
    \/ \E d \in loose : now < d
Govern ==
    /\ Working /\ Deadline > 0 /\ now >= Deadline + Grace /\ ~ActiveChild
    /\ phase' = "timed_out"
    /\ UNCHANGED <<plan, now, at, until, wave, loose, late, history>>
-----------------------------------------------------------------------------
DeadlineInit ==
    /\ plan \in Plans /\ now = 0 /\ phase = "next" /\ until = 0
    /\ at = [round |-> 1, stage |-> 1, item |-> 1, abort |-> FALSE]
    /\ wave = <<>> /\ loose = {} /\ late = 0 /\ history = {}
DeadlineNext ==
    \/ StartWave \/ GoToSleep \/ LeaveStage \/ Observe \/ TryAgain \/ SleepOver \/ Tick \/ Govern
    \/ \E n \in DOMAIN wave : RunOver(n)
    \/ \E d \in loose : LooseRunOver(d)
DeadlineSpec == DeadlineInit /\ [][DeadlineNext]_deadlineVars
-----------------------------------------------------------------------------
(* Properties *)

DeadlineTypeOK ==
    /\ plan \in Plans /\ now \in Nat /\ at.round \in 1..plan.rounds /\ late \in 0..MaxLate
    /\ phase \in {"next", "waiting", "pause", "sleeping", "ended", "timed_out"}
    /\ history \subseteq {"retried", "failed", "uneven"}

\* The watchdog does not end a plan run whose runs keep their timeouts and are not retried,
\* unless its executor has been behind for longer than the grace.  And the estimate shown with
\* the plan is the time it takes when every run takes its duration.
TimesAgree ==
    /\ phase = "timed_out" /\ "retried" \notin history => late >= Grace
    /\ phase = "ended" /\ history = {} /\ late = 0 => now = Estimate
=============================================================================
