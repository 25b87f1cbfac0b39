-------------------------- MODULE MCPlanExecution ---------------------------
(***************************************************************************)
(* Plans small enough for TLC: the shapes the runs give to Batches.        *)
(***************************************************************************)
EXTENDS PlanExecution

\* One item.
OneItem == <<{1}>>
\* One stage of two items.
OneBatch == <<{1, 2}>>
\* Two stages of one item each.
TwoBatches == <<{1}, {2}>>
\* A sleep postprocessor between two items.
SleepBetween == <<{1}, {}, {2}>>
=============================================================================
