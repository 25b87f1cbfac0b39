---------------------------- MODULE MCPlanPages ----------------------------
(***************************************************************************)
(* A plan of two rounds for the pages, with a sleep between two tasks.     *)
(***************************************************************************)
EXTENDS PlanPages

MCCourses == {[rounds |-> 2, items |-> <<"task", "sleep", "task">>]}
=============================================================================
