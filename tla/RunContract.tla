---------------------------- MODULE RunContract -----------------------------
(***************************************************************************)
(* What the system promises of a Run to those who watch it (the API, the   *)
(* web UI, the plan executor): one claim, load started once on each agent  *)
(* and only after the claim, and an end that is never taken back.  Which   *)
(* end it is may still be corrected: a later look at the agents can turn a *)
(* "failed" or "stopped" into what they report.                            *)
(***************************************************************************)
EXTENDS Naturals

CONSTANTS Agents,    \* the agents the run may be launched on
          Terminal   \* the statuses of a run that has ended

VARIABLES status,    \* RunStatus of the row
          launches   \* how often each agent started a load for the run

vars == <<status, launches>>

Init == status = "preparing" /\ launches = [a \in Agents |-> 0]

Claim ==
    /\ status = "preparing" /\ status' = "running"
    /\ UNCHANGED launches

\* A wave: some agents that have not been started for this run are.
Launch ==
    /\ status # "preparing" /\ UNCHANGED status
    /\ \E wave \in SUBSET {a \in Agents : launches[a] = 0} :
          launches' = [a \in Agents |-> IF a \in wave THEN 1 ELSE launches[a]]

\* The run ends, or its end is corrected.
End ==
    /\ status' \in Terminal
    /\ UNCHANGED launches

Next == Claim \/ Launch \/ End

Spec == Init /\ [][Next]_vars
=============================================================================
