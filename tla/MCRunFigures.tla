---------------------------- MODULE MCRunFigures ----------------------------
(* The loads of two agents for RunFigures. *)
EXTENDS RunFigures

Drive(rate, rt, rate2, rt2) ==
    [e \in {"e1", "e2"} |-> IF e = "e1" THEN [rate |-> rate, rt |-> rt] ELSE [rate |-> rate2, rt |-> rt2]]
MCLoads == <<Drive(1, 2, 2, 5), Drive(3, 4, 0, 1)>>
=============================================================================
