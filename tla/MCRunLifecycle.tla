--------------------------- MODULE MCRunLifecycle ---------------------------
(***************************************************************************)
(* Two instances in one run.  "waves": two agents, launched one after the  *)
(* other, and no reader.  "reading": one agent, the readers, and a poll    *)
(* task that is not retried.                                               *)
(***************************************************************************)
EXTENDS RunLifecycle

CONSTANT MCReaders

VARIABLE shape

Reading == INSTANCE RunLifecycle WITH NumAgents <- 1, Readers <- MCReaders, PollRetries <- 0

MCInit == \/ shape = "waves" /\ Init
          \/ shape = "reading" /\ Reading!Init
MCNext == \/ shape = "waves" /\ UNCHANGED shape /\ Next
             /\ agent'[2] \notin {"failed", "gone"}  \* a bound: only the first agent fails or restarts
          \/ shape = "reading" /\ UNCHANGED shape /\ Reading!Next
MCSpec == MCInit /\ [][MCNext]_<<vars, shape>>
=============================================================================
