----------------------------- MODULE DataSlices -----------------------------
(***************************************************************************)
(* A data file on its way from the upload to the load generators.  The     *)
(* upload cuts it into shards (task_asset_service.py), a run asks for a    *)
(* number of agents, four functions read that number from the run and the  *)
(* task in ways of their own (run_service.py, task_service.py,             *)
(* test_executor.py), and every agent takes its part of the lines, or all  *)
(* of them (ptp-agent execute.py).  Lines are 1..n, without the header.    *)
(***************************************************************************)
EXTENDS Integers, Sequences, FiniteSets

CONSTANTS
    MaxLines,   \* data lines of the file
    MaxPods,    \* agents and shards that are asked for
    Idle        \* agents that are idle when the run is created

ASSUME SliceAssumption == MaxLines \in Nat /\ MaxPods \in Nat \ {0} /\ Idle \in Nat

VARIABLES
    file,       \* [lines, wanted, sharded]: the upload; wanted = 0 if no count was sent
    shards,     \* the lines of each shard, in the order of shard_index
    asked,      \* [task, run, total, avg]: what the task and the run's parameters say
    slicing,    \* "upload", "create", "dispatch", "fetch" or "refused"
    got         \* per agent of the run: the lines it runs with, or {0} for a refusal

sliceVars == <<file, shards, asked, slicing, got>>

Least(a, b) == IF a < b THEN a ELSE b
Greatest(a, b) == IF a > b THEN a ELSE b

\* A setting: n = 0 if it is absent, text if it came as a string (as form fields do).
Settings == {s \in [n : 0..MaxPods, text : BOOLEAN] : s.n > 0 \/ ~s.text}
Number(s) == IF s.text THEN 0 ELSE s.n
\* What Python's `a or b` leaves of a list of counts, 1 if nothing.
FirstOf(counts) ==
    LET given == {i \in DOMAIN counts : counts[i] > 0}
    IN IF given = {} THEN 1 ELSE counts[CHOOSE i \in given : \A j \in given : i <= j]
-----------------------------------------------------------------------------
(* The upload *)

\* The first shards are one line longer if the lines cannot be divided evenly.
AvgShards(lines, wanted) ==
    LET count == Least(Greatest(wanted, 1), lines)
        size[i \in 1..count] == lines \div count + (IF i <= lines % count THEN 1 ELSE 0)
        last[i \in 0..count] == IF i = 0 THEN 0 ELSE last[i - 1] + size[i]
    IN [i \in 1..count |-> last[i - 1] + 1..last[i]]

CutFile ==
    /\ slicing = "upload" /\ slicing' = "create"
    /\ shards' = IF file.sharded THEN AvgShards(file.lines, file.wanted) ELSE <<>>
    /\ UNCHANGED <<file, asked, got>>
-----------------------------------------------------------------------------
(* How many agents: four readings of the same settings *)

\* _resolve_requested_pod_count: what is checked against the idle agents.
Requested == FirstOf(<<asked.run.n, asked.total.n, Number(asked.task)>>)
\* _build_task_dispatch_payload, _resolve_dispatch_agent_count: what is launched.
Dispatched == FirstOf(<<asked.run.n, asked.task.n>>)
\* _estimate_run_pod_count: what the running run counts for in the pool.
Counted == FirstOf(<<Number(asked.run), Number(asked.total)>>)
\* _build_avg_data_slice_properties: the task's number comes first.
SliceTotal == FirstOf(<<asked.task.n, Dispatched>>)

CreateRun ==
    /\ slicing = "create"
    /\ slicing' = IF Requested > Idle THEN "refused" ELSE "dispatch"
    /\ UNCHANGED <<file, shards, asked, got>>

\* select_agents and execute_test_task: as many agents as are dispatched, or none.
DispatchRun ==
    /\ slicing = "dispatch"
    /\ IF Dispatched > Idle THEN slicing' = "refused" /\ UNCHANGED got
       ELSE slicing' = "fetch" /\ got' = [i \in 1..Dispatched |-> {}]
    /\ UNCHANGED <<file, shards, asked>>
-----------------------------------------------------------------------------
(* The agent *)

SliceStart(i) == Least(i, SliceTotal)
Whole == 1..file.lines
Refusal == {0}

\* Mutant: the last page is as long as the others.
LineSliceShort(i) ==
    LET size == Greatest(1, file.lines \div SliceTotal)
        start == (SliceStart(i) - 1) * size
    IN IF start >= file.lines THEN Whole
       ELSE start + 1..Least(SliceStart(i) * size, file.lines)

\* _materialize_data_asset_to_file: a page of the lines, the last page takes the rest.
LineSlice(i) ==
    LET size == Greatest(1, file.lines \div SliceTotal)
        start == (SliceStart(i) - 1) * size
        end == IF SliceStart(i) >= SliceTotal THEN file.lines
               ELSE Least(SliceStart(i) * size, file.lines)
    IN IF start >= file.lines THEN Whole ELSE start + 1..end

SliceOf(i) ==
    IF ~asked.avg THEN Whole
    ELSE IF shards # <<>>
    THEN IF SliceStart(i) <= Len(shards) THEN shards[SliceStart(i)] ELSE Refusal
    ELSE IF SliceTotal > 1 THEN LineSlice(i) ELSE Whole

Fetch(i) ==
    /\ slicing = "fetch" /\ i \in DOMAIN got /\ got[i] = {}
    /\ got' = [got EXCEPT ![i] = SliceOf(i)] /\ got' # got
    /\ UNCHANGED <<file, shards, asked, slicing>>
-----------------------------------------------------------------------------
SliceInit ==
    /\ file \in [lines : 0..MaxLines, wanted : 0..MaxPods, sharded : BOOLEAN]
    /\ (~file.sharded => file.wanted = 0)
    /\ asked \in [task : Settings, run : Settings, total : Settings, avg : BOOLEAN]
    /\ shards = <<>> /\ slicing = "upload" /\ got = <<>>
SliceNext == CutFile \/ CreateRun \/ DispatchRun \/ \E i \in 1..MaxPods : Fetch(i)
SliceSpec == SliceInit /\ [][SliceNext]_sliceVars
-----------------------------------------------------------------------------
(* Properties *)

SliceTypeOK ==
    /\ file.lines \in 0..MaxLines
    /\ \A i \in DOMAIN shards : shards[i] \subseteq 1..file.lines
    /\ slicing \in {"upload", "create", "dispatch", "fetch", "refused"}
    /\ \A i \in DOMAIN got : got[i] \subseteq 0..file.lines

Fetched == slicing = "fetch" /\ file.lines > 0 /\ \A i \in DOMAIN got : got[i] # {}
\* The number that the slices are computed with, the number of agents and the number of
\* parts that the file can give agree.
CountsAgree ==
    /\ SliceTotal = Dispatched
    /\ IF shards = <<>> THEN file.lines >= Dispatched ELSE Len(shards) = Dispatched

\* Average distribution gives every line to exactly one agent, if the counts agree.
EachLineOnce ==
    Fetched /\ asked.avg /\ CountsAgree =>
        \A n \in Whole : Cardinality({i \in DOMAIN got : n \in got[i]}) = 1

\* An agent that is one too many for a sharded file refuses: it never runs with the
\* lines of nobody; and all shards together are the file, none empty, of even size.
ShardsMakeTheFile ==
    slicing # "upload" /\ shards # <<>> =>
        /\ \A n \in Whole : Cardinality({i \in DOMAIN shards : n \in shards[i]}) = 1
        /\ \A i, j \in DOMAIN shards :
              shards[i] # {} /\ Cardinality(shards[i]) - Cardinality(shards[j]) <= 1

\* A count that the run's parameters give as a number is read alike by the check against the
\* idle agents, the launch and the count of the used agents: what was free suffices.
ReadingsAgree ==
    slicing = "fetch" /\ Number(asked.run) > 0 =>
        Requested = Dispatched /\ Counted = Dispatched /\ Len(got) <= Idle

\* Every line once, whether shards are fetched or lines are cut; the shards are the file; and
\* the check of a run, its launch and its use of the pool count the same agents.
SlicesAreSound == EachLineOnce /\ ShardsMakeTheFile /\ ReadingsAgree
=============================================================================
