---------------------------- MODULE PodReadings ----------------------------
(***************************************************************************)
(* The readings that an agent takes of its own machine or container while  *)
(* a run lasts (runtime_store.py, append_pod_monitor_snapshot), and the    *)
(* curve that it makes of them.  A reading is taken by the coroutine of    *)
(* the run, by a thread every few seconds and by every request for the     *)
(* status or the curve; it takes a while (it may start another program),   *)
(* so that others take theirs in between.                                  *)
(*                                                                         *)
(* On a host, what counts is the process tree of the load generator, when  *)
(* its pid is known; in a container it is the container.                   *)
(***************************************************************************)
EXTENDS Integers, Sequences, FiniteSets, SequencesExt, FiniteSetsExt

CONSTANTS
    MaxSeconds,        \* bounds the clock
    MaxReadings,    \* bounds the readings that are taken
    Keep,           \* length of the history (720)
    Step            \* seconds between two points of the curve

ASSUME ReadingsAssumption == MaxSeconds \in Nat /\ Keep \in Nat \ {0} /\ Step \in Nat \ {0}

VARIABLES
    place,      \* [host, groups]: a host, or a container; whether the kernel counts its CPU time
    load,       \* [process, pid, status]: the process; whether its pid is known; of the run
    clock,
    readings,   \* [kept, warm, recorded]: pod_monitor_history, cpu_usage_percent_warmup_done,
                \* pod_monitor_terminal_snapshot_recorded
    taker,      \* "run", "sampler" and "page": [pc, last, counter, cpu]; last: at the run's end
    told,       \* the sampler is told to stop
    taken       \* [n, most]: the readings so far, and how many there may be after the last one

readingVars == <<place, load, clock, readings, taker, told, taken>>

Counters == {"tree", "group"}
\* What a figure for CPU is the growth of, and from which time on.
Figures == [of : Counters \cup {"machine", "nothing"}, since : 0..MaxSeconds]
NoFigure == [of |-> "nothing", since |-> 0]
Reading == [at : 0..MaxSeconds, tells : SUBSET {"cpu", "bytes", "tree", "group"}, cpu : Figures,
            bytes : {"tree", "machine"}]
-----------------------------------------------------------------------------
(* The counters *)

OfTree == place.host /\ load.pid
\* _collect_process_tree finds nothing once the process has been waited for.
TreeTotals == IF load.process = "alive" THEN "tree" ELSE "nothing"
\* _read_cgroup_cpu_usage_counter
GroupTotals == IF place.groups THEN "group" ELSE "nothing"
CpuCounter == IF OfTree THEN TreeTotals ELSE GroupTotals
\* The other totals (network, disk, memory, sockets) are of the tree or of the machine.
MachineTotals == "machine"
OtherTotals == IF OfTree THEN TreeTotals ELSE MachineTotals

\* The latest reading that holds the same counter.
Earlier(c) == {i \in DOMAIN readings.kept : c \in readings.kept[i].tells}

\* How a figure for CPU comes about, before the others are read.  A counter that has been read
\* once is a base only; without one, the machine's own figure is taken.
CpuFigure ==
    LET c == CpuCounter
        base == readings.kept[Max(Earlier(c))].at
    IN IF c = "nothing" THEN [of |-> "machine", since |-> clock]
       ELSE IF Earlier(c) = {} \/ clock = base THEN NoFigure
       ELSE [of |-> c, since |-> base]

\* The first difference is not shown: it has the start of the run in it.
CpuBranch(t, last) ==
    LET c == CpuCounter  figure == CpuFigure
        cold == figure.of \in Counters /\ ~readings.warm
    IN /\ taker' = [taker EXCEPT ![t] =
                        [pc |-> "reading", last |-> last, counter |-> c,
                         cpu |-> IF cold THEN NoFigure ELSE figure]]
       /\ readings' = [readings EXCEPT !.warm = @ \/ cold]
       /\ UNCHANGED <<place, load, clock, told>>

NoReading == [pc |-> "idle", last |-> FALSE, counter |-> "nothing", cpu |-> NoFigure]
Taking == {t \in DOMAIN taker : taker[t].pc = "reading"}
Begins(t, last) ==
    /\ taker[t].pc = "idle" /\ taken.n + Cardinality(Taking) < MaxReadings
    /\ CpuBranch(t, last) /\ UNCHANGED taken

\* The reading is added to the history, which forgets its first ones.
Takes(t) ==
    LET me == taker[t]
        tells == (IF me.cpu.of = "nothing" THEN {} ELSE {"cpu"}) \cup ({me.counter} \cap Counters)
                 \cup (IF OtherTotals = "nothing" THEN {} ELSE {"bytes"})
        reading == [at |-> clock, tells |-> tells, cpu |-> me.cpu,
                    bytes |-> IF OtherTotals = "tree" THEN "tree" ELSE "machine"]
        all == readings.kept \o <<reading>>
    IN /\ me.pc = "reading"
       /\ readings' = [kept |-> SubSeq(all, Max({1, Len(all) - Keep + 1}), Len(all)),
                       warm |-> readings.warm \/ (t = "run" /\ told = "unborn" /\ OfTree),
                       recorded |-> readings.recorded \/ me.last]
       /\ taker' = [taker EXCEPT ![t] = NoReading]
       /\ taken' = [n |-> taken.n + 1,
                    most |-> IF taken.most = 0 /\ me.last THEN taken.n + Cardinality(Taking)
                             ELSE taken.most]
       /\ UNCHANGED <<place, load, clock, told>>
-----------------------------------------------------------------------------
(* Who takes readings *)

\* run_jmeter_real, run_k6_real: a container is read before the load starts, ...
RunBegins == ~place.host /\ load.process = "none" /\ taken.n = 0 /\ Begins("run", FALSE)
LoadIsLaunched ==
    /\ load.process = "none" /\ taker["run"].pc = "idle"
    /\ load' = [load EXCEPT !.process = "alive", !.pid = TRUE]
    /\ UNCHANGED <<place, clock, readings, taker, told, taken>>
\* ... and a run again when its pid is known (_prime_process_scope_pod_monitor_snapshot).
Prime == load.process # "none" /\ load.status = "running" /\ told = "unborn" /\ Begins("run", FALSE)
StartSampler ==
    /\ told = "unborn" /\ load.process # "none" /\ taker["run"].pc = "idle" /\ told' = "no"
    /\ UNCHANGED <<place, load, clock, readings, taker, taken>>
Sample == told = "no" /\ load.status = "running" /\ Begins("sampler", FALSE)

\* ensure_terminal_pod_monitor_snapshot
LastWanted == ~readings.recorded
\* get_run_status, get_run_pods_monitor
PageAsks ==
    \/ load.status = "running" /\ Begins("page", FALSE)
    \/ load.status # "running" /\ LastWanted /\ Begins("page", TRUE)

ProcessEnds ==
    /\ load.process = "alive" /\ told = "no" /\ load' = [load EXCEPT !.process = "gone"]
    /\ UNCHANGED <<place, clock, readings, taker, told, taken>>
\* The verdict, then the sampler is told to stop and waited for no longer than a second.
Publish ==
    /\ load.process = "gone" /\ load.status = "running"
    /\ load' = [load EXCEPT !.status = "ended"] /\ told' = "yes"
    /\ UNCHANGED <<place, clock, readings, taker, taken>>
\* _record_terminal_pod_monitor_snapshot_before_pid_release
RecordLast == load.status = "ended" /\ load.pid /\ ~readings.recorded /\ Begins("run", TRUE)
Release ==
    /\ load.status = "ended" /\ load.pid /\ readings.recorded /\ taker["run"].pc = "idle"
    /\ load' = [load EXCEPT !.pid = FALSE]
    /\ UNCHANGED <<place, clock, readings, taker, told, taken>>

Second ==
    /\ clock < MaxSeconds /\ clock' = clock + 1
    /\ UNCHANGED <<place, load, readings, taker, told, taken>>
-----------------------------------------------------------------------------
(* The curve: build_pod_monitor_series *)

\* Mutant: of two readings, the earlier one counts.
FirstCounts(old, new) == [[old EXCEPT !.at = new.at] EXCEPT !.tells = old.tells \cup new.tells]
\* What the later reading tells counts; the point moves to it.
Joined(old, new) ==
    [new EXCEPT !.tells = old.tells \cup new.tells,
                !.cpu = IF "cpu" \in new.tells THEN new.cpu ELSE old.cpu,
                !.bytes = IF "bytes" \in new.tells THEN new.bytes ELSE old.bytes]
AddPoint(points, r) ==
    IF points # <<>> /\ r.at - Last(points).at < Step
    THEN Front(points) \o <<Joined(Last(points), r)>> ELSE points \o <<r>>
Points == FoldLeft(AddPoint, <<>>, readings.kept)
\* The points of the curve of one metric, by their position.
Curve(metric) == {i \in DOMAIN Points : metric \in Points[i].tells}

ReadingInit ==
    /\ place \in [host : BOOLEAN, groups : BOOLEAN]
    /\ load = [process |-> "none", pid |-> FALSE, status |-> "running"]
    /\ clock = 0
    /\ readings = [kept |-> <<>>, warm |-> FALSE, recorded |-> FALSE]
    /\ taker = [t \in {"run", "sampler", "page"} |-> NoReading]
    /\ told = "unborn" /\ taken = [n |-> 0, most |-> 0]

ReadingNext ==
    \/ RunBegins \/ LoadIsLaunched \/ Prime \/ StartSampler \/ Sample \/ PageAsks \/ ProcessEnds
    \/ Publish \/ RecordLast \/ Release \/ Second
    \/ \E t \in DOMAIN taker : Takes(t)
ReadingSpec == ReadingInit /\ [][ReadingNext]_readingVars
-----------------------------------------------------------------------------
(* Properties *)

ReadingTypeOK ==
    /\ place \in [host : BOOLEAN, groups : BOOLEAN]
    /\ load \in [process : {"none", "alive", "gone"}, pid : BOOLEAN, status : {"running", "ended"}]
    /\ clock \in 0..MaxSeconds /\ told \in {"unborn", "no", "yes"}
    /\ Len(readings.kept) <= Keep
    /\ \A i \in DOMAIN readings.kept : readings.kept[i] \in Reading

\* A CPU figure is the growth of one counter between two readings of it: a reading of the same
\* counter, at the time that the figure starts from, is in the history or has been forgotten.
RatesAreOfOneCounter ==
    \A i \in DOMAIN readings.kept :
        LET r == readings.kept[i]
        IN "cpu" \in r.tells /\ r.cpu.of \in Counters =>
             \/ \E j \in 1..i - 1 :
                   readings.kept[j].at = r.cpu.since /\ r.cpu.of \in readings.kept[j].tells
             \/ taken.n > Keep
\* The points of a curve are Step apart, and the last one shows the last reading.
CurveIsCurrent ==
    \A metric \in {"cpu", "bytes"} :
        LET curve == Curve(metric)
            of == {i \in DOMAIN readings.kept : metric \in readings.kept[i].tells}
        IN /\ \A i, j \in curve : i < j => Points[j].at - Points[i].at >= Step
           /\ (curve = {}) = (of = {})
           /\ of # {} => Points[Max(curve)][metric] = readings.kept[Max(of)][metric]
\* After the last reading of the run only those are added that had been begun before it.
LastIsLast == taken.most # 0 => taken.n <= taken.most

\* The readings of a run: rates of one counter, a curve up to date, an end.
ReadingsAreSound == RatesAreOfOneCounter /\ CurveIsCurrent /\ LastIsLast
=============================================================================
