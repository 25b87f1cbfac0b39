---------------------------- MODULE AgentRuntime ----------------------------
(***************************************************************************)
(* One run inside an agent: the coroutine that drives the load generator,  *)
(* the process it starts, the threads beside it (pod sampling, log upload) *)
(* and the request handlers that read and stop the run.  The coroutine     *)
(* runs on the event loop, the handlers in the thread pool: every step of  *)
(* one may fall between two steps of another.  Code that tests a field and *)
(* writes it with no call in between is one step (the interpreter does not *)
(* switch threads there).                                                  *)
(* Source: backend/ptp-agent/app/api/execute.py, core/runtime_store.py.    *)
(***************************************************************************)
EXTENDS Integers

CONSTANTS
    Engines,    \* how the agent executes: real "k6", real "jmeter", or "mock"
    Stoppers,   \* calls of POST /agent/runs/{token}/stop
    Readers     \* clients of GET /agent/runs/{token}/status

ASSUME AgentAssumption == Engines \subseteq {"k6", "jmeter", "mock"}

Terminal == {"succeeded", "failed", "stopped"}
\* How much of the run's log there is: some output, all output, the finalizer's lines too.
LogLevel == 0..2

VARIABLES
    engine,     \* the one of Engines that this run uses
    run,        \* RunState: status; whether pid, ended_at, error and a summary are set
    proc,       \* the load process: [state, code]
    main,       \* where the coroutine is
    finished,   \* its local process_finished
    sampler,    \* the pod sampling thread
    log,        \* LogLevel of the log file
    s3,         \* LogLevel of the log in S3, -1 before the first upload
    uploader,   \* the upload thread: [pc, read]
    copy,       \* what the coroutine has read to archive it
    flushed,    \* LogLevel when the coroutine told the upload thread to stop
    lost,       \* the last uploads of the two, "last" and "archive", that left no log in S3
    stop,       \* where each stop request is
    missed,     \* a stop request has found no pid to signal
    reader      \* per reader: [pc, answer]

logs == <<log, s3, uploader, copy, flushed, lost>>
load == <<proc, finished, sampler>>
clients == <<engine, stop, missed, reader>>
vars == <<run, main, logs, load, clients>>

RunState == [status : {"running"} \cup Terminal, pid : BOOLEAN, ended : BOOLEAN,
             error : BOOLEAN, summary : BOOLEAN]
FirstState == [status |-> "running", pid |-> FALSE, ended |-> FALSE, error |-> FALSE,
               summary |-> FALSE]
Active == run.status = "running"

\* POST /agent/execute stores the run as running before its coroutine has begun.
Init ==
    /\ engine \in Engines
    /\ run = FirstState /\ proc = [state |-> "none", code |-> 0]
    /\ main = IF engine = "mock" THEN "simulate" ELSE "prepare"
    /\ finished = FALSE /\ sampler = "none"
    /\ log = 0 /\ s3 = -1 /\ uploader = [pc |-> "none", read |-> 0]
    /\ copy = 0 /\ flushed = 0 /\ lost = {}
    /\ stop = [s \in Stoppers |-> "idle"] /\ missed = FALSE
    /\ reader = [r \in Readers |-> [pc |-> "idle", answer |-> FirstState]]
-----------------------------------------------------------------------------
(* The coroutine: run_jmeter_real, run_k6_real, simulate_run *)

Goes(from, to) == main = from /\ main' = to

\* The script, the data and the proto files are written to the run's directory.
Prepare == Goes("prepare", "start") /\ UNCHANGED <<run, logs, load, clients>>

\* Popen: the process runs before anyone else knows its pid.
Start ==
    /\ Goes("start", "take_pid") /\ proc' = [proc EXCEPT !.state = "alive"]
    /\ UNCHANGED <<run, finished, sampler, logs, clients>>

TakePid ==
    /\ Goes("take_pid", IF engine = "k6" THEN "sampler" ELSE "uploader")
    /\ run' = [run EXCEPT !.pid = TRUE]
    /\ UNCHANGED <<logs, load, clients>>

\* Three kinds of thread are started one after the other, k6's sampling thread before the
\* upload and the pumps, JMeter's behind them.
StartSampler ==
    /\ Goes("sampler", IF engine = "k6" THEN "uploader" ELSE "wait")
    /\ sampler' = "running"
    /\ UNCHANGED <<run, proc, finished, logs, clients>>
StartUploader ==
    /\ Goes("uploader", "pumps") /\ uploader' = [uploader EXCEPT !.pc = "read"]
    /\ UNCHANGED <<run, log, s3, copy, flushed, lost, load, clients>>
StartPumps ==
    /\ Goes("pumps", IF engine = "k6" THEN "wait" ELSE "sampler")
    /\ UNCHANGED <<run, logs, load, clients>>

\* JMeter's result file is parsed every two seconds while the load runs.
Refresh ==
    /\ engine = "jmeter" /\ Goes("wait", "wait") /\ proc.state = "alive" /\ Active
    /\ run' = [run EXCEPT !.summary = TRUE]
    /\ UNCHANGED <<logs, load, clients>>

\* Mutant: the pid is given up with the process.
WakeForgetsPid ==
    /\ Goes("wait", "join") /\ proc.state = "reaped"
    /\ finished' = TRUE /\ run' = [run EXCEPT !.ended = TRUE, !.pid = FALSE]
    /\ UNCHANGED <<proc, sampler, logs, clients>>
\* process.wait has returned.
Wake ==
    /\ Goes("wait", "join") /\ proc.state = "reaped"
    /\ finished' = TRUE /\ run' = [run EXCEPT !.ended = TRUE]
    /\ UNCHANGED <<proc, sampler, logs, clients>>

\* The threads are joined for a second each, ended or not; then the upload is told to stop.
Join ==
    /\ Goes("join", "parse") /\ flushed' = log
    /\ UNCHANGED <<run, log, s3, uploader, copy, lost, load, clients>>

\* The summary or the result file is parsed; it may be missing.
Parse ==
    /\ Goes("parse", "publish")
    /\ \E found \in BOOLEAN : run' = [run EXCEPT !.summary = @ \/ found]
    /\ UNCHANGED <<logs, load, clients>>

\* A stop is never overwritten.  JMeter can exit with 0 after a fatal error message.
Publish ==
    /\ Goes("publish", "finally") /\ log' = 2
    /\ \E fatal \in IF engine = "jmeter" THEN BOOLEAN ELSE {FALSE} :
         run' = CASE run.status = "stopped" -> [run EXCEPT !.error = @ \/ fatal]
                  [] run.status # "stopped" /\ (proc.code # 0 \/ fatal) ->
                        [run EXCEPT !.status = "failed", !.error = TRUE]
                  [] OTHER -> [run EXCEPT !.status = "succeeded"]
    /\ UNCHANGED <<s3, uploader, copy, flushed, lost, load, clients>>

\* Where an exception may leave the coroutine: a file, the load generator or a thread
\* cannot be had, the result cannot be parsed.
MayRaise == {"prepare", "start", "sampler", "uploader", "pumps", "parse"}
\* Mutants: an exception overwrites a stop; it is swallowed.
RaiseOverwrites ==
    /\ main \in MayRaise /\ main' = "finally" /\ log' = 2
    /\ run' = [run EXCEPT !.status = "failed", !.error = TRUE]
    /\ UNCHANGED <<s3, uploader, copy, flushed, lost, load, clients>>
RaiseSwallowed ==
    /\ main \in MayRaise /\ main' = "finally" /\ log' = 2
    /\ UNCHANGED <<run, s3, uploader, copy, flushed, lost, load, clients>>
\* A process that has been started is left alone, and so is an upload thread: only the way
\* through process.wait tells it to stop.
Raise ==
    /\ main \in MayRaise /\ main' = "finally" /\ log' = 2
    /\ run' = IF run.status = "stopped" THEN run
              ELSE [run EXCEPT !.status = "failed", !.error = TRUE]
    /\ UNCHANGED <<s3, uploader, copy, flushed, lost, load, clients>>

\* finally: the sampling thread is told to stop.
Finally ==
    /\ Goes("finally", "release")
    /\ sampler' = IF sampler = "running" THEN "told" ELSE sampler
    /\ UNCHANGED <<run, proc, finished, logs, clients>>

\* The pid is given up when the process is known to have ended, after the verdict.
Release ==
    /\ Goes("release", "archive")
    /\ run' = [run EXCEPT !.pid = @ /\ ~finished, !.ended = TRUE]
    /\ UNCHANGED <<logs, load, clients>>

\* _archive_artifacts reads the log file and uploads it.
Archive ==
    /\ Goes("archive", "store") /\ copy' = log
    /\ UNCHANGED <<run, log, s3, uploader, flushed, lost, load, clients>>
\* An upload that fails is logged and the run ends all the same.
Store ==
    /\ Goes("store", "done")
    /\ \/ s3' = copy /\ UNCHANGED lost
       \/ lost' = lost \cup {"archive"} /\ UNCHANGED s3
    /\ UNCHANGED <<run, log, uploader, copy, flushed, load, clients>>

\* The mock execution sleeps through its steps and looks for a stop at each.
Simulate ==
    /\ Goes("simulate", "done")
    /\ run' = [run EXCEPT !.status = IF @ = "stopped" THEN @ ELSE "succeeded",
                          !.ended = TRUE]
    /\ UNCHANGED <<logs, load, clients>>

Main == \/ Prepare \/ Start \/ TakePid \/ StartSampler \/ StartUploader \/ StartPumps
        \/ Wake \/ Join \/ Parse \/ Publish \/ Raise \/ Finally \/ Release \/ Archive \/ Store \/ Simulate
-----------------------------------------------------------------------------
(* The process and the threads *)

\* The load ends by itself, well or not.
ProcessEnds ==
    /\ proc.state = "alive"
    /\ \E c \in {0, 1} : proc' = [state |-> "zombie", code |-> c]
    /\ UNCHANGED <<run, main, finished, sampler, logs, clients>>

\* The thread that waits for the process collects it: until then os.kill(pid, 0) finds it.
Reap ==
    /\ proc.state = "zombie" /\ main = "wait" /\ proc' = [proc EXCEPT !.state = "reaped"]
    /\ UNCHANGED <<run, main, finished, sampler, logs, clients>>

\* The pumps have copied the last line of output into the log.
OutputEnds ==
    /\ proc.state \in {"zombie", "reaped"} /\ log = 0 /\ log' = 1
    /\ UNCHANGED <<run, main, s3, uploader, copy, flushed, lost, load, clients>>

\* The sampling thread looks at its event and at the status between two samples.
SamplerEnds ==
    /\ \/ sampler = "told"
       \/ sampler = "running" /\ ~Active
    /\ sampler' = "done"
    /\ UNCHANGED <<run, main, proc, finished, logs, clients>>

\* The upload thread copies the file again and again; once told to stop it does so a last
\* time.
Told == main \notin {"wait", "join"} /\ finished
\* Mutant: told to stop, it uploads what it read before.
UploaderKeeps ==
    /\ uploader.pc = "read"
    /\ uploader' = IF Told THEN [uploader EXCEPT !.pc = "last"]
                   ELSE [pc |-> "put", read |-> log]
    /\ UNCHANGED <<run, main, log, s3, copy, flushed, lost, load, clients>>
UploaderReads ==
    /\ uploader.pc = "read"
    /\ uploader' = [pc |-> IF Told THEN "last" ELSE "put", read |-> log]
    /\ UNCHANGED <<run, main, log, s3, copy, flushed, lost, load, clients>>
\* A failed upload is passed over, the last one too.  One that was read before the coroutine
\* archived the log replaces the archive.
UploaderPuts ==
    /\ uploader.pc \in {"put", "last"}
    /\ uploader' = [uploader EXCEPT !.pc = IF @ = "put" THEN "read" ELSE "done"]
    /\ \/ /\ s3' = uploader.read
          /\ lost' = IF uploader.pc = "put" /\ main = "done" /\ uploader.read < s3
                     THEN lost \cup {"archive"} ELSE lost
       \/ /\ lost' = IF uploader.pc = "last" THEN lost \cup {"last"} ELSE lost
          /\ UNCHANGED s3
    /\ UNCHANGED <<run, main, log, copy, flushed, load, clients>>

Threads == SamplerEnds \/ UploaderReads \/ UploaderPuts
-----------------------------------------------------------------------------
(* POST /agent/runs/{token}/stop *)

Turn(s, to) == stop' = [stop EXCEPT ![s] = to]

StopLooks(s) ==
    /\ stop[s] = "idle"
    /\ Turn(s, IF Active THEN "signal" ELSE "done")
    /\ UNCHANGED <<run, main, logs, load, engine, missed, reader>>

\* Mutant: SIGTERM alone, and nobody looks whether the load heeds it.
StopSignalsNothing(s) ==
    /\ stop[s] = "signal" /\ Turn(s, "mark")
    /\ missed' = (missed \/ ~run.pid)
    /\ UNCHANGED <<run, main, load, logs, engine, reader>>
\* SIGTERM to the process group, SIGKILL after the grace; nothing without a pid.
StopSignals(s) ==
    /\ stop[s] = "signal"
    /\ IF run.pid
       THEN /\ Turn(s, "await") /\ UNCHANGED missed
            /\ IF proc.state = "alive"
               THEN \E c \in {0, 1} : proc' = [state |-> "zombie", code |-> c]
               ELSE UNCHANGED proc
       ELSE Turn(s, "mark") /\ missed' = TRUE /\ UNCHANGED proc
    /\ UNCHANGED <<run, main, finished, sampler, logs, engine, reader>>

\* The process is gone and its pid is forgotten, or the wait for that ends.
StopAwaits(s) ==
    /\ stop[s] = "await" /\ Turn(s, "mark")
    /\ \/ proc.state = "reaped" /\ run' = [run EXCEPT !.pid = FALSE]
       \/ proc.state = "zombie" /\ UNCHANGED run
    /\ UNCHANGED <<main, logs, load, engine, missed, reader>>

\* Mutant: a status of its own for the time the load takes to end.
StopMarksStopping(s) ==
    /\ stop[s] = "mark" /\ Turn(s, "done")
    /\ run' = [run EXCEPT !.status = "stopping", !.ended = TRUE]
    /\ UNCHANGED <<main, logs, load, engine, missed, reader>>
StopMarks(s) ==
    /\ stop[s] = "mark" /\ Turn(s, "done")
    /\ run' = [run EXCEPT !.status = "stopped", !.ended = TRUE]
    /\ UNCHANGED <<main, logs, load, engine, missed, reader>>

Stop(s) == StopLooks(s) \/ StopSignals(s) \/ StopAwaits(s) \/ StopMarks(s)
-----------------------------------------------------------------------------
(* GET /agent/runs/{token}/status *)

Reads(r, to) == reader' = [reader EXCEPT ![r].pc = to]

\* _reconcile_running_state looks at the status first.
ReaderLooks(r) ==
    /\ reader[r].pc = "idle"
    /\ Reads(r, IF Active THEN "reconcile" ELSE "answer")
    /\ UNCHANGED <<run, main, logs, load, engine, stop, missed>>

\* While the coroutine is at work the run is left as it is.  Afterwards a run that was
\* seen running is given an end.
Reconciled ==
    [run EXCEPT !.status = IF run.error \/ ~(run.ended \/ run.summary) THEN "failed"
                           ELSE "succeeded",
                !.error = @ \/ ~(run.ended \/ run.summary), !.ended = TRUE]
ReaderReconciles(r) ==
    /\ reader[r].pc = "reconcile" /\ Reads(r, "answer")
    /\ run' = IF main = "done" THEN Reconciled ELSE run
    /\ UNCHANGED <<main, logs, load, engine, stop, missed>>

ReaderAnswers(r) ==
    /\ reader[r].pc = "answer"
    /\ reader' = [reader EXCEPT ![r] = [pc |-> "idle", answer |-> run]]
    /\ UNCHANGED <<run, main, logs, load, engine, stop, missed>>

Read(r) == ReaderLooks(r) \/ ReaderReconciles(r) \/ ReaderAnswers(r)
-----------------------------------------------------------------------------
Next == \/ Main \/ Refresh \/ ProcessEnds \/ Reap \/ OutputEnds \/ Threads
        \/ \E s \in Stoppers : Stop(s)
        \/ \E r \in Readers : Read(r)

Spec == Init /\ [][Next]_vars

\* The event loop and the threads run on and the load has a duration; nobody has to ask.
Fairness ==
    /\ WF_vars(Main) /\ WF_vars(ProcessEnds) /\ WF_vars(Reap)
    /\ WF_vars(SamplerEnds) /\ WF_vars(UploaderReads) /\ WF_vars(UploaderPuts)
FairSpec == Spec /\ Fairness
-----------------------------------------------------------------------------
(* How the control plane reads an answer *)

\* The poller (_normalize_agent_terminal_status), its grace for a missing pid over.
PollVerdict(a) ==
    IF a.status # "running" \/ a.pid THEN a.status
    ELSE IF a.error THEN "failed"
    ELSE IF a.summary THEN "succeeded" ELSE "failed"

\* The terminal sync of a request for the run's page takes an end for a success.
SyncVerdict(a) ==
    IF a.status = "running" /\ (a.ended \/ (a.summary /\ ~a.pid)) THEN "succeeded"
    ELSE a.status
-----------------------------------------------------------------------------
(* Properties *)

TypeOK ==
    /\ engine \in Engines /\ run \in RunState
    /\ proc \in [state : {"none", "alive", "zombie", "reaped"}, code : {0, 1}]
    /\ main \in {"prepare", "start", "take_pid", "sampler", "uploader", "pumps", "wait",
                 "join", "parse", "publish", "finally", "release", "archive", "store", "simulate", "done"}
    /\ finished \in BOOLEAN /\ sampler \in {"none", "running", "told", "done"}
    /\ log \in LogLevel /\ s3 \in LogLevel \cup {-1} /\ copy \in LogLevel
    /\ flushed \in LogLevel /\ lost \subseteq {"last", "archive"}
    /\ uploader \in [pc : {"none", "read", "put", "last", "done"}, read : LogLevel]
    /\ stop \in [Stoppers -> {"idle", "signal", "await", "mark", "done"}]
    /\ missed \in BOOLEAN
    /\ reader \in [Readers -> [pc : {"idle", "reconcile", "answer"}, answer : RunState]]

\* A run once stopped stays stopped, whatever the coroutine, its exceptions and other
\* stops still write: only a request that had seen it running long before can undo it.
StopIsFinal ==
    [][run.status = "stopped" =>
          \/ run'.status = "stopped"
          \/ main = "done" /\ \E r \in Readers : reader[r].pc = "reconcile"]_vars

\* A stopped run drives no load, unless a stop found no pid because the load was not yet
\* started: then it runs on and no later stop reaches it.
StoppedMeansIdle == run.status = "stopped" /\ proc.state = "alive" => missed

\* The poller takes a run for succeeded only if its load ended well, or a stop is upon it:
\* never in the window between the end of the process and the verdict of the coroutine.
StopBegun == \E s \in Stoppers : stop[s] # "idle"
PolledSuccessIsEarned ==
    \A r \in Readers : PollVerdict(reader[r].answer) = "succeeded" =>
        StopBegun \/ engine = "mock" \/ (proc.state = "reaped" /\ proc.code = 0)

\* Neither reading takes a run for succeeded while its load has yet to start or still
\* runs, unless a stop has missed the load.
Verdicts(a) == {PollVerdict(a), SyncVerdict(a)}
SuccessIsNotEarly ==
    \A r \in Readers : "succeeded" \in Verdicts(reader[r].answer) =>
        engine = "mock" \/ missed \/ proc.state \in {"zombie", "reaped"}

\* The control plane never reads a success, by polling or from a page, before the load is over.
SuccessIsSound == PolledSuccessIsEarned /\ SuccessIsNotEarly

\* When the coroutine and the upload thread are done, S3 has all that was logged when the
\* upload was told to stop, although both upload the file without looking at each other:
\* unless neither's last upload has lasted.
ArchiveIsComplete ==
    main = "done" /\ uploader.pc = "done" /\ lost # {"last", "archive"} => s3 >= flushed

\* An accepted run ends, and what was started for it ends with it: the sampling thread
\* always, the load and the upload thread unless the coroutine failed before it saw the load
\* end.
RunEnds == <>[]( /\ main = "done" /\ ~Active /\ sampler \in {"none", "done"}
                 /\ finished => proc.state = "reaped" /\ uploader.pc = "done" )
=============================================================================
