------------------------- MODULE AgentRuntimeProofs -------------------------
(***************************************************************************)
(* Proofs about AgentRuntime, for any set of engines, of stop requests and *)
(* of clients that read the status.                                        *)
(***************************************************************************)
EXTENDS AgentRuntime, TLAPS

-----------------------------------------------------------------------------
(* Type correctness *)

LEMMA InitType == Init => TypeOK
<1> SUFFICES ASSUME Init PROVE TypeOK
  OBVIOUS
<1>1. FirstState \in RunState
  BY DEF FirstState, RunState
<1>2. stop \in [Stoppers -> {"idle", "signal", "await", "mark", "done"}]
  BY DEF Init
<1>3. reader \in [Readers -> [pc : {"idle", "reconcile", "answer"}, answer : RunState]]
  BY <1>1 DEF Init
<1>4. /\ proc \in [state : {"none", "alive", "zombie", "reaped"}, code : {0, 1}]
      /\ uploader \in [pc : {"none", "read", "put", "last", "done"}, read : LogLevel]
      /\ {log, s3, copy, flushed} \subseteq LogLevel \cup {-1}
      /\ log \in LogLevel /\ copy \in LogLevel /\ flushed \in LogLevel
      /\ lost \subseteq {"last", "archive"}
  BY DEF Init, LogLevel
<1>5. main \in {"prepare", "simulate"} /\ engine \in Engines /\ sampler = "none"
  BY DEF Init
<1>6. finished \in BOOLEAN /\ missed \in BOOLEAN
  BY DEF Init
<1>7. run \in RunState
  BY <1>1 DEF Init
<1> QED
  BY <1>2, <1>3, <1>4, <1>5, <1>6, <1>7 DEF TypeOK

LEMMA MainType == TypeOK /\ Main => TypeOK'
<1> SUFFICES ASSUME TypeOK, Main PROVE TypeOK'
  OBVIOUS
<1> USE DEF TypeOK, Goes, logs, load, clients
<1>1. CASE Prepare \/ Start
  BY <1>1 DEF Prepare, Start
<1>2. CASE TakePid \/ StartSampler \/ StartUploader \/ StartPumps
  BY <1>2 DEF TakePid, StartSampler, StartUploader, StartPumps, RunState
<1>3. CASE Wake \/ Join \/ Parse
  BY <1>3 DEF Wake, Join, Parse, RunState
<1>4. CASE Publish
  <2>1. PICK fatal \in BOOLEAN :
           run' = CASE run.status = "stopped" -> [run EXCEPT !.error = @ \/ fatal]
                    [] run.status # "stopped" /\ (proc.code # 0 \/ fatal) ->
                          [run EXCEPT !.status = "failed", !.error = TRUE]
                    [] OTHER -> [run EXCEPT !.status = "succeeded"]
    BY <1>4 DEF Publish
  <2>2. [run EXCEPT !.error = @ \/ fatal] \in RunState
    BY DEF RunState
  <2>3. /\ [run EXCEPT !.status = "failed", !.error = TRUE] \in RunState
        /\ [run EXCEPT !.status = "succeeded"] \in RunState
    BY DEF RunState, Terminal
  <2>4. run' \in RunState
    BY <2>1, <2>2, <2>3
  <2> QED
    BY <1>4, <2>4 DEF Publish, LogLevel
<1>5. CASE Raise
  <2>1. run' \in RunState
    BY <1>5 DEF Raise, MayRaise, RunState, Terminal
  <2> QED
    BY <1>5, <2>1 DEF Raise, MayRaise, LogLevel
<1>6. CASE Finally \/ Archive \/ Store
  BY <1>6 DEF Finally, Archive, Store
<1>7. CASE Release \/ Simulate
  <2>1. run' \in RunState
    BY <1>7 DEF Release, Simulate, RunState, Terminal
  <2> QED
    BY <1>7, <2>1 DEF Release, Simulate
<1> QED
  BY <1>1, <1>2, <1>3, <1>4, <1>5, <1>6, <1>7 DEF Main

LEMMA BesideType ==
    TypeOK /\ (Refresh \/ ProcessEnds \/ Reap \/ OutputEnds \/ Threads) => TypeOK'
<1> SUFFICES ASSUME TypeOK, Refresh \/ ProcessEnds \/ Reap \/ OutputEnds \/ Threads
             PROVE  TypeOK'
  OBVIOUS
<1> USE DEF TypeOK, Goes, logs, load, clients
<1>1. CASE Refresh
  <2>1. run' \in RunState
    BY <1>1 DEF Refresh, RunState
  <2> QED
    BY <1>1, <2>1 DEF Refresh
<1>2. CASE ProcessEnds \/ Reap
  BY <1>2 DEF ProcessEnds, Reap
<1>3. CASE OutputEnds
  BY <1>3 DEF OutputEnds, LogLevel
<1>4. CASE Threads
  BY <1>4 DEF Threads, SamplerEnds, UploaderReads, UploaderPuts
<1> QED
  BY <1>1, <1>2, <1>3, <1>4

LEMMA StopType == ASSUME TypeOK, NEW s \in Stoppers, Stop(s) PROVE TypeOK'
<1> USE DEF TypeOK, logs, load
<1>1. stop' \in [Stoppers -> {"idle", "signal", "await", "mark", "done"}]
  BY DEF Stop, StopLooks, StopSignals, StopAwaits, StopMarks, Turn
<1>2. run' \in RunState
  BY DEF Stop, StopLooks, StopSignals, StopAwaits, StopMarks, RunState, Terminal
<1>3. proc' \in [state : {"none", "alive", "zombie", "reaped"}, code : {0, 1}]
  BY DEF Stop, StopLooks, StopSignals, StopAwaits, StopMarks
<1>4. missed' \in {missed, TRUE}
  BY DEF Stop, StopLooks, StopSignals, StopAwaits, StopMarks
<1>5. UNCHANGED <<engine, main, finished, sampler, log, s3, copy, flushed, lost,
                  uploader, reader>>
  BY DEF Stop, StopLooks, StopSignals, StopAwaits, StopMarks
<1>6. missed' \in BOOLEAN
  BY <1>4, Zenon
<1> QED
  BY <1>1, <1>2, <1>3, <1>5, <1>6

LEMMA ReadType == ASSUME TypeOK, NEW r \in Readers, Read(r) PROVE TypeOK'
<1> USE DEF TypeOK, logs, load
<1>1. Reconciled \in RunState
  BY DEF Reconciled, RunState, Terminal
<1>2. run' \in RunState
  BY <1>1 DEF Read, ReaderLooks, ReaderReconciles, ReaderAnswers
<1>3. reader' \in [Readers -> [pc : {"idle", "reconcile", "answer"}, answer : RunState]]
  BY DEF Read, ReaderLooks, ReaderReconciles, ReaderAnswers, Reads
<1>4. UNCHANGED <<engine, main, proc, finished, sampler, log, s3, copy, flushed, lost,
                  uploader, stop, missed>>
  BY DEF Read, ReaderLooks, ReaderReconciles, ReaderAnswers
<1> QED
  BY <1>2, <1>3, <1>4

\* What every variable of an agent's run may hold, whatever is interleaved.
THEOREM AgentTypeCorrect == Spec => []TypeOK
<1>1. TypeOK /\ [Next]_vars => TypeOK'
  <2>1. TypeOK /\ UNCHANGED vars => TypeOK'
    BY DEF TypeOK, vars, logs, load, clients
  <2> QED
    BY <2>1, MainType, BesideType, StopType, ReadType DEF Next
<1> QED
  BY InitType, <1>1, PTL DEF Spec
-----------------------------------------------------------------------------
(* A stop is final *)

\* Whatever the coroutine, its exceptions, other stops and readers write, a stopped run
\* stays stopped; only a reader that saw it running long before may give it another end.
THEOREM StopFinal == Spec => StopIsFinal
<1>1. ASSUME TypeOK, [Next]_vars, run.status = "stopped"
      PROVE  \/ run'.status = "stopped"
             \/ main = "done" /\ \E r \in Readers : reader[r].pc = "reconcile"
  <2> USE <1>1 DEF TypeOK, RunState, Goes, logs, load, clients
  <2>1. CASE Main
    BY <2>1 DEF Main, Prepare, Start, TakePid, StartSampler, StartUploader,
                StartPumps, Wake, Join, Parse, Publish,
                Raise, MayRaise, Finally, Release, Archive, Store, Simulate
  <2>2. CASE Refresh \/ ProcessEnds \/ Reap \/ OutputEnds \/ Threads
    BY <2>2 DEF Refresh, ProcessEnds, Reap, OutputEnds, Threads, SamplerEnds,
                UploaderReads, UploaderPuts
  <2>3. CASE \E s \in Stoppers : Stop(s)
    BY <2>3 DEF Stop, StopLooks, StopSignals, StopAwaits, StopMarks
  <2>4. CASE \E r \in Readers : Read(r)
    BY <2>4 DEF Read, ReaderLooks, ReaderReconciles, ReaderAnswers
  <2>5. CASE UNCHANGED vars
    BY <2>5 DEF vars
  <2> QED
    BY <2>1, <2>2, <2>3, <2>4, <2>5 DEF Next
<1> QED
  BY <1>1, AgentTypeCorrect, PTL DEF Spec, StopIsFinal

-----------------------------------------------------------------------------
(* The inductive invariant *)

Over == proc.state \in {"zombie", "reaped"}

\* Where the coroutine is, the process is: it exists from Start on, and process.wait
\* returns before anything is parsed.
ProcessInv ==
    /\ main \in {"prepare", "start", "simulate"} => proc.state = "none"
    /\ main \in {"take_pid", "sampler", "uploader", "pumps", "wait"} => proc.state # "none"
    /\ main \in {"join", "parse", "publish"} => proc.state = "reaped" /\ finished
    /\ finished => proc.state = "reaped"
    /\ run.pid => proc.state # "none"
    /\ engine = "mock" => main \in {"simulate", "done"}
    /\ main = "simulate" => engine = "mock"

\* A stop request marks the run only after the load has ended, or having missed it.
StopInv ==
    /\ \A s \in Stoppers : stop[s] = "await" => Over
    /\ \A s \in Stoppers : stop[s] = "mark" => missed \/ Over
    /\ run.status = "stopped" => (missed \/ Over) /\ StopBegun
    /\ missed => StopBegun

\* A success is earned by the end of the load, and what a reader of the run could take for
\* one: a run that still counts as running keeps its pid until a stop takes it away.
Earned == StopBegun \/ engine = "mock" \/ (proc.state = "reaped" /\ proc.code = 0)
NotEarly == engine = "mock" \/ missed \/ Over
VerdictInv ==
    /\ run.status = "succeeded" => Earned /\ NotEarly
    /\ main \in {"finally", "release", "archive", "store", "done"} =>
          run.status # "running" /\ (run.error \/ (Earned /\ NotEarly))
    /\ main \in {"sampler", "uploader", "pumps", "wait", "join", "parse", "publish"} =>
          run.pid \/ (StopBegun /\ NotEarly)
    /\ main \in {"prepare", "start", "take_pid", "sampler", "uploader", "pumps", "simulate"} =>
          ~run.summary
    /\ run.ended => NotEarly \/ run.status = "failed"
    /\ engine = "mock" => ~run.summary
AnswerInv ==
    \A r \in Readers :
        /\ PollVerdict(reader[r].answer) = "succeeded" => Earned
        /\ "succeeded" \in Verdicts(reader[r].answer) => NotEarly

\* What the upload thread reads after it was told to stop, and what the coroutine reads to
\* archive it, is at least the log as it was then.
ArchiveInv ==
    /\ flushed <= log
    /\ main \in {"prepare", "start", "take_pid", "uploader"} => uploader.pc = "none"
    /\ main = "sampler" /\ engine = "k6" => uploader.pc = "none"
    /\ main \in {"pumps", "wait"} => uploader.pc # "none"
    /\ main = "sampler" /\ engine # "k6" => uploader.pc # "none"
    /\ finished => /\ main \in {"join", "parse", "publish", "finally", "release", "archive",
                                "store", "done"}
                   /\ uploader.pc # "none"
    /\ main = "store" => copy >= flushed
    /\ main = "done" /\ finished /\ "archive" \notin lost => s3 >= flushed
    /\ uploader.pc \in {"last", "done"} => Told
    /\ uploader.pc = "last" => uploader.read >= flushed
    /\ uploader.pc = "done" /\ "last" \notin lost => s3 >= flushed

IInv == ProcessInv /\ StopInv /\ VerdictInv /\ AnswerInv /\ ArchiveInv

LEMMA InitInv == Init => IInv
<1> SUFFICES ASSUME Init PROVE IInv
  OBVIOUS
<1>1. ProcessInv /\ StopInv /\ VerdictInv
  BY DEF Init, ProcessInv, StopInv, VerdictInv, FirstState
<1>2. AnswerInv
  BY DEF Init, AnswerInv, FirstState, PollVerdict, SyncVerdict, Verdicts
<1>3. ArchiveInv
  BY DEF Init, ArchiveInv
<1> QED
  BY <1>1, <1>2, <1>3 DEF IInv

LEMMA ProcessNext == TypeOK /\ ProcessInv /\ StopInv /\ [Next]_vars => ProcessInv'
<1> SUFFICES ASSUME TypeOK, ProcessInv, StopInv, [Next]_vars PROVE ProcessInv'
  OBVIOUS
<1> USE DEF ProcessInv, TypeOK, RunState, Goes, logs, load, clients
<1>1. CASE Main
  <2>1. CASE \/ Prepare \/ Start \/ TakePid \/ StartSampler \/ StartUploader
             \/ StartPumps \/ Wake \/ Join \/ Parse
    BY <2>1 DEF Prepare, Start, TakePid, StartSampler, StartUploader,
                  StartPumps, Wake, Join, Parse
  <2>2. CASE Publish \/ Raise
    <3>1. run'.pid = run.pid
      BY <2>2 DEF Publish, Raise, MayRaise
    <3>2. /\ UNCHANGED <<proc, finished, engine>> /\ main' = "finally"
          /\ main \in {"prepare", "start", "sampler", "uploader", "pumps", "parse", "publish"}
      BY <2>2 DEF Publish, Raise, MayRaise
    <3> QED
      BY <3>1, <3>2
  <2>3. CASE Finally \/ Archive \/ Store \/ Simulate
    <3>1. run'.pid = run.pid
      BY <2>3 DEF Finally, Archive, Store, Simulate
    <3> QED
      BY <2>3, <3>1 DEF Finally, Archive, Store, Simulate
  <2>4. CASE Release
    <3>1. run'.pid => run.pid
      BY <2>4 DEF Release
    <3> QED
      BY <2>4, <3>1 DEF Release
  <2> QED
    BY <1>1, <2>1, <2>2, <2>3, <2>4 DEF Main
<1>2. CASE Refresh \/ ProcessEnds \/ Reap \/ OutputEnds \/ Threads
  BY <1>2 DEF Refresh, ProcessEnds, Reap, OutputEnds, Threads, SamplerEnds,
              UploaderReads, UploaderPuts
<1>3. ASSUME NEW s \in Stoppers, Stop(s) PROVE ProcessInv'
  <2>1. run'.pid => run.pid
    BY <1>3 DEF Stop, StopLooks, StopSignals, StopAwaits, StopMarks
  <2>2. \/ proc' = proc
        \/ proc.state = "alive" /\ proc'.state = "zombie"
    BY <1>3 DEF Stop, StopLooks, StopSignals, StopAwaits, StopMarks
  <2>3. UNCHANGED <<main, finished, engine>>
    BY <1>3 DEF Stop, StopLooks, StopSignals, StopAwaits, StopMarks
  <2> QED
    BY <2>1, <2>2, <2>3
<1>4. ASSUME NEW r \in Readers, Read(r) PROVE ProcessInv'
  <2>1. run'.pid = run.pid
    BY <1>4 DEF Read, ReaderLooks, ReaderReconciles, ReaderAnswers, Reconciled
  <2> QED
    BY <1>4, <2>1 DEF Read, ReaderLooks, ReaderReconciles, ReaderAnswers
<1>5. CASE UNCHANGED vars
  BY <1>5 DEF vars
<1> QED
  BY <1>1, <1>2, <1>3, <1>4, <1>5 DEF Next

\* What makes a success credible is never lost.
LEMMA Grows ==
    ASSUME TypeOK, ProcessInv, [Next]_vars
    PROVE  /\ Over => Over'
           /\ missed => missed'
           /\ StopBegun => StopBegun'
           /\ Earned => Earned'
           /\ NotEarly => NotEarly'
<1>1. /\ Over => Over'
      /\ engine' = engine
      /\ proc.state = "reaped" /\ proc.code = 0 => proc'.state = "reaped" /\ proc'.code = 0
  <2> USE DEF Over, ProcessInv, TypeOK, Goes, load, clients
  <2>1. CASE Main
    BY <2>1 DEF Main, Prepare, Start, TakePid, StartSampler, StartUploader,
                StartPumps, Wake, Join, Parse, Publish,
                Raise, MayRaise, Finally, Release, Archive, Store, Simulate
  <2>2. CASE Refresh \/ ProcessEnds \/ Reap \/ OutputEnds \/ Threads
    BY <2>2 DEF Refresh, ProcessEnds, Reap, OutputEnds, Threads, SamplerEnds,
                UploaderReads, UploaderPuts
  <2>3. CASE \E s \in Stoppers : Stop(s)
    BY <2>3 DEF Stop, StopLooks, StopSignals, StopAwaits, StopMarks
  <2>4. CASE \E r \in Readers : Read(r)
    BY <2>4 DEF Read, ReaderLooks, ReaderReconciles, ReaderAnswers
  <2>5. CASE UNCHANGED vars
    BY <2>5 DEF vars
  <2> QED
    BY <2>1, <2>2, <2>3, <2>4, <2>5 DEF Next
<1>2. (missed => missed') /\ (StopBegun => StopBegun')
  <2> USE DEF StopBegun, TypeOK, load, clients
  <2>1. CASE Main
    BY <2>1 DEF Main, Prepare, Start, TakePid, StartSampler, StartUploader,
                StartPumps, Wake, Join, Parse, Publish,
                Raise, MayRaise, Finally, Release, Archive, Store, Simulate
  <2>2. CASE Refresh \/ ProcessEnds \/ Reap \/ OutputEnds \/ Threads
    BY <2>2 DEF Refresh, ProcessEnds, Reap, OutputEnds, Threads, SamplerEnds,
                UploaderReads, UploaderPuts
  <2>3. CASE \E s \in Stoppers : Stop(s)
    BY <2>3 DEF Stop, StopLooks, StopSignals, StopAwaits, StopMarks, Turn
  <2>4. CASE \E r \in Readers : Read(r)
    BY <2>4 DEF Read, ReaderLooks, ReaderReconciles, ReaderAnswers
  <2>5. CASE UNCHANGED vars
    BY <2>5 DEF vars
  <2> QED
    BY <2>1, <2>2, <2>3, <2>4, <2>5 DEF Next
<1>3. NotEarly => NotEarly'
  BY <1>1, <1>2 DEF NotEarly
<1>4. Earned => Earned'
  BY <1>1, <1>2 DEF Earned
<1> QED
  BY <1>1, <1>2, <1>3, <1>4

LEMMA StopNext == TypeOK /\ ProcessInv /\ StopInv /\ [Next]_vars => StopInv'
<1> SUFFICES ASSUME TypeOK, ProcessInv, StopInv, [Next]_vars PROVE StopInv'
  OBVIOUS
<1>0. /\ Over => Over'
      /\ missed => missed'
      /\ StopBegun => StopBegun'
  BY Grows
<1> USE DEF StopInv, TypeOK, RunState, Goes, logs, load, clients
<1>1. CASE Main
  <2>1. UNCHANGED <<stop, missed>> /\ (run'.status = "stopped" => run.status = "stopped")
    <3>1. CASE \/ Prepare \/ Start \/ TakePid \/ StartSampler \/ StartUploader
               \/ StartPumps \/ Wake \/ Join \/ Parse
      BY <3>1 DEF Prepare, Start, TakePid, StartSampler, StartUploader,
                  StartPumps, Wake, Join, Parse
    <3>2. CASE Publish \/ Raise
      BY <3>2 DEF Publish, Raise, MayRaise
    <3>3. CASE Finally \/ Release \/ Archive \/ Store \/ Simulate
      BY <3>3 DEF Finally, Release, Archive, Store, Simulate
    <3> QED
      BY <1>1, <3>1, <3>2, <3>3 DEF Main
  <2> QED
    BY <1>0, <2>1
<1>2. CASE Refresh \/ ProcessEnds \/ Reap \/ OutputEnds \/ Threads
  <2>1. UNCHANGED <<stop, missed>> /\ run'.status = run.status
    BY <1>2 DEF Refresh, ProcessEnds, Reap, OutputEnds, Threads, SamplerEnds,
                UploaderReads, UploaderPuts
  <2> QED
    BY <1>0, <2>1
<1>3. ASSUME NEW s \in Stoppers, Stop(s) PROVE StopInv'
  <2>1. CASE StopLooks(s)
    BY <1>0, <2>1 DEF StopLooks, Turn, StopBegun
  <2>2. CASE StopSignals(s)
    <3>1. CASE run.pid
      <4>1. Over'
        BY <2>2, <3>1 DEF StopSignals, ProcessInv, Over
      <4> QED
        BY <1>0, <2>2, <3>1, <4>1 DEF StopSignals, Turn
    <3>2. CASE ~run.pid
      BY <1>0, <2>2, <3>2 DEF StopSignals, Turn, StopBegun
    <3> QED
      BY <3>1, <3>2
  <2>3. CASE StopAwaits(s)
    BY <1>0, <2>3 DEF StopAwaits, Turn
  <2>4. CASE StopMarks(s)
    <3>1. StopBegun'
      BY <2>4 DEF StopMarks, Turn, StopBegun
    <3> QED
      BY <1>0, <2>4, <3>1 DEF StopMarks, Turn
  <2> QED
    BY <1>3, <2>1, <2>2, <2>3, <2>4 DEF Stop
<1>4. ASSUME NEW r \in Readers, Read(r) PROVE StopInv'
  <2>1. UNCHANGED <<stop, missed>> /\ (run'.status = "stopped" => run.status = "stopped")
    BY <1>4 DEF Read, ReaderLooks, ReaderReconciles, ReaderAnswers, Reconciled
  <2> QED
    BY <1>0, <2>1
<1>5. CASE UNCHANGED vars
  BY <1>0, <1>5 DEF vars
<1> QED
  BY <1>1, <1>2, <1>3, <1>4, <1>5 DEF Next

LEMMA VerdictNext ==
    TypeOK /\ ProcessInv /\ StopInv /\ VerdictInv /\ [Next]_vars => VerdictInv'
<1> SUFFICES ASSUME TypeOK, ProcessInv, StopInv, VerdictInv, [Next]_vars
             PROVE  VerdictInv'
  OBVIOUS
<1>0. /\ Earned => Earned'
      /\ NotEarly => NotEarly'
      /\ StopBegun => StopBegun'
  BY Grows
<1> USE DEF VerdictInv, TypeOK, RunState, Goes, logs, load, clients
<1>1. CASE Main
  <2> engine' = engine
    BY <1>1 DEF Main, Prepare, Start, TakePid, StartSampler, StartUploader,
                StartPumps, Wake, Join, Parse, Publish,
                Raise, MayRaise, Finally, Release, Archive, Store, Simulate
  <2>1. CASE Prepare \/ Start \/ TakePid \/ StartSampler \/ StartUploader \/ StartPumps
    BY <1>0, <2>1 DEF Prepare, Start, TakePid, StartSampler, StartUploader,
                     StartPumps, ProcessInv
  <2>2. CASE Wake
    <3>1. NotEarly
      BY <2>2 DEF Wake, NotEarly, Over
    <3> QED
      BY <1>0, <2>2, <3>1 DEF Wake, ProcessInv
  <2>3. CASE Join
    BY <1>0, <2>3 DEF Join
  <2>4. CASE Parse
    <3>1. engine # "mock"
      BY <2>4 DEF Parse, ProcessInv
    <3> QED
      BY <1>0, <2>4, <3>1 DEF Parse
  <2>5. CASE Publish
    <3>1. NotEarly /\ engine # "mock"
      BY <2>5 DEF Publish, ProcessInv, NotEarly, Over
    <3>2. run.status = "stopped" => StopBegun
      BY DEF StopInv
    <3>3. run.status # "stopped" /\ proc.code = 0 => Earned
      BY <2>5 DEF Publish, ProcessInv, Earned
    <3>4. run.status = "stopped" => Earned
      BY <3>2 DEF Earned
    <3>5. PICK fatal \in BOOLEAN :
             run' = CASE run.status = "stopped" -> [run EXCEPT !.error = @ \/ fatal]
                      [] run.status # "stopped" /\ (proc.code # 0 \/ fatal) ->
                            [run EXCEPT !.status = "failed", !.error = TRUE]
                      [] OTHER -> [run EXCEPT !.status = "succeeded"]
      BY <2>5 DEF Publish
    <3>6. main' = "finally"
      BY <2>5 DEF Publish
    <3>7. CASE run.status = "stopped"
      BY <1>0, <3>1, <3>4, <3>5, <3>6, <3>7
    <3>8. CASE run.status # "stopped" /\ (proc.code # 0 \/ fatal)
      BY <1>0, <3>1, <3>5, <3>6, <3>8
    <3>9. CASE run.status # "stopped" /\ proc.code = 0 /\ ~fatal
      BY <1>0, <3>1, <3>3, <3>5, <3>6, <3>9
    <3> QED
      BY <3>7, <3>8, <3>9
  <2>6. CASE Raise
    <3>1. run.status = "stopped" => Earned /\ NotEarly
      BY DEF StopInv, Earned, NotEarly, Over
    <3> QED
      BY <1>0, <2>6, <3>1 DEF Raise, MayRaise
  <2>7. CASE Finally \/ Archive \/ Store
    BY <1>0, <2>7 DEF Finally, Archive, Store
  <2>8. CASE Release
    <3>1. /\ run'.status = run.status /\ run'.error = run.error
          /\ run'.summary = run.summary
      BY <2>8 DEF Release
    <3>2. run.status = "running" \/ run.status = "failed" \/ NotEarly
      BY <2>8 DEF Release, StopInv, NotEarly, Over, Terminal
    <3> QED
      BY <1>0, <2>8, <3>1, <3>2 DEF Release
  <2>9. CASE Simulate
    <3>1. engine = "mock"
      BY <2>9 DEF Simulate, ProcessInv
    <3>2. Earned /\ NotEarly
      BY <3>1 DEF Earned, NotEarly
    <3> QED
      BY <1>0, <2>9, <3>1, <3>2 DEF Simulate
  <2> QED
    BY <1>1, <2>1, <2>2, <2>3, <2>4, <2>5, <2>6, <2>7, <2>8, <2>9 DEF Main
<1>2. CASE Refresh
  BY <1>0, <1>2 DEF Refresh, ProcessInv
<1>3. CASE ProcessEnds \/ Reap \/ OutputEnds \/ Threads
  <2>1. UNCHANGED <<run, main, engine>>
    BY <1>3 DEF ProcessEnds, Reap, OutputEnds, Threads, SamplerEnds, UploaderReads,
                UploaderPuts
  <2> QED
    BY <1>0, <2>1
<1>4. ASSUME NEW s \in Stoppers, Stop(s) PROVE VerdictInv'
  <2>1. UNCHANGED <<main, engine>>
    BY <1>4 DEF Stop, StopLooks, StopSignals, StopAwaits, StopMarks
  <2>2. CASE StopLooks(s) \/ StopSignals(s)
    <3>1. run' = run
      BY <2>2 DEF StopLooks, StopSignals
    <3> QED
      BY <1>0, <2>1, <3>1
  <2>3. CASE StopAwaits(s)
    <3>1. NotEarly /\ StopBegun
      BY <2>3 DEF StopAwaits, StopInv, NotEarly, StopBegun
    <3> QED
      BY <1>0, <2>1, <2>3, <3>1 DEF StopAwaits
  <2>4. CASE StopMarks(s)
    <3>1. NotEarly /\ StopBegun /\ Earned
      BY <2>4 DEF StopMarks, StopInv, NotEarly, StopBegun, Earned
    <3> QED
      BY <1>0, <2>1, <2>4, <3>1 DEF StopMarks
  <2> QED
    BY <1>4, <2>2, <2>3, <2>4 DEF Stop
<1>5. ASSUME NEW r \in Readers, Read(r) PROVE VerdictInv'
  <2>1. UNCHANGED <<main, engine>>
    BY <1>5 DEF Read, ReaderLooks, ReaderReconciles, ReaderAnswers
  <2>2. CASE ReaderReconciles(r) /\ main = "done"
    <3>1. run' = Reconciled
      BY <2>2 DEF ReaderReconciles
    <3>2. /\ run'.pid = run.pid /\ run'.summary = run.summary
          /\ run.error => run'.status = "failed" /\ run'.error
          /\ run'.status \in {"failed", "succeeded"}
          /\ run'.error <=> run.error \/ ~(run.ended \/ run.summary)
      BY <3>1 DEF Reconciled
    <3> QED
      BY <1>0, <2>1, <2>2, <3>2
  <2>3. CASE run' = run
    BY <1>0, <2>1, <2>3
  <2> QED
    BY <1>5, <2>2, <2>3 DEF Read, ReaderLooks, ReaderReconciles, ReaderAnswers
<1>6. CASE UNCHANGED vars
  BY <1>0, <1>6 DEF vars
<1> QED
  BY <1>1, <1>2, <1>3, <1>4, <1>5, <1>6 DEF Next

\* No reading of the run as it stands takes it for succeeded before it has earned that.
LEMMA RunReads ==
    ASSUME TypeOK, ProcessInv, StopInv, VerdictInv
    PROVE  /\ PollVerdict(run) = "succeeded" => Earned
           /\ "succeeded" \in Verdicts(run) => NotEarly
<1> USE DEF TypeOK, RunState
<1>1. run.status = "running" /\ run.summary /\ ~run.pid => NotEarly /\ (run.error \/ Earned)
  <2> SUFFICES ASSUME run.status = "running", run.summary, ~run.pid
               PROVE  NotEarly /\ (run.error \/ Earned)
    OBVIOUS
  <2>1. main \in {"wait", "join", "parse", "publish"}
    BY DEF VerdictInv, ProcessInv
  <2> QED
    BY <2>1 DEF VerdictInv, Earned
<1>2. run.status = "running" /\ run.ended => NotEarly
  BY DEF VerdictInv
<1>3. run.status = "succeeded" => Earned /\ NotEarly
  BY DEF VerdictInv
<1> QED
  BY <1>1, <1>2, <1>3 DEF PollVerdict, SyncVerdict, Verdicts

LEMMA AnswerNext ==
    TypeOK /\ ProcessInv /\ StopInv /\ VerdictInv /\ AnswerInv /\ [Next]_vars => AnswerInv'
<1> SUFFICES ASSUME TypeOK, ProcessInv, StopInv, VerdictInv, AnswerInv, [Next]_vars,
                    NEW r \in Readers
             PROVE  /\ PollVerdict(reader'[r].answer) = "succeeded" => Earned'
                    /\ "succeeded" \in Verdicts(reader'[r].answer) => NotEarly'
  BY DEF AnswerInv, PollVerdict, SyncVerdict, Verdicts
<1>1. /\ Earned => Earned'
      /\ NotEarly => NotEarly'
  BY Grows
<1>2. /\ PollVerdict(reader[r].answer) = "succeeded" => Earned
      /\ "succeeded" \in Verdicts(reader[r].answer) => NotEarly
  BY DEF AnswerInv
<1>3. \/ reader'[r].answer = reader[r].answer
      \/ reader'[r].answer = run
  <2> USE DEF TypeOK, load, clients
  <2>1. CASE Main
    BY <2>1 DEF Main, Prepare, Start, TakePid, StartSampler, StartUploader,
                StartPumps, Wake, Join, Parse, Publish,
                Raise, MayRaise, Finally, Release, Archive, Store, Simulate
  <2>2. CASE Refresh \/ ProcessEnds \/ Reap \/ OutputEnds \/ Threads
    BY <2>2 DEF Refresh, ProcessEnds, Reap, OutputEnds, Threads, SamplerEnds,
                UploaderReads, UploaderPuts
  <2>3. CASE \E s \in Stoppers : Stop(s)
    BY <2>3 DEF Stop, StopLooks, StopSignals, StopAwaits, StopMarks
  <2>4. CASE \E q \in Readers : Read(q)
    BY <2>4 DEF Read, ReaderLooks, ReaderReconciles, ReaderAnswers, Reads
  <2>5. CASE UNCHANGED vars
    BY <2>5 DEF vars
  <2> QED
    BY <2>1, <2>2, <2>3, <2>4, <2>5 DEF Next
<1> QED
  BY <1>1, <1>2, <1>3, RunReads

LEMMA ArchiveNext ==
    TypeOK /\ ProcessInv /\ ArchiveInv /\ [Next]_vars => ArchiveInv'
<1> SUFFICES ASSUME TypeOK, ProcessInv, ArchiveInv, [Next]_vars
             PROVE  ArchiveInv'
  OBVIOUS
<1> USE DEF ArchiveInv, TypeOK, LogLevel, Told, Goes, logs, load, clients
<1>1. CASE Main
  <2>1. CASE Prepare \/ Start \/ TakePid \/ Parse \/ Finally \/ Release
    BY <2>1 DEF Prepare, Start, TakePid, Parse, Finally, Release
  <2>8. CASE StartSampler \/ StartPumps
    BY <2>8 DEF StartSampler, StartPumps
  <2>9. CASE StartUploader
    BY <2>9 DEF StartUploader
  <2>2. CASE Wake
    BY <2>2 DEF Wake, ProcessInv
  <2>3. CASE Join
    BY <2>3 DEF Join
  <2>4. CASE Publish \/ Raise
    <3>1. /\ UNCHANGED <<finished, uploader, s3, copy, flushed, lost, engine>>
          /\ main' = "finally" /\ log' = 2
          /\ main \in {"prepare", "start", "sampler", "uploader", "pumps", "parse", "publish"}
      BY <2>4 DEF Publish, Raise, MayRaise
    <3> QED
      BY <3>1
  <2>5. CASE Archive
    BY <2>5 DEF Archive
  <2>6. CASE Store
    BY <2>6 DEF Store
  <2>7. CASE Simulate
    BY <2>7 DEF Simulate, ProcessInv
  <2> QED
    BY <1>1, <2>1, <2>2, <2>3, <2>4, <2>5, <2>6, <2>7, <2>8, <2>9 DEF Main
<1>2. CASE Refresh \/ ProcessEnds \/ Reap \/ SamplerEnds
  BY <1>2 DEF Refresh, ProcessEnds, Reap, SamplerEnds
<1>3. CASE OutputEnds
  BY <1>3 DEF OutputEnds
<1>4. CASE UploaderReads
  BY <1>4 DEF UploaderReads
<1>5. CASE UploaderPuts
  BY <1>5 DEF UploaderPuts
<1>6. CASE \E s \in Stoppers : Stop(s)
  <2>1. UNCHANGED <<logs, main, finished, engine>>
    BY <1>6 DEF Stop, StopLooks, StopSignals, StopAwaits, StopMarks
  <2> QED
    BY <2>1
<1>7. CASE \E r \in Readers : Read(r)
  <2>1. UNCHANGED <<logs, main, finished, engine>>
    BY <1>7 DEF Read, ReaderLooks, ReaderReconciles, ReaderAnswers
  <2> QED
    BY <2>1
<1>8. CASE UNCHANGED vars
  BY <1>8 DEF vars
<1> QED
  BY <1>1, <1>2, <1>3, <1>4, <1>5, <1>6, <1>7, <1>8 DEF Next, Threads

LEMMA Invariant == Spec => [](TypeOK /\ IInv)
<1>1. TypeOK /\ IInv /\ [Next]_vars => IInv'
  BY ProcessNext, StopNext, VerdictNext, AnswerNext, ArchiveNext DEF IInv
<1>2. Spec => []TypeOK
  BY AgentTypeCorrect
<1> QED
  BY InitInv, <1>1, <1>2, PTL DEF Spec

\* A stopped run drives no load unless a stop came before the load had a pid.
THEOREM StoppedIdle == Spec => []StoppedMeansIdle
<1>1. IInv => StoppedMeansIdle
  BY DEF IInv, StopInv, Over, StoppedMeansIdle
<1> QED
  BY Invariant, <1>1, PTL

\* Neither the poller nor a page reads a success from an agent whose load has not earned it.
THEOREM SuccessSound == Spec => []SuccessIsSound
<1>1. IInv => SuccessIsSound
  BY DEF IInv, AnswerInv, Earned, NotEarly, Over, SuccessIsSound, PolledSuccessIsEarned,
         SuccessIsNotEarly
<1> QED
  BY Invariant, <1>1, PTL

\* When the coroutine and the upload thread are done, S3 has at least the log as it was when
\* the upload was told to stop, in whatever order the two have uploaded it, unless neither's
\* last upload has lasted.
THEOREM ArchiveComplete == Spec => []ArchiveIsComplete
<1>1. TypeOK /\ IInv => ArchiveIsComplete
  BY DEF IInv, ArchiveInv, ArchiveIsComplete, Told, TypeOK
<1> QED
  BY Invariant, <1>1, PTL
=============================================================================
