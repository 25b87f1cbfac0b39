------------------------- MODULE RunLifecycleProofs -------------------------
(***************************************************************************)
(* Proofs about RunLifecycle, for any number of agents, any wave size, any *)
(* sets of deliveries, stoppers, watchdogs and readers, any retry budgets, *)
(* with and without snapshot reads.                                        *)
(***************************************************************************)
EXTENDS RunLifecycle, TLAPS

-----------------------------------------------------------------------------
(* What the writers write *)

\* A commit of a well-formed session leaves a well-formed row.
LEMMA FlushType ==
    ASSUME row \in Row, NEW loaded, NEW new \in Row
    PROVE  Flush(loaded, new) \in Row
BY DEF Flush, Dirty, Row

\* A commit leaves the status the session wrote or the one that was there.
LEMMA FlushStatus ==
    ASSUME NEW loaded, NEW new
    PROVE  Flush(loaded, new).status \in {row.status, new.status}
BY DEF Flush, Dirty

\* A session that did not touch the status leaves it alone.
LEMMA FlushKeeps ==
    ASSUME NEW loaded, NEW new, new.status = loaded.status
    PROVE  Flush(loaded, new).status = row.status
BY DEF Flush, Dirty

\* A commit that may write agent_runs whole differs from a plain one there only.
LEMMA SavesType ==
    ASSUME row \in Row, NEW loaded, NEW new \in Row, NEW r \in Saves(loaded, new)
    PROVE  r \in Row /\ r.status = Flush(loaded, new).status
<1>1. Flush(loaded, new) \in Row
  BY FlushType
<1>2. new.agent_runs \in Entries
  BY DEF Row
<1> QED
  BY <1>1, <1>2 DEF Saves, Row

\* The row written for a verdict of the agents is a row, and has ended.
LEMMA OutcomeType ==
    ASSUME NEW loaded, NEW verdict \in Terminal, NEW entries \in Entries,
           NEW why \in Reason
    PROVE  /\ Outcome(loaded, verdict, entries, why) \in Row
           /\ Outcome(loaded, verdict, entries, why).status = verdict
BY DEF Outcome, Row, RunStatus, Detail, Reason, Terminal

\* Marking a run failed keeps the row well formed; its status stays or becomes failed.
LEMMA MarkFailedType ==
    ASSUME row \in Row, NEW held \in Row, NEW reason \in Reason, NEW detail \in Detail,
           MarkFailed(held, reason, detail)
    PROVE  row' \in Row /\ row'.status \in {row.status, "failed"}
<1> DEFINE new == [held EXCEPT !.status = "failed", !.detail = detail, !.reason = reason]
<1>1. new \in Row /\ new.status = "failed"
  BY DEF Row, RunStatus, Terminal
<1>2. Flush(held, new) \in Row /\ Flush(held, new).status \in {row.status, "failed"}
  BY <1>1, FlushType, FlushStatus
<1> QED
  BY <1>2 DEF MarkFailed

\* A poll that found every agent ended has a terminal verdict.
LEMMA AggregateEnds ==
    ASSUME NEW s, ~Saw(s, "blank"), ~Saw(s, "running")
    PROVE  Aggregate(s) \in Terminal
BY DEF Aggregate, Terminal

-----------------------------------------------------------------------------
(* Type correctness *)

LEMMA ActorsTyped ==
    /\ Poller \in Actors /\ Deliveries \subseteq Actors
    /\ Closers \subseteq Actors /\ Readers \subseteq Actors
    /\ Poller \notin Deliveries
BY ActorsAssumption DEF Actors

LEMMA NewRowType == NewRow \in Row /\ NoEntries \in Entries
BY DEF NewRow, NoEntries, Row, RunStatus, Detail, Reason, Entries, EntryStatus

LEMMA InitType == Init => TypeOK
<1> SUFFICES ASSUME Init PROVE TypeOK
  OBVIOUS
<1> QED
  BY NewRowType, SizesAssumption, ActorsTyped
     DEF Init, TypeOK, AgentStatus, Label, Terminal

\* A fetch leaves each actor with an entry for every agent.
LEMMA FetchType ==
    ASSUME TypeOK, NEW x \in Actors, NEW targets \in SUBSET Agents, Fetch(x, targets)
    PROVE  got' \in [Actors -> Entries]
<1>1. PICK reached \in SUBSET {a \in targets : agent[a] \notin {"idle", "gone"}} :
         got' = [got EXCEPT ![x] = [a \in Agents |->
                   IF a \in reached THEN agent[a]
                   ELSE IF a \in targets THEN "blank" ELSE "absent"]]
  BY DEF Fetch
<1>2. [a \in Agents |-> IF a \in reached THEN agent[a]
                        ELSE IF a \in targets THEN "blank" ELSE "absent"] \in Entries
  BY <1>1 DEF TypeOK, AgentStatus, Entries, EntryStatus
<1> QED
  BY <1>1, <1>2 DEF TypeOK

LEMMA StopAgentsType ==
    ASSUME TypeOK, NEW targets \in SUBSET Agents, StopAgents(targets)
    PROVE  /\ agent' \in [Agents -> AgentStatus] /\ stopping' \subseteq Agents
           /\ launches' \in [Agents -> Nat] /\ asked' \subseteq Agents
BY DEF TypeOK, StopAgents

LEMMA GotoType ==
    ASSUME TypeOK, NEW x \in Actors, NEW label \in Label, Goto(x, label)
    PROVE  pc' \in [Actors -> Label]
BY DEF TypeOK, Goto

LEMMA LoadType ==
    ASSUME TypeOK, NEW x \in Actors, Load(x)
    PROVE  view' \in [Actors -> Row]
BY DEF TypeOK, Load

LEMMA LeaveType ==
    ASSUME TypeOK, NEW x \in Actors, NEW label \in Label, Leave(x, label)
    PROVE  /\ pc' \in [Actors -> Label] /\ view' \in [Actors -> Row]
           /\ got' \in [Actors -> Entries]
BY NewRowType DEF TypeOK, Leave, Goto

\* Every step keeps the shape of the variables: the dispatcher's.
LEMMA DispatchType ==
    ASSUME TypeOK, NEW d \in Deliveries, Dispatch(d)
    PROVE  TypeOK'
<1> d \in Actors
  BY ActorsTyped
<1> USE DEF fleet, clock, local, session
<1>1. CASE Claim(d)
  <2>1. CASE row.status \in DispatchAllowed
    <3>1. row' \in Row
      BY <1>1, <2>1 DEF Claim, TypeOK, Row, RunStatus, Detail, Reason
    <3>2. view' \in [Actors -> Row] /\ pc' \in [Actors -> Label]
      BY <1>1, <2>1, <3>1, GotoType DEF Claim, TypeOK, Label
    <3> QED
      BY <1>1, <3>1, <3>2 DEF Claim, TypeOK
  <2>2. CASE row.status \notin DispatchAllowed
    BY <1>1, <2>2, GotoType DEF Claim, TypeOK, Label
  <2> QED
    BY <2>1, <2>2
<1>2. ASSUME Requeue(d)
      PROVE  /\ pc' \in [Actors -> Label] /\ view' \in [Actors -> Row]
             /\ got' \in [Actors -> Entries] /\ tries' \in [Actors -> Nat]
  <2>1. CASE tries[d] > 0
    BY <1>2, <2>1, LeaveType DEF Requeue, TypeOK, Label
  <2>2. CASE ~(tries[d] > 0)
    BY <1>2, <2>2, LeaveType DEF Requeue, TypeOK, Label
  <2> QED
    BY <2>1, <2>2
<1>3. ASSUME NEW held \in Row, NEW detail \in Detail,
             MarkFailed(held, "dispatch_error", detail)
      PROVE  row' \in Row
  BY <1>3, MarkFailedType DEF TypeOK, Reason
<1>4. row \in Row /\ view[d] \in Row
  BY DEF TypeOK
<1>5. {"expand_failed", "no_healthy_agents"} \subseteq Detail
  BY DEF Detail
<1>6. CASE PrepareFails(d)
  BY <1>2, <1>3, <1>4, <1>5, <1>6 DEF PrepareFails, TypeOK
<1>7. CASE NoAgents(d)
  <2>1. row' \in Row
    BY <1>3, <1>4, <1>5, <1>7 DEF NoAgents
  <2>2. /\ pc' \in [Actors -> Label] /\ view' \in [Actors -> Row]
        /\ got' \in [Actors -> Entries] /\ tries' \in [Actors -> Nat]
    BY <1>2, <1>7, LeaveType DEF NoAgents, TypeOK, Label
  <2> QED
    BY <1>7, <2>1, <2>2 DEF NoAgents, TypeOK
<1>8. CASE SelectAgents(d)
  BY <1>8, GotoType DEF SelectAgents, TypeOK, Label
<1>9. CASE LaunchWave(d)
  <2> DEFINE Launches(ok, lost) ==
          /\ agent' = [a \in Agents |-> IF a \in ok \cup lost THEN "running" ELSE agent[a]]
          /\ launches' = [a \in Agents |->
                             IF a \in ok \cup lost THEN launches[a] + 1 ELSE launches[a]]
          /\ acked' = [acked EXCEPT ![d] = @ \cup ok]
          /\ Goto(d, IF ok # Wave(d) THEN "abort"
                     ELSE IF start[d] + WaveSize < NumAgents THEN "wave" ELSE "launched")
  <2>0. PICK ok \in SUBSET Wave(d) : \E lost \in SUBSET (Wave(d) \ ok) : Launches(ok, lost)
    BY <1>9 DEF LaunchWave
  <2>1. PICK lost \in SUBSET (Wave(d) \ ok) : Launches(ok, lost)
    BY <2>0
  <2>2. ok \subseteq Agents
    BY DEF Wave
  <2>3. pc' \in [Actors -> Label]
    BY <2>1, GotoType DEF Label
  <2>4. agent' \in [Agents -> AgentStatus] /\ launches' \in [Agents -> Nat]
    BY <2>1 DEF TypeOK, AgentStatus
  <2>5. acked' \in [Deliveries -> SUBSET Agents]
    BY <2>1, <2>2 DEF TypeOK
  <2>6. start' \in [Deliveries -> Nat]
    BY <1>9, SizesAssumption DEF LaunchWave, TypeOK
  <2> QED
    BY <1>9, <2>3, <2>4, <2>5, <2>6 DEF LaunchWave, TypeOK
<1>10. CASE Abort(d)
  <2>1. acked[d] \in SUBSET Agents
    BY DEF TypeOK
  <2> QED
    BY <1>10, <2>1, StopAgentsType, GotoType DEF Abort, TypeOK, Label
<1>11. [view[d] EXCEPT !.agent_runs = Launched(d)] \in Row
  BY <1>4 DEF Launched, Row, Entries, EntryStatus
<1>12. CASE PersistAborted(d)
  BY <1>4, <1>11, <1>12, FlushType, GotoType DEF PersistAborted, TypeOK, Label
<1>13. CASE DispatchRaises(d)
  BY <1>2, <1>3, <1>4, <1>5, <1>13 DEF DispatchRaises, TypeOK
<1>14. CASE PersistLaunched(d)
  BY <1>4, <1>11, <1>14, FlushType, GotoType DEF PersistLaunched, TypeOK, Label
<1>15. CASE ClearDetail(d)
  <2>1. row' \in Row
    BY <1>4, <1>15 DEF ClearDetail, Row, Detail
  <2> QED
    BY <1>15, <2>1, GotoType DEF ClearDetail, TypeOK, Label
<1>16. CASE CheckStopped(d)
  <2>1. CASE Active(row)
    BY <1>16, <2>1, GotoType, LoadType DEF CheckStopped, TypeOK, Label
  <2>2. CASE ~Active(row)
    BY <1>16, <2>2, LeaveType DEF CheckStopped, TypeOK, Label
  <2> QED
    BY <2>1, <2>2
<1>17. CASE StartPolling(d)
  <2>1. pc' \in [Actors -> Label] /\ view' \in [Actors -> Row]
    BY <1>17, ActorsTyped, NewRowType DEF StartPolling, TypeOK, Label
  <2> QED
    BY <1>17, <2>1 DEF StartPolling, TypeOK
<1>18. CASE StartPollingFails(d)
  BY <1>2, <1>3, <1>4, <1>5, <1>18 DEF StartPollingFails, TypeOK
<1>19. CASE WorkerDies(d)
  BY <1>19, LeaveType DEF WorkerDies, TypeOK, Label
<1> QED
  BY <1>1, <1>6, <1>7, <1>8, <1>9, <1>10, <1>12, <1>13, <1>14, <1>15, <1>16, <1>17,
     <1>18, <1>19 DEF Dispatch

\* ... the poller's.
LEMMA PollType ==
    ASSUME TypeOK, Poll
    PROVE  TypeOK'
<1> DEFINE p == Poller
<1> USE DEF fleet, clock, local, session
<1>1. p \in Actors /\ row \in Row /\ view[p] \in Row /\ got[p] \in Entries /\ tries[p] \in Nat
  BY ActorsTyped DEF TypeOK
<1>2. ASSUME Reschedule
      PROVE  /\ pc' \in [Actors -> Label] /\ view' \in [Actors -> Row]
             /\ got' \in [Actors -> Entries] /\ tries' \in [Actors -> Nat]
  BY <1>1, <1>2, LeaveType, SizesAssumption DEF Reschedule, TypeOK, Label
<1>3. view[p].reason \in Reason
  BY <1>1 DEF Row
<1>4. [view[p] EXCEPT !.agent_runs = got[p]] \in Row
  BY <1>1 DEF Row
<1>5. CASE PollLoad
  <2>1. CASE Active(row)
    BY <1>1, <1>5, <2>1, GotoType, LoadType DEF PollLoad, TypeOK, Label
  <2>2. CASE ~Active(row)
    BY <1>1, <1>5, <2>2, GotoType DEF PollLoad, TypeOK, Label
  <2> QED
    BY <2>1, <2>2
<1>6. CASE PollFetch
  BY <1>1, <1>6, FetchType, GotoType DEF PollFetch, TypeOK, Label
<1>7. CASE PollFinishes
  <2>1. PICK why \in {"agent_error", view[p].reason} :
          row' \in Saves(view[p], Outcome(view[p], Aggregate(got[p]), got[p], why))
    BY <1>7 DEF PollFinishes
  <2>2. why \in Reason /\ Aggregate(got[p]) \in Terminal
    BY <1>3, <1>7 DEF PollFinishes, Reason
  <2>3. row' \in Row
    BY <1>1, <2>1, <2>2, OutcomeType, SavesType
  <2> QED
    BY <1>1, <1>7, <2>3, LeaveType DEF PollFinishes, TypeOK, Label
<1>8. CASE PollSaves
  <2>1. row' \in Row
    BY <1>1, <1>4, <1>8, SavesType DEF PollSaves
  <2> QED
    BY <1>1, <1>8, <2>1, GotoType DEF PollSaves, TypeOK, Label
<1>9. CASE PollDecides
  <2>1. /\ pc' \in [Actors -> Label] /\ view' \in [Actors -> Row]
        /\ got' \in [Actors -> Entries] /\ tries' \in [Actors -> Nat]
    BY <1>1, <1>2, <1>9, LeaveType DEF PollDecides, TypeOK, Label
  <2> QED
    BY <1>9, <2>1 DEF PollDecides, TypeOK
<1>10. CASE PollStopsAgents
  BY <1>1, <1>10, StopAgentsType, GotoType DEF PollStopsAgents, TypeOK, Label
<1>11. CASE PollTimesOut
  <2>1. row' \in Row
    BY <1>1, <1>11, MarkFailedType DEF PollTimesOut, Reason, Detail
  <2> QED
    BY <1>1, <1>11, <2>1, GotoType DEF PollTimesOut, TypeOK, Label
<1>12. CASE PollRaises
  <2>1. CASE tries[p] > 0
    BY <1>1, <1>12, <2>1, LeaveType DEF PollRaises, TypeOK, Label
  <2>2. CASE ~(tries[p] > 0)
    BY <1>1, <1>12, <2>2, GotoType DEF PollRaises, TypeOK, Label
  <2> QED
    BY <2>1, <2>2
<1>13. CASE PollUnsent
  <2>1. CASE tries[p] > 0
    BY <1>1, <1>13, <2>1, LeaveType DEF PollUnsent, TypeOK, Label
  <2>2. CASE ~(tries[p] > 0) /\ Active(row)
    BY <1>1, <1>13, <2>2, GotoType, LoadType DEF PollUnsent, TypeOK, Label
  <2>3. CASE ~(tries[p] > 0) /\ ~Active(row)
    BY <1>1, <1>13, <2>3, LeaveType DEF PollUnsent, TypeOK, Label
  <2> QED
    BY <2>1, <2>2, <2>3
<1>14. CASE EvidenceFetch
  BY <1>1, <1>14, FetchType, GotoType DEF EvidenceFetch, TypeOK, Label
<1>15. CASE EvidenceFinishes
  <2> DEFINE verdict == EvidenceVerdict(got[p])
  <2>1. CASE Active(view[p])
    <3>1. PICK why \in IF verdict = "failed" THEN {"agent_error", "poll_error"} ELSE {"none"} :
            row' \in Saves(view[p], Outcome(view[p], verdict, got[p], why))
      BY <1>15, <2>1 DEF EvidenceFinishes
    <3>2. why \in Reason /\ verdict \in Terminal
      BY <1>15 DEF EvidenceFinishes, Reason
    <3>3. row' \in Row
      BY <1>1, <3>1, <3>2, OutcomeType, SavesType
    <3> QED
      BY <1>1, <1>15, <2>1, <3>3, LeaveType DEF EvidenceFinishes, TypeOK, Label
  <2>2. CASE ~Active(view[p])
    BY <1>1, <1>15, <2>2, LeaveType DEF EvidenceFinishes, TypeOK, Label
  <2> QED
    BY <2>1, <2>2
<1>16. CASE EvidenceStopsAgents
  BY <1>1, <1>16, StopAgentsType, GotoType DEF EvidenceStopsAgents, TypeOK, Label
<1>17. CASE EvidenceKeepsRunning
  <2>1. row' \in Row
    BY <1>1, <1>17 DEF EvidenceKeepsRunning, Row
  <2> QED
    BY <1>2, <1>17, <2>1 DEF EvidenceKeepsRunning, TypeOK
<1>18. CASE PollDies
  BY <1>1, <1>18, LeaveType DEF PollDies, TypeOK, Label
<1> QED
  BY <1>5, <1>6, <1>7, <1>8, <1>9, <1>10, <1>11, <1>12, <1>13, <1>14, <1>15, <1>16,
     <1>17, <1>18 DEF Poll

\* ... that of stop_run and of the watchdog.
LEMMA CloseType ==
    ASSUME TypeOK, NEW x \in Closers, Close(x)
    PROVE  TypeOK'
<1> USE DEF fleet, clock, local, session
<1>1. x \in Actors /\ row \in Row /\ view[x] \in Row
  BY ActorsTyped DEF TypeOK
<1>2. CASE CloserLoads(x)
  BY <1>1, <1>2, GotoType, LoadType DEF CloserLoads, TypeOK, Label
<1>3. CASE CloserStopsAgents(x)
  <2>1. Contexts(view[x]) \in SUBSET Agents
    BY <1>1 DEF Contexts, Row, Entries
  <2> QED
    BY <1>1, <1>3, <2>1, StopAgentsType, GotoType DEF CloserStopsAgents, TypeOK, Label
<1>4. CASE CloserWrites(x)
  <2>1. /\ [view[x] EXCEPT !.status = "failed", !.detail = "timeout_watchdog",
                           !.reason = "timeout"] \in Row
        /\ [view[x] EXCEPT !.status = "stopped", !.detail = "none", !.reason = "user"] \in Row
    BY <1>1 DEF Row, RunStatus, Terminal, Detail, Reason
  <2>2. row' \in Row
    BY <1>1, <1>4, <2>1, FlushType DEF CloserWrites
  <2> QED
    BY <1>1, <1>4, <2>2, LeaveType DEF CloserWrites, TypeOK, Label
<1> QED
  BY <1>2, <1>3, <1>4 DEF Close

\* ... that of a reader.
LEMMA ReadType ==
    ASSUME TypeOK, NEW x \in Readers, Read(x)
    PROVE  TypeOK'
<1> USE DEF fleet, clock, local, session
<1>1. x \in Actors /\ row \in Row /\ view[x] \in Row /\ got[x] \in Entries
  BY ActorsTyped DEF TypeOK
<1>2. CASE ReaderLoads(x)
  BY <1>1, <1>2, GotoType, LoadType DEF ReaderLoads, TypeOK, Label
<1>3. CASE ReaderFetches(x)
  <2>1. Contexts(view[x]) \in SUBSET Agents
    BY <1>1 DEF Contexts, Row, Entries
  <2>2. got' \in [Actors -> Entries]
    BY <1>1, <1>3, <2>1, FetchType DEF ReaderFetches
  <2> QED
    BY <1>1, <1>3, <2>2, GotoType DEF ReaderFetches, TypeOK, Label
<1>4. CASE ReaderWrites(x)
  <2>1. CASE Saw(got[x], "blank") \/ Saw(got[x], "running")
    BY <1>1, <1>4, <2>1, LeaveType DEF ReaderWrites, TypeOK, Label
  <2>2. CASE ~(Saw(got[x], "blank") \/ Saw(got[x], "running"))
    <3>1. PICK why \in {"agent_error", view[x].reason} :
            row' \in Saves(view[x], Outcome(view[x], Aggregate(got[x]), got[x], why))
      BY <1>4, <2>2 DEF ReaderWrites
    <3>2. why \in Reason /\ Aggregate(got[x]) \in Terminal
      BY <1>1, <2>2, AggregateEnds DEF Row, Reason
    <3>3. row' \in Row
      BY <1>1, <3>1, <3>2, OutcomeType, SavesType
    <3> QED
      BY <1>1, <1>4, <2>2, <3>3, LeaveType DEF ReaderWrites, TypeOK, Label
  <2> QED
    BY <2>1, <2>2
<1> QED
  BY <1>2, <1>3, <1>4 DEF Read

\* ... that of the agents and the clocks.
LEMMA EnvironmentType ==
    ASSUME TypeOK, Environment
    PROVE  TypeOK'
<1> USE DEF fleet, clock, local, session, TypeOK
<1>1. ASSUME NEW a \in Agents, AgentEnds(a)
      PROVE  TypeOK'
  BY <1>1 DEF AgentEnds, AgentStatus, Terminal
<1>2. ASSUME NEW a \in Agents, AgentStops(a)
      PROVE  TypeOK'
  BY <1>2 DEF AgentStops, AgentStatus, Terminal
<1>3. ASSUME NEW a \in Agents, AgentRestarts(a)
      PROVE  TypeOK'
  BY <1>3 DEF AgentRestarts, AgentStatus
<1>4. CASE PollClock
  BY <1>4 DEF PollClock
<1>5. CASE WatchdogClock
  BY <1>5 DEF WatchdogClock
<1> QED
  BY <1>1, <1>2, <1>3, <1>4, <1>5 DEF Environment

LEMMA NextType == TypeOK /\ [Next]_vars => TypeOK'
<1> SUFFICES ASSUME TypeOK, [Next]_vars PROVE TypeOK'
  OBVIOUS
<1>1. CASE UNCHANGED vars
  BY <1>1 DEF vars, TypeOK
<1>2. CASE Next
  BY <1>2, DispatchType, PollType, CloseType, ReadType, EnvironmentType DEF Next
<1> QED
  BY <1>1, <1>2

\* The variables keep the shape of their declarations in every reachable state.
THEOREM TypeCorrect == Spec => []TypeOK
BY InitType, NextType, PTL DEF Spec

-----------------------------------------------------------------------------
(* An end is never taken back *)

\* Apart from a claim, a step leaves the status alone or writes a terminal one.
StatusEnds == row'.status \in Terminal \cup {row.status}

LEMMA DispatchStatus ==
    ASSUME TypeOK, NEW d \in Deliveries, Dispatch(d)
    PROVE  \/ Claim(d) /\ row.status = "preparing" /\ row'.status = "running"
           \/ StatusEnds
<1> d \in Actors
  BY ActorsTyped
<1>1. row \in Row /\ view[d] \in Row
  BY DEF TypeOK
<1>2. ASSUME NEW held \in Row, NEW detail \in Detail,
             MarkFailed(held, "dispatch_error", detail)
      PROVE  StatusEnds
  BY <1>1, <1>2, MarkFailedType DEF StatusEnds, Terminal, Reason
<1>3. {"expand_failed", "no_healthy_agents"} \subseteq Detail
  BY DEF Detail
<1>4. CASE Claim(d)
  BY <1>1, <1>4 DEF Claim, StatusEnds, DispatchAllowed, Row
<1>5. CASE PrepareFails(d) \/ NoAgents(d) \/ DispatchRaises(d) \/ StartPollingFails(d)
  BY <1>1, <1>2, <1>3, <1>5 DEF PrepareFails, NoAgents, DispatchRaises, StartPollingFails
<1>6. CASE PersistAborted(d) \/ PersistLaunched(d)
  <2> DEFINE new == [view[d] EXCEPT !.agent_runs = Launched(d)]
  <2>1. new.status = view[d].status
    BY <1>1 DEF Row
  <2>2. row' = Flush(view[d], new)
    BY <1>6 DEF PersistAborted, PersistLaunched
  <2> HIDE DEF new
  <2> QED
    BY <2>1, <2>2, FlushKeeps DEF StatusEnds
<1>7. CASE ClearDetail(d)
  BY <1>1, <1>7 DEF ClearDetail, StatusEnds, Row
<1>8. CASE \/ SelectAgents(d) \/ LaunchWave(d) \/ Abort(d) \/ CheckStopped(d)
           \/ StartPolling(d) \/ WorkerDies(d)
  BY <1>8 DEF SelectAgents, LaunchWave, Abort, CheckStopped, StartPolling, WorkerDies,
              StatusEnds
<1> QED
  BY <1>4, <1>5, <1>6, <1>7, <1>8 DEF Dispatch

\* A session's verdict of the agents leaves the row's status or ends it.
LEMMA SavedOutcome ==
    ASSUME row \in Row, NEW loaded, NEW verdict \in Terminal, NEW entries \in Entries,
           NEW why \in Reason,
           row' \in Saves(loaded, Outcome(loaded, verdict, entries, why))
    PROVE  StatusEnds
BY OutcomeType, SavesType, FlushStatus DEF StatusEnds

LEMMA PollStatus ==
    ASSUME TypeOK, Poll
    PROVE  StatusEnds
<1> DEFINE p == Poller
<1>1. p \in Actors /\ row \in Row /\ view[p] \in Row /\ got[p] \in Entries
  BY ActorsTyped DEF TypeOK
<1>2. view[p].reason \in Reason
  BY <1>1 DEF Row
<1>3. CASE PollFinishes
  BY <1>1, <1>2, <1>3, SavedOutcome DEF PollFinishes, Reason
<1>4. CASE EvidenceFinishes
  <2>1. CASE Active(view[p])
    BY <1>1, <1>4, <2>1, SavedOutcome DEF EvidenceFinishes, Reason
  <2>2. CASE ~Active(view[p])
    BY <1>4, <2>2 DEF EvidenceFinishes, StatusEnds
  <2> QED
    BY <2>1, <2>2
<1>5. CASE PollSaves
  <2> DEFINE new == [view[p] EXCEPT !.agent_runs = got[p]]
  <2>1. new \in Row /\ new.status = view[p].status
    BY <1>1 DEF Row
  <2>2. row' \in Saves(view[p], new)
    BY <1>5 DEF PollSaves
  <2> HIDE DEF new
  <2>3. row'.status = Flush(view[p], new).status
    BY <1>1, <2>1, <2>2, SavesType
  <2> QED
    BY <2>1, <2>3, FlushKeeps DEF StatusEnds
<1>6. CASE PollTimesOut
  BY <1>1, <1>6, MarkFailedType DEF PollTimesOut, StatusEnds, Terminal, Reason, Detail
<1>7. CASE EvidenceKeepsRunning
  BY <1>1, <1>7 DEF EvidenceKeepsRunning, StatusEnds, Row
<1>8. CASE \/ PollLoad \/ PollFetch \/ PollDecides \/ PollStopsAgents \/ PollRaises
           \/ PollUnsent \/ EvidenceFetch \/ EvidenceStopsAgents \/ PollDies
  BY <1>8 DEF PollLoad, PollFetch, PollDecides, PollStopsAgents, PollRaises, PollUnsent,
              EvidenceFetch, EvidenceStopsAgents, PollDies, StatusEnds
<1> QED
  BY <1>3, <1>4, <1>5, <1>6, <1>7, <1>8 DEF Poll

LEMMA CloseStatus ==
    ASSUME TypeOK, NEW x \in Closers, Close(x)
    PROVE  StatusEnds
<1>1. x \in Actors /\ row \in Row /\ view[x] \in Row
  BY ActorsTyped DEF TypeOK
<1>2. CASE CloserWrites(x)
  <2> DEFINE new == IF x \in Watchdogs
                    THEN [view[x] EXCEPT !.status = "failed", !.detail = "timeout_watchdog",
                                         !.reason = "timeout"]
                    ELSE [view[x] EXCEPT !.status = "stopped", !.detail = "none",
                                         !.reason = "user"]
  <2>1. new.status \in Terminal
    BY <1>1 DEF Row, Terminal
  <2>2. row' = Flush(view[x], new)
    BY <1>2 DEF CloserWrites
  <2> HIDE DEF new
  <2> QED
    BY <2>1, <2>2, FlushStatus DEF StatusEnds
<1>3. CASE CloserLoads(x) \/ CloserStopsAgents(x)
  BY <1>3 DEF CloserLoads, CloserStopsAgents, StatusEnds
<1> QED
  BY <1>2, <1>3 DEF Close

LEMMA ReadStatus ==
    ASSUME TypeOK, NEW x \in Readers, Read(x)
    PROVE  StatusEnds
<1>1. x \in Actors /\ row \in Row /\ view[x] \in Row /\ got[x] \in Entries
  BY ActorsTyped DEF TypeOK
<1>2. view[x].reason \in Reason
  BY <1>1 DEF Row
<1>3. CASE ReaderWrites(x)
  <2>1. CASE Saw(got[x], "blank") \/ Saw(got[x], "running")
    BY <1>3, <2>1 DEF ReaderWrites, StatusEnds
  <2>2. CASE ~(Saw(got[x], "blank") \/ Saw(got[x], "running"))
    BY <1>1, <1>2, <1>3, <2>2, AggregateEnds, SavedOutcome DEF ReaderWrites, Reason
  <2> QED
    BY <2>1, <2>2
<1>4. CASE ReaderLoads(x) \/ ReaderFetches(x)
  BY <1>4 DEF ReaderLoads, ReaderFetches, StatusEnds
<1> QED
  BY <1>3, <1>4 DEF Read

LEMMA StepStatus ==
    ASSUME TypeOK, [Next]_vars
    PROVE  \/ \E d \in Deliveries :
                 Claim(d) /\ row.status = "preparing" /\ row'.status = "running"
           \/ StatusEnds
<1>1. CASE UNCHANGED vars
  BY <1>1 DEF vars, StatusEnds
<1>2. CASE Environment
  BY <1>2 DEF Environment, AgentEnds, AgentStops, AgentRestarts, PollClock, WatchdogClock,
              StatusEnds
<1> QED
  BY <1>1, <1>2, DispatchStatus, PollStatus, CloseStatus, ReadStatus DEF Next

\* EndedStaysEnded: whichever sessions loaded the row while it was active, and in
\* whichever order they commit, a run that has ended has ended for good.
THEOREM EndIsFinal == Spec => EndedStaysEnded
<1>1. TypeOK /\ [Next]_vars => [row.status \in Terminal => row'.status \in Terminal]_vars
  BY StepStatus DEF StatusEnds, Terminal
<1> QED
  BY <1>1, TypeCorrect, PTL DEF Spec, EndedStaysEnded

-----------------------------------------------------------------------------
(* No load is started twice *)

\* A delivery that owns the dispatch: it has claimed the run and is not through.
Owns(d) == pc[d] \notin {"queued", "done"}

\* Before the claim nothing has started, and no delivery is past the queue.
NothingBeforeClaim ==
    row.status = "preparing" =>
        /\ \A d \in Deliveries : ~Owns(d) /\ start[d] = 0
        /\ \A a \in Agents : launches[a] = 0
\* The conditional UPDATE lets one delivery through.
OneOwner == \A d, e \in Deliveries : Owns(d) /\ Owns(e) => d = e
\* The agents of the waves to come have not been started.
WavesAhead ==
    \A d \in Deliveries : pc[d] \in {"prepare", "wave"} =>
        \A a \in Agents : a > start[d] => launches[a] = 0

DispatchInv ==
    TypeOK /\ NothingBeforeClaim /\ OneOwner /\ WavesAhead /\ LaunchedAtMostOnce

LEMMA DispatchInvInit == Init => DispatchInv
<1> SUFFICES ASSUME Init PROVE DispatchInv
  OBVIOUS
<1>1. \A d \in Deliveries : pc[d] = "queued" /\ start[d] = 0
  BY ActorsTyped DEF Init
<1>2. \A a \in Agents : launches[a] = 0
  BY DEF Init
<1> QED
  BY <1>1, <1>2, InitType
     DEF DispatchInv, NothingBeforeClaim, OneOwner, WavesAhead, LaunchedAtMostOnce, Owns

\* A step that starts nothing, moves no delivery into the dispatch and does not undo the
\* claim disturbs none of it.
LEMMA DispatchInvKept ==
    ASSUME DispatchInv, TypeOK', StatusEnds, UNCHANGED <<launches, start>>,
           \A d \in Deliveries : Owns(d)' => Owns(d),
           \A d \in Deliveries :
               pc'[d] \in {"prepare", "wave"} => pc[d] \in {"prepare", "wave"}
    PROVE  DispatchInv'
<1>1. row'.status = "preparing" => row.status = "preparing"
  BY DEF StatusEnds, Terminal
<1>2. NothingBeforeClaim'
  BY <1>1 DEF DispatchInv, NothingBeforeClaim
<1>3. OneOwner'
  BY DEF DispatchInv, OneOwner
<1>4. WavesAhead'
  BY DEF DispatchInv, WavesAhead
<1> QED
  BY <1>2, <1>3, <1>4 DEF DispatchInv, LaunchedAtMostOnce

\* What one actor does to its program counter leaves those of the deliveries alone.
LEMMA OthersStay ==
    ASSUME TypeOK, NEW x \in Actors \ Deliveries, NEW label, Goto(x, label)
    PROVE  \A d \in Deliveries : pc'[d] = pc[d]
BY ActorsTyped DEF TypeOK, Goto

LEMMA OthersKeepDispatchInv ==
    ASSUME DispatchInv, TypeOK', StatusEnds,
           \/ Poll
           \/ \E x \in Closers : Close(x)
           \/ \E x \in Readers : Read(x)
           \/ Environment
           \/ UNCHANGED vars
    PROVE  DispatchInv'
<1> USE DEF local, session, fleet
<1>1. TypeOK
  BY DEF DispatchInv
<1>2. CASE UNCHANGED vars \/ Environment
  <2>1. UNCHANGED <<launches, start, pc>>
    BY <1>2 DEF vars, Environment, AgentEnds, AgentStops, AgentRestarts, PollClock,
                WatchdogClock
  <2> QED
    BY <2>1, DispatchInvKept DEF Owns
<1>3. CASE Poll
  <2>1. UNCHANGED <<launches, start>>
    BY <1>3 DEF Poll, PollLoad, PollFetch, PollFinishes, PollSaves, PollDecides,
                PollStopsAgents, PollTimesOut, PollRaises, PollUnsent, EvidenceFetch,
                EvidenceFinishes, EvidenceStopsAgents, EvidenceKeepsRunning, PollDies,
                StopAgents
  <2>2. \E label : Goto(Poller, label)
    BY <1>3 DEF Poll, PollLoad, PollFetch, PollFinishes, PollSaves, PollDecides,
                PollStopsAgents, PollTimesOut, PollRaises, PollUnsent, EvidenceFetch,
                EvidenceFinishes, EvidenceStopsAgents, EvidenceKeepsRunning, PollDies,
                Reschedule, Leave
  <2>3. \A d \in Deliveries : pc'[d] = pc[d]
    BY <1>1, <2>2, ActorsTyped, OthersStay
  <2> QED
    BY <2>1, <2>3, DispatchInvKept DEF Owns
<1>4. ASSUME NEW x \in Closers, Close(x)
      PROVE  DispatchInv'
  <2>1. UNCHANGED <<launches, start>>
    BY <1>4 DEF Close, CloserLoads, CloserStopsAgents, CloserWrites, StopAgents
  <2>2. \E label : Goto(x, label)
    BY <1>4 DEF Close, CloserLoads, CloserStopsAgents, CloserWrites, Leave
  <2>3. \A d \in Deliveries : pc'[d] = pc[d]
    BY <1>1, <2>2, ActorsTyped, ActorsAssumption, OthersStay
  <2> QED
    BY <2>1, <2>3, DispatchInvKept DEF Owns
<1>5. ASSUME NEW x \in Readers, Read(x)
      PROVE  DispatchInv'
  <2>1. UNCHANGED <<launches, start>>
    BY <1>5 DEF Read, ReaderLoads, ReaderFetches, ReaderWrites
  <2>2. \E label : Goto(x, label)
    BY <1>5 DEF Read, ReaderLoads, ReaderFetches, ReaderWrites, Leave
  <2>3. \A d \in Deliveries : pc'[d] = pc[d]
    BY <1>1, <2>2, ActorsTyped, ActorsAssumption, OthersStay
  <2> QED
    BY <2>1, <2>3, DispatchInvKept DEF Owns
<1> QED
  BY <1>2, <1>3, <1>4, <1>5

\* A claim finds nothing started and nobody at work.
LEMMA ClaimKeepsDispatchInv ==
    ASSUME DispatchInv, TypeOK', NEW d \in Deliveries, Claim(d)
    PROVE  DispatchInv'
<1> d \in Actors
  BY ActorsTyped
<1>1. CASE row.status \in DispatchAllowed
  <2>1. row.status = "preparing" /\ row'.status = "running"
    BY <1>1 DEF Claim, DispatchAllowed, DispatchInv, TypeOK, Row
  <2>2. /\ \A e \in Deliveries : ~Owns(e)
        /\ \A a \in Agents : launches[a] = 0
    BY <2>1 DEF DispatchInv, NothingBeforeClaim
  <2>3. UNCHANGED <<launches, start>> /\ Goto(d, "prepare")
    BY <1>1 DEF Claim, fleet
  <2>4. \A e \in Deliveries \ {d} : ~Owns(e)'
    BY <2>2, <2>3, ActorsTyped DEF Goto, Owns, DispatchInv, TypeOK
  <2> QED
    BY <2>1, <2>2, <2>3, <2>4
       DEF DispatchInv, NothingBeforeClaim, OneOwner, WavesAhead, LaunchedAtMostOnce
<1>2. CASE row.status \notin DispatchAllowed
  <2>1. UNCHANGED <<launches, start, row>> /\ Goto(d, "done")
    BY <1>2 DEF Claim, fleet
  <2>2. \A e \in Deliveries : pc'[e] \in {pc[e], "done"}
    BY <2>1, ActorsTyped DEF Goto, DispatchInv, TypeOK
  <2> QED
    BY <2>1, <2>2, DispatchInvKept DEF Owns, StatusEnds
<1> QED
  BY <1>1, <1>2

\* What a wave does: it starts agents that were not started, and no others.
LEMMA LaunchWaveStep ==
    ASSUME DispatchInv, NEW d \in Deliveries, LaunchWave(d)
    PROVE  /\ UNCHANGED row /\ row.status # "preparing"
           /\ \E wave \in SUBSET Wave(d) :
                 /\ \A a \in wave : launches[a] = 0
                 /\ launches' = [a \in Agents |-> IF a \in wave THEN 1 ELSE launches[a]]
           /\ start' = [start EXCEPT ![d] = @ + WaveSize]
           /\ \E label \in {"wave", "abort", "launched"} : Goto(d, label)
<1> DEFINE Launches(ok, lost) ==
      /\ launches' = [a \in Agents |->
                         IF a \in ok \cup lost THEN launches[a] + 1 ELSE launches[a]]
      /\ \E label \in {"wave", "abort", "launched"} : Goto(d, label)
<1>1. PICK ok \in SUBSET Wave(d) : \E lost \in SUBSET (Wave(d) \ ok) : Launches(ok, lost)
  BY DEF LaunchWave
<1>2. PICK lost \in SUBSET (Wave(d) \ ok) : Launches(ok, lost)
  BY <1>1
<1> DEFINE wave == ok \cup lost
<1>3. wave \in SUBSET Wave(d) /\ Wave(d) \subseteq Agents
  BY DEF Wave
<1>4. \A a \in wave : launches[a] = 0
  BY <1>3 DEF Wave, LaunchWave, DispatchInv, WavesAhead, Agents
<1>5. launches' = [a \in Agents |-> IF a \in wave THEN 1 ELSE launches[a]]
  BY <1>2, <1>4
<1>6. row.status # "preparing" /\ UNCHANGED row
  BY DEF LaunchWave, DispatchInv, NothingBeforeClaim, Owns
<1> QED
  BY <1>2, <1>3, <1>4, <1>5, <1>6 DEF LaunchWave

LEMMA LaunchKeepsDispatchInv ==
    ASSUME DispatchInv, TypeOK', NEW d \in Deliveries, LaunchWave(d)
    PROVE  DispatchInv'
<1> d \in Actors /\ TypeOK
  BY ActorsTyped DEF DispatchInv
<1>1. PICK wave \in SUBSET Wave(d) :
        /\ \A a \in wave : launches[a] = 0
        /\ launches' = [a \in Agents |-> IF a \in wave THEN 1 ELSE launches[a]]
  BY LaunchWaveStep
<1>2. PICK label \in {"wave", "abort", "launched"} : Goto(d, label)
  BY LaunchWaveStep
<1>3. UNCHANGED row /\ row.status # "preparing"
      /\ start' = [start EXCEPT ![d] = @ + WaveSize] /\ pc[d] = "wave"
  BY LaunchWaveStep DEF LaunchWave
<1>4. \A e \in Deliveries \ {d} : ~Owns(e) /\ ~Owns(e)'
  BY <1>2, <1>3, ActorsTyped DEF Goto, Owns, TypeOK, DispatchInv, OneOwner
<1>5. NothingBeforeClaim'
  BY <1>3 DEF NothingBeforeClaim
<1>6. OneOwner'
  BY <1>4 DEF OneOwner
<1>7. start[d] \in Nat /\ start'[d] = start[d] + WaveSize
  BY <1>3 DEF TypeOK
<1>8. \A a \in Agents : a > start'[d] => a > start[d] /\ a \notin Wave(d)
  BY <1>7, SizesAssumption DEF Wave, Agents
<1>9. \A a \in Agents : a > start'[d] => launches'[a] = 0
  BY <1>1, <1>3, <1>8 DEF DispatchInv, WavesAhead
<1>10. WavesAhead'
  BY <1>4, <1>9 DEF WavesAhead, Owns
<1>11. LaunchedAtMostOnce'
  BY <1>1 DEF DispatchInv, LaunchedAtMostOnce, TypeOK
<1> QED
  BY <1>5, <1>6, <1>10, <1>11 DEF DispatchInv

LEMMA DispatchKeepsDispatchInv ==
    ASSUME DispatchInv, TypeOK', NEW d \in Deliveries, Dispatch(d)
    PROVE  DispatchInv'
<1> d \in Actors /\ TypeOK
  BY ActorsTyped DEF DispatchInv
<1>1. CASE Claim(d)
  BY <1>1, ClaimKeepsDispatchInv
<1>2. CASE LaunchWave(d)
  BY <1>2, LaunchKeepsDispatchInv
<1>3. CASE ~Claim(d) /\ ~LaunchWave(d)
  <2>1. StatusEnds
    BY <1>3, DispatchStatus
  <2>2. UNCHANGED <<launches, start>>
    BY <1>3 DEF Dispatch, PrepareFails, NoAgents, SelectAgents, Abort, PersistAborted,
                DispatchRaises, PersistLaunched, ClearDetail, CheckStopped, StartPolling,
                StartPollingFails, WorkerDies, StopAgents, fleet, local
  <2>3. /\ \A e \in Deliveries \ {d} : pc'[e] = pc[e]
        /\ Owns(d)' => Owns(d)
        /\ pc'[d] \in {"prepare", "wave"} => pc[d] \in {"prepare", "wave"}
    <3>1. CASE StartPolling(d)
      BY <3>1, ActorsTyped DEF StartPolling, TypeOK, Owns
    <3>2. CASE \/ PrepareFails(d) \/ NoAgents(d) \/ DispatchRaises(d)
               \/ StartPollingFails(d) \/ WorkerDies(d)
      <4>1. Owns(d) /\ \E label \in {"queued", "done"} : Goto(d, label)
        BY <3>2 DEF PrepareFails, NoAgents, DispatchRaises, StartPollingFails, WorkerDies,
                    Requeue, Leave, Owns
      <4> QED
        BY <4>1, ActorsTyped DEF Goto, TypeOK, Owns
    <3>3. CASE \/ SelectAgents(d) \/ Abort(d) \/ PersistAborted(d) \/ PersistLaunched(d)
               \/ ClearDetail(d) \/ CheckStopped(d)
      <4>1. /\ Owns(d)
            /\ \E label : /\ Goto(d, label)
                          /\ label \in {"prepare", "wave"} => pc[d] = "prepare"
        BY <3>3 DEF SelectAgents, Abort, PersistAborted, PersistLaunched, ClearDetail,
                    CheckStopped, Leave, Owns
      <4> QED
        BY <4>1, ActorsTyped DEF Goto, TypeOK
    <3> QED
      BY <1>3, <3>1, <3>2, <3>3 DEF Dispatch
  <2>4. \A e \in Deliveries : Owns(e)' => Owns(e)
    BY <2>3 DEF Owns
  <2>5. \A e \in Deliveries :
          pc'[e] \in {"prepare", "wave"} => pc[e] \in {"prepare", "wave"}
    BY <2>3
  <2> QED
    BY <2>1, <2>2, <2>4, <2>5, DispatchInvKept
<1> QED
  BY <1>1, <1>2, <1>3

LEMMA DispatchInvNext == DispatchInv /\ [Next]_vars => DispatchInv'
<1> SUFFICES ASSUME DispatchInv, [Next]_vars PROVE DispatchInv'
  OBVIOUS
<1>1. TypeOK /\ TypeOK'
  BY NextType DEF DispatchInv
<1>2. CASE \E d \in Deliveries : Dispatch(d)
  BY <1>1, <1>2, DispatchKeepsDispatchInv
<1>3. CASE ~\E d \in Deliveries : Dispatch(d)
  <2>1. StatusEnds
    BY <1>1, <1>3, StepStatus DEF Dispatch
  <2> QED
    BY <1>1, <1>3, <2>1, OthersKeepDispatchInv DEF Next
<1> QED
  BY <1>2, <1>3

\* DispatchInv (test_executor.py, execute_test_task and what ends a run) is an invariant.
THEOREM DispatchInvariant == Spec => []DispatchInv
BY DispatchInvInit, DispatchInvNext, PTL DEF Spec

\* LaunchedAtMostOnce: redelivered, retried, overtaken by a stop or cut off by a crash,
\* the dispatch of a run starts a load at most once on each agent.
THEOREM LaunchOnce == Spec => []LaunchedAtMostOnce
<1>1. DispatchInv => LaunchedAtMostOnce
  BY DEF DispatchInv
<1> QED
  BY <1>1, DispatchInvariant, PTL

-----------------------------------------------------------------------------
(* The run keeps its contract *)

\* Every step is one of the contract's, or leaves its state alone.
LEMMA ContractStep ==
    ASSUME DispatchInv, [Next]_vars
    PROVE  [Contract!Next]_(Contract!vars)
<1>1. TypeOK
  BY DEF DispatchInv
<1> USE DEF Contract!Next, Contract!vars
<1>2. CASE \E d \in Deliveries : LaunchWave(d)
  <2>1. PICK d \in Deliveries : LaunchWave(d)
    BY <1>2
  <2>2. PICK wave \in SUBSET Wave(d) :
          /\ \A a \in wave : launches[a] = 0
          /\ launches' = [a \in Agents |-> IF a \in wave THEN 1 ELSE launches[a]]
    BY <2>1, LaunchWaveStep
  <2>3. wave \in SUBSET {a \in Agents : launches[a] = 0}
    BY <2>2 DEF Wave
  <2>4. row.status # "preparing" /\ UNCHANGED row
    BY <2>1, LaunchWaveStep
  <2>5. Contract!Launch
    BY <2>2, <2>3, <2>4 DEF Contract!Launch
  <2> QED
    BY <2>5
<1>3. CASE ~\E d \in Deliveries : LaunchWave(d)
  <2>1. UNCHANGED launches
    <3>1. CASE \E d \in Deliveries : Dispatch(d)
      BY <1>3, <3>1
         DEF Dispatch, Claim, PrepareFails, NoAgents, SelectAgents, Abort, PersistAborted,
             DispatchRaises, PersistLaunched, ClearDetail, CheckStopped, StartPolling,
             StartPollingFails, WorkerDies, StopAgents, fleet
    <3>2. CASE Poll
      BY <3>2
         DEF Poll, PollLoad, PollFetch, PollFinishes, PollSaves, PollDecides,
             PollStopsAgents, PollTimesOut, PollRaises, PollUnsent, EvidenceFetch,
             EvidenceFinishes, EvidenceStopsAgents, EvidenceKeepsRunning, PollDies,
             StopAgents, fleet
    <3>3. CASE \E x \in Closers : Close(x)
      BY <3>3 DEF Close, CloserLoads, CloserStopsAgents, CloserWrites, StopAgents, fleet
    <3>4. CASE \E x \in Readers : Read(x)
      BY <3>4 DEF Read, ReaderLoads, ReaderFetches, ReaderWrites, fleet
    <3>5. CASE Environment \/ UNCHANGED vars
      BY <3>5 DEF Environment, AgentEnds, AgentStops, AgentRestarts, PollClock,
                  WatchdogClock, fleet, vars
    <3> QED
      BY <3>1, <3>2, <3>3, <3>4, <3>5 DEF Next
  <2>2. CASE StatusEnds
    BY <2>1, <2>2 DEF StatusEnds, Contract!End
  <2>3. CASE row.status = "preparing" /\ row'.status = "running"
    BY <2>1, <2>3 DEF Contract!Claim
  <2> QED
    BY <1>1, <2>2, <2>3, StepStatus
<1> QED
  BY <1>2, <1>3

\* KeepsContract: whoever watches a run sees one claim, each agent started once and only
\* after it, and an end that stays an end.
THEOREM RunKeepsContract == Spec => KeepsContract
<1>1. Init => Contract!Init
  BY DEF Init, NewRow, Contract!Init
<1>2. DispatchInv /\ [Next]_vars => [Contract!Next]_(Contract!vars)
  BY ContractStep
<1> QED
  BY <1>1, <1>2, DispatchInvariant, PTL DEF Spec, KeepsContract, Contract!Spec


-----------------------------------------------------------------------------
(* A run that ended in the queue is never launched *)

\* What the property's premise becomes: messages of the run may still be looked at, and are
\* dropped.
Dead == row.status \in Terminal /\ Unlaunched /\ \A d \in Deliveries : ~Owns(d)

LEMMA DeadStays == TypeOK /\ Dead /\ [Next]_vars => Dead'
<1> SUFFICES ASSUME TypeOK, Dead, [Next]_vars PROVE Dead'
  OBVIOUS
<1> USE DEF local, session, fleet
<1>1. row'.status \in Terminal
  BY StepStatus DEF Dead, StatusEnds, Terminal
<1>2. ASSUME UNCHANGED launches, \A d \in Deliveries : pc'[d] \in {pc[d], "done"}
      PROVE  Dead'
  BY <1>1, <1>2 DEF Dead, Owns, Unlaunched
<1>3. ASSUME NEW d \in Deliveries, Dispatch(d)
      PROVE  Dead'
  <2>1. pc[d] \in {"queued", "done"}
    BY <1>3 DEF Dead, Owns
  <2>2. Claim(d)
    BY <1>3, <2>1 DEF Dispatch, PrepareFails, NoAgents, SelectAgents, LaunchWave, Abort,
                      PersistAborted, DispatchRaises, PersistLaunched, ClearDetail,
                      CheckStopped, StartPolling, StartPollingFails, WorkerDies
  <2>3. Goto(d, "done") /\ UNCHANGED launches
    BY <2>2 DEF Claim, Dead, DispatchAllowed, Terminal
  <2> QED
    BY <2>3, <1>2, ActorsTyped DEF Goto, TypeOK
<1>4. CASE Poll
  <2>1. UNCHANGED launches
    BY <1>4 DEF Poll, PollLoad, PollFetch, PollFinishes, PollSaves, PollDecides,
                PollStopsAgents, PollTimesOut, PollRaises, PollUnsent, EvidenceFetch,
                EvidenceFinishes, EvidenceStopsAgents, EvidenceKeepsRunning, PollDies,
                StopAgents
  <2>2. \E label : Goto(Poller, label)
    BY <1>4 DEF Poll, PollLoad, PollFetch, PollFinishes, PollSaves, PollDecides,
                PollStopsAgents, PollTimesOut, PollRaises, PollUnsent, EvidenceFetch,
                EvidenceFinishes, EvidenceStopsAgents, EvidenceKeepsRunning, PollDies,
                Reschedule, Leave
  <2> QED
    BY <2>1, <2>2, <1>2, ActorsTyped, OthersStay
<1>5. ASSUME NEW x \in Closers, Close(x)
      PROVE  Dead'
  <2>1. UNCHANGED launches /\ \E label : Goto(x, label)
    BY <1>5 DEF Close, CloserLoads, CloserStopsAgents, CloserWrites, StopAgents, Leave
  <2> QED
    BY <2>1, <1>2, ActorsTyped, ActorsAssumption, OthersStay
<1>6. ASSUME NEW x \in Readers, Read(x)
      PROVE  Dead'
  <2>1. UNCHANGED launches /\ \E label : Goto(x, label)
    BY <1>6 DEF Read, ReaderLoads, ReaderFetches, ReaderWrites, Leave
  <2> QED
    BY <2>1, <1>2, ActorsTyped, ActorsAssumption, OthersStay
<1>7. CASE Environment \/ UNCHANGED vars
  <2>1. UNCHANGED <<launches, pc>>
    BY <1>7 DEF vars, Environment, AgentEnds, AgentStops, AgentRestarts, PollClock,
                WatchdogClock
  <2> QED
    BY <2>1, <1>2
<1> QED
  BY <1>3, <1>4, <1>5, <1>6, <1>7 DEF Next

\* A run that ended while every message of it was still in the queue stays unlaunched, in
\* whatever order the messages are delivered later and however often.
THEOREM QueuedStopFinal == Spec => QueuedStopIsFinal
<1>1. row.status \in Terminal /\ Unlaunched /\ (\A d \in Deliveries : pc[d] = "queued")
        => Dead
  BY DEF Dead, Owns
<1>2. Dead => Unlaunched
  BY DEF Dead
<1> QED
  BY <1>1, <1>2, DeadStays, TypeCorrect, PTL DEF Spec, QueuedStopIsFinal

-----------------------------------------------------------------------------
(* What the row says of the agents: a success is only recorded of agents that no longer
   drive load, and agents whose launch failed half way or that were timed out have been
   told to stop *)

Named(E) == {a \in Agents : E[a] # "absent"}
Ended(a) == agent[a] \in Terminal \cup {"gone"}
Truthful(E) == \A a \in Agents : E[a] \in Terminal => Ended(a)

\* The agents that the one dispatch has launched and got a token from: it will add no
\* other, and either all of them are there or those that are were told to stop.
Settled(S) ==
    \E d \in Deliveries : /\ S = acked[d] /\ pc[d] \notin {"prepare", "wave"}
                          /\ S = Agents \/ S \subseteq asked
Good(E) == Truthful(E) /\ (Named(E) = {} \/ Settled(Named(E)))

\* One delivery launches; what it has got tokens from follows from where it is.
LaunchInv ==
    /\ \A d \in Deliveries :
          /\ pc[d] = "prepare" => start[d] = 0 /\ acked[d] = {}
          /\ pc[d] = "wave" => acked[d] = {a \in Agents : a <= start[d]}
          /\ pc[d] \in {"launched", "persisted", "cleared", "sending"} => acked[d] = Agents
          /\ pc[d] \in {"aborted", "raise"} => acked[d] \subseteq asked
          /\ row.status = "preparing" => acked[d] = {}
    /\ \A d, e \in Deliveries : (Owns(d) \/ acked[d] # {}) /\ acked[e] # {} => d = e

AgentInv == \A a \in Agents : launches[a] = 0 => agent[a] = "idle" /\ a \notin stopping

\* The row and every session hold entries that are true, of the agents that were launched.
EntriesInv ==
    /\ Good(row.agent_runs)
    /\ \A x \in Actors : Good(view[x].agent_runs) /\ Truthful(got[x])
    /\ pc[Poller] # "off" => Settled(Agents)
    /\ pc[Poller] \in {"fetched", "verdict", "reverdict"} => Named(got[Poller]) = Agents
    /\ \A x \in Readers :
          /\ pc[x] \in {"loaded", "fetched"} => Named(view[x].agent_runs) # {}
          /\ pc[x] = "fetched" => Named(got[x]) = Named(view[x].agent_runs)

\* An active row has no reason yet; a session that will end the run has loaded it active.
Fresh(r) == Active(r) => r.reason = "none" /\ r.detail \in {"none", "dispatching_data"}
SessionInv ==
    /\ Fresh(row) /\ \A x \in Actors : Fresh(view[x]) /\ (Active(row) => Active(view[x]))
    /\ pc[Poller] \in {"loaded", "fetched"} => Active(view[Poller])
    /\ \A x \in Closers : pc[x] \in {"loaded", "stopped"} => Active(view[x])

AllEnded ==
    \E d \in Deliveries : /\ acked[d] # {} /\ pc[d] \notin {"prepare", "wave"}
                          /\ \A a \in acked[d] : Ended(a)
SuccessInv == row.status = "succeeded" /\ by # "evidence" => AllEnded
TimeoutInv ==
    /\ pc[Poller] = "expired" => asked = Agents
    /\ row.reason = "timeout" /\ row.detail = "expand_failed" /\ by = "none" => asked = Agents
    /\ Watchdogs = {} =>
          /\ row.reason = "timeout" => asked = Agents
          /\ \A x \in Actors : view[x].reason = "timeout" => asked = Agents

RecordInv == LaunchInv /\ AgentInv /\ EntriesInv /\ SessionInv /\ SuccessInv /\ TimeoutInv

-----------------------------------------------------------------------------
(* The agents *)

LaunchAny == \E d \in Deliveries : LaunchWave(d)
AgentMoves == \E a \in Agents : AgentEnds(a) \/ AgentStops(a) \/ AgentRestarts(a)

LEMMA FleetStep ==
    ASSUME TypeOK, [Next]_vars
    PROVE  \/ UNCHANGED fleet \/ LaunchAny \/ AgentMoves
           \/ \E targets \in SUBSET Agents : StopAgents(targets)
<1> USE DEF fleet
<1>1. CASE \E d \in Deliveries : Dispatch(d)
  <2>1. PICK d \in Deliveries : Dispatch(d)
    BY <1>1
  <2>2. acked[d] \in SUBSET Agents
    BY DEF TypeOK
  <2>3. CASE Abort(d)
    BY <2>2, <2>3 DEF Abort
  <2> QED
    BY <2>1, <2>3
       DEF Dispatch, Claim, PrepareFails, NoAgents, SelectAgents, PersistAborted,
           DispatchRaises, PersistLaunched, ClearDetail, CheckStopped, StartPolling,
           StartPollingFails, WorkerDies, LaunchAny
<1>2. CASE Poll
  BY <1>2
     DEF Poll, PollLoad, PollFetch, PollFinishes, PollSaves, PollDecides,
         PollStopsAgents, PollTimesOut, PollRaises, PollUnsent, EvidenceFetch,
         EvidenceFinishes, EvidenceStopsAgents, EvidenceKeepsRunning, PollDies
<1>3. ASSUME NEW x \in Closers, Close(x)
      PROVE  \/ UNCHANGED fleet
             \/ \E targets \in SUBSET Agents : StopAgents(targets)
  <2>1. Contexts(view[x]) \in SUBSET Agents
    BY ActorsTyped DEF Contexts, TypeOK, Row, Entries
  <2> QED
    BY <1>3, <2>1 DEF Close, CloserLoads, CloserStopsAgents, CloserWrites
<1>4. CASE \E x \in Readers : Read(x)
  BY <1>4 DEF Read, ReaderLoads, ReaderFetches, ReaderWrites
<1>5. CASE Environment \/ UNCHANGED vars
  BY <1>5 DEF Environment, PollClock, WatchdogClock, AgentMoves, vars
<1> QED
  BY <1>1, <1>2, <1>3, <1>4, <1>5 DEF Next

\* An agent that has ended has ended, and what was asked of it stays asked.
LEMMA AgentStep ==
    ASSUME DispatchInv, AgentInv, [Next]_vars
    PROVE  /\ AgentInv'
           /\ asked \subseteq asked'
           /\ \A a \in Agents : Ended(a) => Ended(a)'
<1>1. TypeOK
  BY DEF DispatchInv
<1>2. CASE UNCHANGED fleet
  BY <1>2 DEF fleet, AgentInv, Ended
<1>3. ASSUME NEW targets \in SUBSET Agents, StopAgents(targets)
      PROVE  /\ AgentInv'
             /\ asked \subseteq asked'
             /\ \A a \in Agents : Ended(a) => Ended(a)'
  <2>1. UNCHANGED <<agent, launches>> /\ asked \subseteq asked'
    BY <1>3 DEF StopAgents
  <2>2. stopping' \subseteq stopping \cup {a \in Agents : agent[a] = "running"}
    BY <1>3 DEF StopAgents
  <2> QED
    BY <2>1, <2>2 DEF AgentInv, Ended
<1>4. ASSUME NEW d \in Deliveries, LaunchWave(d)
      PROVE  /\ AgentInv'
             /\ asked \subseteq asked'
             /\ \A a \in Agents : Ended(a) => Ended(a)'
  <2> DEFINE Starts(S) ==
        /\ agent' = [a \in Agents |-> IF a \in S THEN "running" ELSE agent[a]]
        /\ launches' = [a \in Agents |-> IF a \in S THEN launches[a] + 1 ELSE launches[a]]
  <2>1. \E ok \in SUBSET Wave(d) : \E lost \in SUBSET (Wave(d) \ ok) : Starts(ok \cup lost)
    BY <1>4 DEF LaunchWave
  <2>2. PICK S \in SUBSET Wave(d) : Starts(S)
    BY <2>1
  <2>3. UNCHANGED <<asked, stopping>> /\ pc[d] = "wave"
    BY <1>4 DEF LaunchWave
  <2>4. \A a \in S : a \in Agents /\ launches[a] = 0
    BY <2>3 DEF Wave, DispatchInv, WavesAhead, Agents
  <2>5. \A a \in Agents : launches[a] \in Nat
    BY <1>1 DEF TypeOK
  <2>6. \A a \in S : launches'[a] = 1 /\ agent[a] = "idle"
    BY <2>2, <2>4, <2>5 DEF AgentInv
  <2>7. \A a \in Agents \ S : launches'[a] = launches[a] /\ agent'[a] = agent[a]
    BY <2>2
  <2> QED
    BY <2>3, <2>6, <2>7 DEF AgentInv, Ended, Terminal
<1>5. CASE AgentMoves
  BY <1>1, <1>5
     DEF AgentMoves, AgentEnds, AgentStops, AgentRestarts, AgentInv, Ended, Terminal, TypeOK
<1> QED
  BY <1>1, <1>2, <1>3, <1>4, <1>5, FleetStep DEF LaunchAny

-----------------------------------------------------------------------------
(* The deliveries *)

\* What each delivery may do to its place, its agents' tokens and its waves.
LEMMA DeliveryStep ==
    ASSUME DispatchInv, [Next]_vars, ~LaunchAny
    PROVE  /\ UNCHANGED <<start, acked>>
           /\ \A d \in Deliveries :
                 \/ pc'[d] = pc[d]
                 \/ pc'[d] \in {"queued", "done"}
                 \/ pc[d] = "queued" /\ pc'[d] = "prepare" /\ row.status = "preparing"
                 \/ pc[d] = "prepare" /\ pc'[d] = "wave"
                 \/ pc[d] = "abort" /\ pc'[d] = "aborted" /\ acked[d] \subseteq asked'
                 \/ pc[d] = "aborted" /\ pc'[d] = "raise"
                 \/ pc[d] = "launched" /\ pc'[d] = "persisted"
                 \/ pc[d] = "persisted" /\ pc'[d] = "cleared"
                 \/ pc[d] = "cleared" /\ pc'[d] = "sending"
<1> DEFINE Moves(d) ==
      \/ pc'[d] = pc[d]
      \/ pc'[d] \in {"queued", "done"}
      \/ pc[d] = "queued" /\ pc'[d] = "prepare" /\ row.status = "preparing"
      \/ pc[d] = "prepare" /\ pc'[d] = "wave"
      \/ pc[d] = "abort" /\ pc'[d] = "aborted" /\ acked[d] \subseteq asked'
      \/ pc[d] = "aborted" /\ pc'[d] = "raise"
      \/ pc[d] = "launched" /\ pc'[d] = "persisted"
      \/ pc[d] = "persisted" /\ pc'[d] = "cleared"
      \/ pc[d] = "cleared" /\ pc'[d] = "sending"
<1> USE DEF fleet, local, session
<1>1. TypeOK /\ pc \in [Actors -> Label]
  BY DEF DispatchInv, TypeOK
<1>2. ASSUME NEW d \in Deliveries, Dispatch(d)
      PROVE  /\ UNCHANGED <<start, acked>>
             /\ \A e \in Deliveries : Moves(e)
  <2> d \in Actors
    BY ActorsTyped
  <2>1. ~LaunchWave(d)
    BY DEF LaunchAny
  <2>2. UNCHANGED <<start, acked>>
    BY <1>2, <2>1
       DEF Dispatch, Claim, PrepareFails, NoAgents, SelectAgents, Abort, PersistAborted,
           DispatchRaises, PersistLaunched, ClearDetail, CheckStopped, StartPolling,
           StartPollingFails, WorkerDies
  <2>3. \A e \in Deliveries \ {d} : pc'[e] = pc[e]
    <3>1. CASE StartPolling(d)
      BY <1>1, <3>1, ActorsTyped DEF StartPolling
    <3>2. CASE ~StartPolling(d)
      <4>1. \E label : Goto(d, label)
        BY <1>2, <2>1, <3>2
           DEF Dispatch, Claim, PrepareFails, NoAgents, SelectAgents, Abort, PersistAborted,
               DispatchRaises, PersistLaunched, ClearDetail, CheckStopped,
               StartPollingFails, WorkerDies, Requeue, Leave
      <4> QED
        BY <1>1, <4>1, ActorsTyped DEF Goto
    <3> QED
      BY <3>1, <3>2
  <2>4. Moves(d)
    <3>1. CASE Claim(d)
      BY <1>1, <3>1 DEF Claim, DispatchAllowed, Goto
    <3>2. CASE \/ PrepareFails(d) \/ NoAgents(d) \/ DispatchRaises(d)
               \/ StartPollingFails(d) \/ WorkerDies(d)
      <4>1. \E label \in {"queued", "done"} : Goto(d, label)
        BY <3>2 DEF PrepareFails, NoAgents, DispatchRaises, StartPollingFails, WorkerDies,
                    Requeue, Leave
      <4> QED
        BY <1>1, <4>1 DEF Goto
    <3>3. CASE SelectAgents(d) \/ PersistAborted(d) \/ PersistLaunched(d) \/ ClearDetail(d)
      BY <1>1, <3>3 DEF SelectAgents, PersistAborted, PersistLaunched, ClearDetail, Goto
    <3>4. CASE Abort(d)
      BY <1>1, <3>4 DEF Abort, StopAgents, Goto
    <3>5. CASE CheckStopped(d)
      BY <1>1, <3>5 DEF CheckStopped, Leave, Goto
    <3>6. CASE StartPolling(d)
      BY <1>1, <3>6, ActorsTyped DEF StartPolling
    <3> QED
      BY <1>2, <2>1, <3>1, <3>2, <3>3, <3>4, <3>5, <3>6 DEF Dispatch
  <2> QED
    BY <2>2, <2>3, <2>4
<1>3. CASE Poll
  <2>1. UNCHANGED <<start, acked>> /\ \E label : Goto(Poller, label)
    BY <1>3 DEF Poll, PollLoad, PollFetch, PollFinishes, PollSaves, PollDecides,
                PollStopsAgents, PollTimesOut, PollRaises, PollUnsent, EvidenceFetch,
                EvidenceFinishes, EvidenceStopsAgents, EvidenceKeepsRunning, PollDies,
                Reschedule, Leave
  <2> QED
    BY <1>1, <2>1, ActorsTyped, OthersStay
<1>4. ASSUME NEW x \in Closers \cup Readers, Close(x) \/ Read(x)
      PROVE  UNCHANGED <<start, acked>> /\ \A e \in Deliveries : Moves(e)
  <2>1. UNCHANGED <<start, acked>> /\ \E label : Goto(x, label)
    BY <1>4 DEF Close, CloserLoads, CloserStopsAgents, CloserWrites, Read, ReaderLoads,
                ReaderFetches, ReaderWrites, Leave
  <2> QED
    BY <1>1, <2>1, ActorsTyped, ActorsAssumption, OthersStay
<1>5. CASE Environment \/ UNCHANGED vars
  BY <1>5 DEF Environment, AgentEnds, AgentStops, AgentRestarts, PollClock, WatchdogClock,
              vars
<1> QED
  BY <1>2, <1>3, <1>4, <1>5 DEF Next

\* A wave adds to the tokens of the one delivery that is launching.
LEMMA LaunchAcks ==
    ASSUME DispatchInv, LaunchInv, NEW d \in Deliveries, LaunchWave(d)
    PROVE  /\ pc[d] = "wave" /\ UNCHANGED <<row, asked>>
           /\ \A e \in Deliveries \ {d} :
                 /\ pc'[e] = pc[e] /\ acked'[e] = acked[e] /\ start'[e] = start[e]
                 /\ acked[e] = {} /\ ~Owns(e)
           /\ \/ /\ pc'[d] = "wave" /\ acked'[d] = {a \in Agents : a <= start'[d]}
              \/ pc'[d] = "launched" /\ acked'[d] = Agents
              \/ pc'[d] = "abort"
<1>1. TypeOK /\ d \in Actors /\ pc[d] = "wave" /\ Owns(d)
  BY ActorsTyped DEF DispatchInv, LaunchWave, Owns
<1>2. PICK ok \in SUBSET Wave(d) :
        /\ acked' = [acked EXCEPT ![d] = @ \cup ok]
        /\ Goto(d, IF ok # Wave(d) THEN "abort"
                   ELSE IF start[d] + WaveSize < NumAgents THEN "wave" ELSE "launched")
  BY DEF LaunchWave
<1>3. UNCHANGED <<row, asked>> /\ start' = [start EXCEPT ![d] = @ + WaveSize]
  BY DEF LaunchWave
<1>4. \A e \in Deliveries \ {d} :
         /\ pc'[e] = pc[e] /\ acked'[e] = acked[e] /\ start'[e] = start[e]
         /\ acked[e] = {} /\ ~Owns(e)
  BY <1>1, <1>2, <1>3, ActorsTyped DEF Goto, TypeOK, LaunchInv, DispatchInv, OneOwner
<1>5. /\ start'[d] = start[d] + WaveSize /\ start[d] \in Nat
      /\ acked'[d] = {a \in Agents : a <= start[d]} \cup ok
  BY <1>1, <1>2, <1>3 DEF TypeOK, LaunchInv
<1>6. ok = Wave(d) => acked'[d] = {a \in Agents : a <= start'[d]}
  BY <1>5, SizesAssumption DEF Wave, Agents
<1>7. ~(start[d] + WaveSize < NumAgents) => {a \in Agents : a <= start'[d]} = Agents
  BY <1>5, SizesAssumption DEF Agents
<1>8. pc'[d] = IF ok # Wave(d) THEN "abort"
               ELSE IF start[d] + WaveSize < NumAgents THEN "wave" ELSE "launched"
  BY <1>1, <1>2 DEF Goto, TypeOK
<1> QED
  BY <1>1, <1>3, <1>4, <1>6, <1>7, <1>8

LEMMA LaunchInvNext ==
    ASSUME DispatchInv, LaunchInv, AgentInv, [Next]_vars
    PROVE  LaunchInv'
<1>1. asked \subseteq asked' /\ TypeOK
  BY AgentStep DEF DispatchInv
<1>2. row'.status = "preparing" => row.status = "preparing"
  BY <1>1, StepStatus DEF StatusEnds, Terminal
<1>3. CASE ~LaunchAny
  <2>1. \A d \in Deliveries : acked'[d] = acked[d] /\ start'[d] = start[d]
    BY <1>3, DeliveryStep
  <2>2. row.status = "preparing" => \A d \in Deliveries : start[d] = 0 /\ acked[d] = {}
    BY DEF DispatchInv, NothingBeforeClaim, LaunchInv
  <2>3. {a \in Agents : a <= 0} = {}
    BY DEF Agents
  <2>4. \A d, e \in Deliveries : (Owns(d)' \/ acked'[d] # {}) /\ acked'[e] # {} => d = e
    <3> SUFFICES ASSUME NEW d \in Deliveries, NEW e \in Deliveries,
                        Owns(d)' \/ acked[d] # {}, acked[e] # {}
                 PROVE  d = e
      BY <2>1
    <3>1. row.status # "preparing"
      BY <2>2
    <3>2. Owns(d) \/ acked[d] # {}
      BY <1>3, <3>1, DeliveryStep DEF Owns
    <3> QED
      BY <3>2 DEF LaunchInv
  <2>5. ASSUME NEW d \in Deliveries
        PROVE  /\ pc'[d] = "prepare" => start[d] = 0 /\ acked[d] = {}
               /\ pc'[d] = "wave" => acked[d] = {a \in Agents : a <= start[d]}
               /\ pc'[d] \in {"launched", "persisted", "cleared", "sending"}
                     => acked[d] = Agents
               /\ pc'[d] \in {"aborted", "raise"} => acked[d] \subseteq asked'
    BY <1>1, <1>3, <2>2, <2>3, DeliveryStep DEF LaunchInv
  <2> QED
    BY <1>2, <2>1, <2>2, <2>4, <2>5 DEF LaunchInv
<1>4. ASSUME NEW d \in Deliveries, LaunchWave(d)
      PROVE  LaunchInv'
  <2>1. row.status # "preparing" /\ UNCHANGED row
    BY <1>4, LaunchWaveStep
  <2>2. \A e \in Deliveries \ {d} : acked'[e] = {} /\ ~Owns(e)'
    BY <1>4, LaunchAcks DEF Owns
  <2>3. \A e \in Deliveries \ {d} : pc'[e] = pc[e] /\ pc[e] \in {"queued", "done"}
    BY <1>4, LaunchAcks DEF Owns
  <2> QED
    BY <1>4, <2>1, <2>2, <2>3, LaunchAcks DEF LaunchInv
<1> QED
  BY <1>3, <1>4 DEF LaunchAny

\* Agents that are settled stay settled.
LEMMA SettledKept ==
    ASSUME DispatchInv, LaunchInv, AgentInv, [Next]_vars,
           NEW d \in Deliveries, acked[d] # {}, pc[d] \notin {"prepare", "wave"}
    PROVE  acked'[d] = acked[d] /\ pc'[d] \notin {"prepare", "wave"}
<1>1. row.status # "preparing"
  BY DEF LaunchInv
<1>2. CASE ~LaunchAny
  BY <1>1, <1>2, DeliveryStep
<1>3. ASSUME NEW e \in Deliveries, LaunchWave(e)
      PROVE  acked'[d] = acked[d] /\ pc'[d] \notin {"prepare", "wave"}
  BY <1>3, LaunchAcks
<1> QED
  BY <1>2, <1>3 DEF LaunchAny

LEMMA GoodKept ==
    ASSUME DispatchInv, LaunchInv, AgentInv, [Next]_vars, NEW E, Good(E)
    PROVE  Good(E)'
<1>1. Truthful(E)'
  BY AgentStep DEF Good, Truthful
<1>2. ASSUME Named(E) # {} PROVE Settled(Named(E))'
  <2>1. PICK d \in Deliveries : /\ Named(E) = acked[d] /\ pc[d] \notin {"prepare", "wave"}
                                /\ Named(E) = Agents \/ Named(E) \subseteq asked
    BY <1>2 DEF Good, Settled
  <2>2. acked'[d] = acked[d] /\ pc'[d] \notin {"prepare", "wave"}
    BY <1>2, <2>1, SettledKept
  <2> QED
    BY <2>1, <2>2, AgentStep DEF Settled, Named
<1> QED
  BY <1>1, <1>2 DEF Good, Named

LEMMA AllSettledKept ==
    ASSUME DispatchInv, LaunchInv, AgentInv, [Next]_vars, Settled(Agents)
    PROVE  Settled(Agents)'
<1>1. Agents # {}
  BY SizesAssumption DEF Agents
<1>2. PICK d \in Deliveries : Agents = acked[d] /\ pc[d] \notin {"prepare", "wave"}
  BY DEF Settled
<1>3. acked'[d] = acked[d] /\ pc'[d] \notin {"prepare", "wave"}
  BY <1>1, <1>2, SettledKept
<1> QED
  BY <1>2, <1>3 DEF Settled

LEMMA AllEndedKept ==
    ASSUME DispatchInv, LaunchInv, AgentInv, [Next]_vars, AllEnded
    PROVE  AllEnded'
<1>1. PICK d \in Deliveries : /\ acked[d] # {} /\ pc[d] \notin {"prepare", "wave"}
                              /\ \A a \in acked[d] : Ended(a)
  BY DEF AllEnded
<1>2. acked'[d] = acked[d] /\ pc'[d] \notin {"prepare", "wave"}
  BY <1>1, SettledKept
<1>3. acked[d] \subseteq Agents
  BY DEF DispatchInv, TypeOK
<1> QED
  BY <1>1, <1>2, <1>3, AgentStep DEF AllEnded

-----------------------------------------------------------------------------
(* What a step writes to the row *)

Untouched ==
    /\ row'.status = row.status /\ row'.reason = row.reason /\ by' = by
    /\ row'.detail \in {row.detail, "none"}
Claimed ==
    /\ row.status = "preparing" /\ row'.status = "running" /\ by' = by
    /\ row'.reason = "none" /\ row'.detail = "dispatching_data"
\* Ended for a reason of the control plane's own.
ClosedFor ==
    /\ row'.status \in {"failed", "stopped"} /\ by' = by
    /\ \/ row'.reason \in {"dispatch_error", "user"}
       \/ row'.reason = "timeout" /\ pc[Poller] = "expired"
       \/ row'.reason = "timeout" /\ row'.detail = "timeout_watchdog" /\ Watchdogs # {}
\* Ended by a verdict of the agents.
Judged ==
    /\ row'.status \in Terminal /\ by' # "none"
    /\ \/ row'.reason \in {row.reason, "agent_error", "poll_error", "none"}
       \/ \E x \in Actors : row'.reason = view[x].reason
    /\ row'.status = "succeeded" /\ by' # "evidence" => AllEnded
Entered == \E E : Good(E) /\ row'.agent_runs = E
Written == Entered /\ (Untouched \/ Claimed \/ ClosedFor \/ Judged)

\* A session that marks the run failed leaves it, or its reason shows.
LEMMA MarkFailedWrites ==
    ASSUME row \in Row, NEW held \in Row, Fresh(held), NEW reason \in Reason \ {"none"},
           NEW detail \in Detail, MarkFailed(held, reason, detail)
    PROVE  \/ row' = row
           \/ /\ row'.status = "failed" /\ row'.reason = reason
              /\ row'.agent_runs = row.agent_runs
BY DEF MarkFailed, Flush, Dirty, Fresh, Active, Terminal, Row

\* A session that has changed nothing but the entries writes nothing else.
LEMMA EntriesWritten ==
    ASSUME row \in Row, NEW loaded \in Row, NEW E \in Entries,
           NEW r \in Saves(loaded, [loaded EXCEPT !.agent_runs = E])
    PROVE  /\ r.status = row.status /\ r.reason = row.reason /\ r.detail = row.detail
           /\ r.agent_runs \in {row.agent_runs, E}
<1> DEFINE new == [loaded EXCEPT !.agent_runs = E]
<1>1. /\ new.status = loaded.status /\ new.reason = loaded.reason
      /\ new.detail = loaded.detail /\ new.agent_runs = E
  BY DEF Row
<1> HIDE DEF new
<1>2. r \in Saves(loaded, new)
  BY DEF new
<1> QED
  BY <1>1, <1>2 DEF Saves, Flush, Dirty

LEMMA OutcomeWritten ==
    ASSUME NEW loaded, NEW verdict, NEW E, NEW why,
           NEW r \in Saves(loaded, Outcome(loaded, verdict, E, why))
    PROVE  /\ r.status \in {row.status, verdict}
           /\ loaded.status # verdict => r.status = verdict
           /\ r.reason \in {row.reason, "none", why}
           /\ r.agent_runs \in {row.agent_runs, E}
BY DEF Saves, Flush, Dirty, Outcome

\* If every agent of a launch has ended, and the entries say which those are.
LEMMA EntriesEnded ==
    ASSUME NEW E, Truthful(E), Named(E) # {}, Settled(Named(E)),
           \A a \in Named(E) : E[a] \in Terminal
    PROVE  AllEnded
<1>1. PICK d \in Deliveries : Named(E) = acked[d] /\ pc[d] \notin {"prepare", "wave"}
  BY DEF Settled
<1> QED
  BY <1>1 DEF AllEnded, Truthful, Named

LEMMA LaunchedGood ==
    ASSUME DispatchInv, LaunchInv, NEW d \in Deliveries, pc[d] \in {"aborted", "launched"}
    PROVE  Launched(d) \in Entries /\ Good(Launched(d))
<1>1. acked[d] \in SUBSET Agents
  BY DEF DispatchInv, TypeOK
<1>2. Named(Launched(d)) = acked[d]
  BY <1>1 DEF Named, Launched
<1>3. Truthful(Launched(d))
  BY DEF Truthful, Launched, Terminal
<1>4. Settled(acked[d])
  BY DEF Settled, LaunchInv
<1>5. Launched(d) \in Entries
  BY DEF Launched, Entries, EntryStatus
<1> QED
  BY <1>2, <1>3, <1>4, <1>5 DEF Good

LEMMA DispatchWrites ==
    ASSUME DispatchInv, RecordInv, NEW d \in Deliveries, Dispatch(d)
    PROVE  Written
<1>1. /\ d \in Actors /\ row \in Row /\ view[d] \in Row
      /\ Fresh(row) /\ Fresh(view[d]) /\ Good(row.agent_runs)
  BY ActorsTyped DEF DispatchInv, TypeOK, RecordInv, SessionInv, EntriesInv
<1>2. ASSUME UNCHANGED <<row, by>>
      PROVE  Written
  BY <1>1, <1>2 DEF Written, Entered, Untouched
<1>3. ASSUME NEW held \in Row, Fresh(held), NEW detail \in Detail,
             MarkFailed(held, "dispatch_error", detail), UNCHANGED by
      PROVE  Written
  <2>1. \/ row' = row
        \/ /\ row'.status = "failed" /\ row'.reason = "dispatch_error"
           /\ row'.agent_runs = row.agent_runs
    BY <1>1, <1>3, MarkFailedWrites DEF Reason
  <2> QED
    BY <1>1, <1>2, <1>3, <2>1 DEF Written, Entered, ClosedFor
<1>4. CASE Claim(d)
  <2>1. CASE row.status \in DispatchAllowed
    BY <1>1, <1>4, <2>1 DEF Claim, DispatchAllowed, Written, Entered, Claimed, Row
  <2>2. CASE row.status \notin DispatchAllowed
    BY <1>2, <1>4, <2>2 DEF Claim
  <2> QED
    BY <2>1, <2>2
<1>5. CASE PrepareFails(d) \/ NoAgents(d) \/ DispatchRaises(d) \/ StartPollingFails(d)
  <2>1. "expand_failed" \in Detail /\ "no_healthy_agents" \in Detail
    BY DEF Detail
  <2> QED
    BY <1>1, <1>3, <1>5, <2>1 DEF PrepareFails, NoAgents, DispatchRaises, StartPollingFails
<1>6. CASE PersistAborted(d) \/ PersistLaunched(d)
  <2>1. pc[d] \in {"aborted", "launched"} /\ UNCHANGED by
    BY <1>6 DEF PersistAborted, PersistLaunched
  <2>2. Launched(d) \in Entries /\ Good(Launched(d))
    BY <2>1, LaunchedGood DEF RecordInv
  <2>3. row' \in Saves(view[d], [view[d] EXCEPT !.agent_runs = Launched(d)])
    BY <1>6 DEF PersistAborted, PersistLaunched, Saves
  <2>4. /\ row'.status = row.status /\ row'.reason = row.reason /\ row'.detail = row.detail
        /\ row'.agent_runs \in {row.agent_runs, Launched(d)}
    BY <1>1, <2>2, <2>3, EntriesWritten
  <2> QED
    BY <1>1, <2>1, <2>2, <2>4 DEF Written, Entered, Untouched
<1>7. CASE ClearDetail(d)
  BY <1>1, <1>7 DEF ClearDetail, Written, Entered, Untouched, Row
<1>8. CASE \/ SelectAgents(d) \/ LaunchWave(d) \/ Abort(d) \/ CheckStopped(d)
           \/ StartPolling(d) \/ WorkerDies(d)
  BY <1>2, <1>8 DEF SelectAgents, LaunchWave, Abort, CheckStopped, StartPolling, WorkerDies
<1> QED
  BY <1>4, <1>5, <1>6, <1>7, <1>8 DEF Dispatch

LEMMA PollWrites ==
    ASSUME DispatchInv, RecordInv, Poll
    PROVE  Written
<1> DEFINE p == Poller
<1>1. /\ p \in Actors /\ row \in Row /\ view[p] \in Row /\ got[p] \in Entries
      /\ Fresh(row) /\ Fresh(view[p]) /\ Good(row.agent_runs) /\ Good(view[p].agent_runs)
      /\ Truthful(got[p])
  BY ActorsTyped DEF DispatchInv, TypeOK, RecordInv, SessionInv, EntriesInv
<1>2. ASSUME UNCHANGED <<row, by>>
      PROVE  Written
  BY <1>1, <1>2 DEF Written, Entered, Untouched
<1>3. ASSUME pc[p] \in {"fetched", "verdict", "reverdict"}
      PROVE  Named(got[p]) = Agents /\ Agents # {} /\ Settled(Agents) /\ Good(got[p])
  <2>1. Named(got[p]) = Agents /\ Settled(Agents)
    BY <1>3 DEF RecordInv, EntriesInv
  <2>2. Agents # {}
    BY SizesAssumption DEF Agents
  <2> QED
    BY <1>1, <2>1, <2>2 DEF Good
<1>4. CASE PollFinishes
  <2> DEFINE verdict == Aggregate(got[p])
  <2>1. pc[p] = "fetched" /\ verdict \in Terminal /\ by' = "poll"
    BY <1>4 DEF PollFinishes
  <2>2. PICK why \in {"agent_error", view[p].reason} :
          row' \in Saves(view[p], Outcome(view[p], verdict, got[p], why))
    BY <1>4 DEF PollFinishes
  <2>3. view[p].status # verdict
    BY <2>1 DEF RecordInv, SessionInv, Active
  <2>4. verdict = "succeeded" => \A a \in Agents : got[p][a] \in Terminal
    <3>1. ASSUME verdict = "succeeded", NEW a \in Agents
          PROVE  got[p][a] \in Terminal
      <4>1. got[p][a] # "absent"
        BY <1>3, <2>1 DEF Named
      <4>2. got[p][a] \notin {"failed", "running", "blank", "stopped"}
        BY <3>1 DEF Aggregate, Saw
      <4> QED
        BY <1>1, <4>1, <4>2 DEF Entries, EntryStatus
    <3> QED
      BY <3>1
  <2>5. verdict = "succeeded" => AllEnded
    BY <1>1, <1>3, <2>1, <2>4, EntriesEnded
  <2> HIDE DEF verdict
  <2>6. /\ row'.status = verdict /\ row'.reason \in {row.reason, "none", why}
        /\ row'.agent_runs \in {row.agent_runs, got[p]}
    BY <2>2, <2>3, OutcomeWritten
  <2> QED
    BY <1>1, <1>3, <2>1, <2>2, <2>5, <2>6 DEF Written, Entered, Judged
<1>5. CASE EvidenceFinishes
  <2> DEFINE verdict == EvidenceVerdict(got[p])
  <2>1. CASE Active(view[p])
    <3>1. pc[p] \in {"verdict", "reverdict"} /\ verdict \in Terminal /\ by' = "evidence"
      BY <1>5, <2>1 DEF EvidenceFinishes
    <3>2. PICK why \in {"agent_error", "poll_error", "none"} :
            row' \in Saves(view[p], Outcome(view[p], verdict, got[p], why))
      BY <1>5, <2>1 DEF EvidenceFinishes
    <3>3. view[p].status # verdict
      BY <2>1, <3>1 DEF Active
    <3> HIDE DEF verdict
    <3>4. /\ row'.status = verdict /\ row'.reason \in {row.reason, "none", why}
          /\ row'.agent_runs \in {row.agent_runs, got[p]}
      BY <3>2, <3>3, OutcomeWritten
    <3> QED
      BY <1>1, <1>3, <3>1, <3>2, <3>4 DEF Written, Entered, Judged
  <2>2. CASE ~Active(view[p])
    BY <1>2, <1>5, <2>2 DEF EvidenceFinishes
  <2> QED
    BY <2>1, <2>2
<1>6. CASE PollSaves
  <2>1. /\ pc[p] = "fetched" /\ UNCHANGED by
        /\ row' \in Saves(view[p], [view[p] EXCEPT !.agent_runs = got[p]])
    BY <1>6 DEF PollSaves
  <2>2. /\ row'.status = row.status /\ row'.reason = row.reason /\ row'.detail = row.detail
        /\ row'.agent_runs \in {row.agent_runs, got[p]}
    BY <1>1, <2>1, EntriesWritten
  <2> QED
    BY <1>1, <1>3, <2>1, <2>2 DEF Written, Entered, Untouched
<1>7. CASE PollTimesOut
  <2>1. pc[p] = "expired" /\ UNCHANGED by /\ MarkFailed(row, "timeout", "expand_failed")
    BY <1>7 DEF PollTimesOut
  <2>2. \/ row' = row
        \/ /\ row'.status = "failed" /\ row'.reason = "timeout"
           /\ row'.agent_runs = row.agent_runs
    BY <1>1, <2>1, MarkFailedWrites DEF Reason, Detail
  <2> QED
    BY <1>1, <1>2, <2>1, <2>2 DEF Written, Entered, ClosedFor
<1>8. CASE EvidenceKeepsRunning
  <2>1. row' = [row EXCEPT !.agent_runs = view[p].agent_runs] /\ UNCHANGED by
    BY <1>8 DEF EvidenceKeepsRunning
  <2> QED
    BY <1>1, <2>1 DEF Written, Entered, Untouched, Row
<1>9. CASE \/ PollLoad \/ PollFetch \/ PollDecides \/ PollStopsAgents \/ PollRaises
           \/ PollUnsent \/ EvidenceFetch \/ EvidenceStopsAgents \/ PollDies
  BY <1>2, <1>9 DEF PollLoad, PollFetch, PollDecides, PollStopsAgents, PollRaises,
                    PollUnsent, EvidenceFetch, EvidenceStopsAgents, PollDies
<1> QED
  BY <1>4, <1>5, <1>6, <1>7, <1>8, <1>9 DEF Poll

LEMMA CloseWrites ==
    ASSUME DispatchInv, RecordInv, NEW x \in Closers, Close(x)
    PROVE  Written
<1>1. /\ x \in Actors /\ row \in Row /\ view[x] \in Row
      /\ Fresh(view[x]) /\ Good(row.agent_runs)
  BY ActorsTyped DEF DispatchInv, TypeOK, RecordInv, SessionInv, EntriesInv
<1>2. CASE CloserWrites(x)
  <2> DEFINE new == IF x \in Watchdogs
                    THEN [view[x] EXCEPT !.status = "failed", !.detail = "timeout_watchdog",
                                         !.reason = "timeout"]
                    ELSE [view[x] EXCEPT !.status = "stopped", !.detail = "none",
                                         !.reason = "user"]
  <2>1. /\ new.agent_runs = view[x].agent_runs
        /\ x \in Watchdogs => /\ new.status = "failed" /\ new.detail = "timeout_watchdog"
                              /\ new.reason = "timeout"
        /\ x \notin Watchdogs => new.status = "stopped" /\ new.reason = "user"
    BY <1>1 DEF Row
  <2>2. /\ view[x].status \notin Terminal /\ view[x].reason = "none"
        /\ view[x].detail # "timeout_watchdog"
    BY <1>1, <1>2 DEF CloserWrites, RecordInv, SessionInv, Fresh, Active
  <2>3. row' = Flush(view[x], new) /\ UNCHANGED by
    BY <1>2 DEF CloserWrites
  <2> HIDE DEF new
  <2>4. /\ row'.status = new.status /\ row'.reason = new.reason
        /\ row'.agent_runs = row.agent_runs
        /\ x \in Watchdogs => row'.detail = new.detail
    BY <2>1, <2>2, <2>3 DEF Flush, Dirty, Terminal
  <2> QED
    BY <1>1, <2>1, <2>3, <2>4 DEF Written, Entered, ClosedFor
<1>3. CASE CloserLoads(x) \/ CloserStopsAgents(x)
  BY <1>1, <1>3 DEF CloserLoads, CloserStopsAgents, Written, Entered, Untouched
<1> QED
  BY <1>2, <1>3 DEF Close

LEMMA ReadWrites ==
    ASSUME DispatchInv, RecordInv, NEW x \in Readers, Read(x)
    PROVE  Written
<1>1. /\ x \in Actors /\ row \in Row /\ view[x] \in Row /\ got[x] \in Entries
      /\ Good(row.agent_runs) /\ Good(view[x].agent_runs) /\ Truthful(got[x])
  BY ActorsTyped DEF DispatchInv, TypeOK, RecordInv, SessionInv, EntriesInv
<1>2. ASSUME UNCHANGED <<row, by>>
      PROVE  Written
  BY <1>1, <1>2 DEF Written, Entered, Untouched
<1>3. CASE ReaderWrites(x) /\ ~(Saw(got[x], "blank") \/ Saw(got[x], "running"))
  <2> DEFINE verdict == Aggregate(got[x])
  <2>1. verdict \in Terminal
    BY <1>3, AggregateEnds
  <2>2. by' = "sync" /\ pc[x] = "fetched"
    BY <1>3 DEF ReaderWrites
  <2>3. PICK why \in {"agent_error", view[x].reason} :
          row' \in Saves(view[x], Outcome(view[x], verdict, got[x], why))
    BY <1>3 DEF ReaderWrites
  <2> HIDE DEF verdict
  <2>4. Named(got[x]) # {} /\ Settled(Named(got[x])) /\ Good(got[x])
    BY <1>1, <2>2 DEF RecordInv, EntriesInv, Good
  <2>5. \A a \in Named(got[x]) : got[x][a] \in Terminal
    BY <1>1, <1>3 DEF Saw, Named, Entries, EntryStatus
  <2>6. AllEnded
    BY <1>1, <2>4, <2>5, EntriesEnded
  <2>7. /\ row'.status \in {row.status, verdict}
        /\ view[x].status # verdict => row'.status = verdict
        /\ row'.reason \in {row.reason, "none", why}
        /\ row'.agent_runs \in {row.agent_runs, got[x]}
    BY <2>3, OutcomeWritten
  <2>8. row'.status \in Terminal
    BY <1>1, <2>1, <2>7 DEF RecordInv, SessionInv, Active, Row
  <2> QED
    BY <1>1, <2>2, <2>3, <2>4, <2>6, <2>7, <2>8 DEF Written, Entered, Judged
<1>4. CASE ReaderWrites(x) /\ (Saw(got[x], "blank") \/ Saw(got[x], "running"))
  BY <1>2, <1>4 DEF ReaderWrites
<1>5. CASE ReaderLoads(x) \/ ReaderFetches(x)
  BY <1>2, <1>5 DEF ReaderLoads, ReaderFetches
<1> QED
  BY <1>3, <1>4, <1>5 DEF Read

LEMMA StepWrites ==
    ASSUME DispatchInv, RecordInv, [Next]_vars
    PROVE  Written
<1>1. CASE Environment \/ UNCHANGED vars
  <2>1. UNCHANGED <<row, by>>
    BY <1>1 DEF Environment, AgentEnds, AgentStops, AgentRestarts, PollClock, WatchdogClock,
                vars
  <2> QED
    BY <2>1 DEF Written, Entered, Untouched, RecordInv, EntriesInv
<1> QED
  BY <1>1, DispatchWrites, PollWrites, CloseWrites, ReadWrites DEF Next

-----------------------------------------------------------------------------
(* The sessions *)

\* The sessions of the other actors are left alone.
Alone(x) ==
    \A y \in Actors \ {x} : pc'[y] = pc[y] /\ view'[y] = view[y] /\ got'[y] = got[y]

LEMMA AloneBy ==
    ASSUME TypeOK, NEW x \in Actors, \E label : Goto(x, label),
           \/ UNCHANGED view
           \/ \E v : view' = [view EXCEPT ![x] = v],
           \/ UNCHANGED got
           \/ \E E : got' = [got EXCEPT ![x] = E]
    PROVE  Alone(x)
BY DEF Alone, TypeOK, Goto

\* What a step of the actor x does to its own session.
Loads(x) == view'[x] \in {view[x], row, row', NewRow}
Fetches(x) ==
    \/ got'[x] \in {got[x], NoEntries}
    \/ UNCHANGED fleet /\ \E targets \in SUBSET Agents : Fetch(x, targets)

LEMMA DispatchAlone ==
    ASSUME TypeOK, NEW d \in Deliveries, Dispatch(d)
    PROVE  /\ Loads(d) /\ Fetches(d)
           /\ \/ Alone(d)
              \/ /\ StartPolling(d) /\ UNCHANGED got
                 /\ pc' = [pc EXCEPT ![d] = "done", ![Poller] = "due"]
                 /\ \A y \in Actors \ {d} : view'[y] = view[y]
<1>1. d \in Actors
  BY ActorsTyped
<1> USE DEF local, session
<1>2. CASE Claim(d)
  <2>1. \E label : Goto(d, label)
    BY <1>2 DEF Claim
  <2>2. UNCHANGED got /\ (UNCHANGED view \/ view' = [view EXCEPT ![d] = row'])
    BY <1>2 DEF Claim
  <2> QED
    BY <1>1, <2>1, <2>2, AloneBy DEF Loads, Fetches, TypeOK
<1>3. CASE \/ PrepareFails(d) \/ NoAgents(d) \/ DispatchRaises(d) \/ StartPollingFails(d)
           \/ WorkerDies(d)
  <2>1. \E label : Leave(d, label)
    BY <1>3 DEF PrepareFails, NoAgents, DispatchRaises, StartPollingFails, WorkerDies,
                Requeue
  <2> QED
    BY <1>1, <2>1, AloneBy DEF Leave, Loads, Fetches, TypeOK
<1>4. CASE \/ SelectAgents(d) \/ LaunchWave(d) \/ Abort(d) \/ PersistAborted(d)
           \/ PersistLaunched(d) \/ ClearDetail(d)
  <2>1. UNCHANGED <<view, got>> /\ \E label : Goto(d, label)
    BY <1>4 DEF SelectAgents, LaunchWave, Abort, PersistAborted, PersistLaunched, ClearDetail
  <2> QED
    BY <1>1, <2>1, AloneBy DEF Loads, Fetches
<1>5. CASE CheckStopped(d)
  <2>1. \E label : Goto(d, label)
    BY <1>5 DEF CheckStopped, Leave
  <2>2. \/ UNCHANGED got /\ view' = [view EXCEPT ![d] = row]
        \/ view' = [view EXCEPT ![d] = NewRow] /\ got' = [got EXCEPT ![d] = NoEntries]
    BY <1>5 DEF CheckStopped, Load, Leave
  <2> QED
    BY <1>1, <2>1, <2>2, AloneBy DEF Loads, Fetches, TypeOK
<1>6. CASE StartPolling(d)
  BY <1>1, <1>6 DEF StartPolling, Loads, Fetches, TypeOK
<1> QED
  BY <1>2, <1>3, <1>4, <1>5, <1>6, AloneBy
     DEF Dispatch

LEMMA PollAlone ==
    ASSUME TypeOK, Poll
    PROVE  Loads(Poller) /\ Fetches(Poller) /\ Alone(Poller)
<1>1. Poller \in Actors
  BY ActorsTyped
<1> USE DEF local, session
<1>2. CASE PollFetch \/ EvidenceFetch
  <2>1. UNCHANGED <<view, fleet>> /\ Fetch(Poller, Agents) /\ \E label : Goto(Poller, label)
    BY <1>2 DEF PollFetch, EvidenceFetch
  <2> QED
    BY <1>1, <2>1, AloneBy DEF Loads, Fetches, Fetch
<1>3. CASE \/ PollFinishes \/ PollDecides \/ EvidenceFinishes \/ EvidenceKeepsRunning
           \/ PollDies
  <2>1. \E label : Leave(Poller, label)
    BY <1>3 DEF PollFinishes, PollDecides, EvidenceFinishes, EvidenceKeepsRunning, PollDies,
                Reschedule
  <2> QED
    BY <1>1, <2>1, AloneBy DEF Leave, Loads, Fetches, TypeOK
<1>4. CASE PollLoad \/ PollRaises \/ PollUnsent
  <2>1. \E label : Goto(Poller, label)
    BY <1>4 DEF PollLoad, PollRaises, PollUnsent, Leave
  <2>2. \/ UNCHANGED got /\ UNCHANGED view
        \/ UNCHANGED got /\ view' = [view EXCEPT ![Poller] = row]
        \/ view' = [view EXCEPT ![Poller] = NewRow] /\ got' = [got EXCEPT ![Poller] = NoEntries]
    BY <1>4 DEF PollLoad, PollRaises, PollUnsent, Load, Leave
  <2> QED
    BY <1>1, <2>1, <2>2, AloneBy DEF Loads, Fetches, TypeOK
<1>5. CASE PollSaves \/ PollStopsAgents \/ PollTimesOut \/ EvidenceStopsAgents
  <2>1. UNCHANGED <<view, got>> /\ \E label : Goto(Poller, label)
    BY <1>5 DEF PollSaves, PollStopsAgents, PollTimesOut, EvidenceStopsAgents
  <2> QED
    BY <1>1, <2>1, AloneBy DEF Loads, Fetches
<1> QED
  BY <1>2, <1>3, <1>4, <1>5 DEF Poll

LEMMA CloseAlone ==
    ASSUME TypeOK, NEW x \in Closers, Close(x)
    PROVE  /\ Loads(x) /\ Fetches(x) /\ Alone(x)
           /\ pc'[x] \in {"loaded", "stopped"} =>
                 \/ Active(row) /\ view'[x] = row
                 \/ pc[x] = "loaded" /\ view'[x] = view[x]
<1>1. x \in Actors
  BY ActorsTyped
<1> USE DEF local, session
<1>2. CASE CloserLoads(x)
  BY <1>1, <1>2, AloneBy DEF CloserLoads, Load, Goto, Loads, Fetches, TypeOK
<1>3. CASE CloserStopsAgents(x)
  BY <1>1, <1>3, AloneBy DEF CloserStopsAgents, Goto, Loads, Fetches, TypeOK
<1>4. CASE CloserWrites(x)
  <2>1. \E label \in {"idle", "done"} : Leave(x, label)
    BY <1>4 DEF CloserWrites
  <2> QED
    BY <1>1, <2>1, AloneBy DEF Leave, Goto, Loads, Fetches, TypeOK
<1> QED
  BY <1>2, <1>3, <1>4 DEF Close

LEMMA ReadAlone ==
    ASSUME TypeOK, NEW x \in Readers, Read(x)
    PROVE  /\ Loads(x) /\ Fetches(x) /\ Alone(x)
           /\ pc'[x] \in {"loaded", "fetched"} =>
                 \/ pc'[x] = "loaded" /\ Contexts(row) # {} /\ view'[x] = row
                 \/ /\ pc[x] = "loaded" /\ pc'[x] = "fetched" /\ view'[x] = view[x]
                    /\ Fetch(x, Contexts(view[x]))
<1>1. x \in Actors
  BY ActorsTyped
<1> USE DEF local, session
<1>2. CASE ReaderLoads(x)
  BY <1>1, <1>2, AloneBy DEF ReaderLoads, Load, Goto, Loads, Fetches, TypeOK
<1>3. CASE ReaderFetches(x)
  <2>1. Contexts(view[x]) \in SUBSET Agents
    BY <1>1 DEF Contexts, TypeOK, Row, Entries
  <2>2. /\ UNCHANGED <<view, fleet>> /\ Fetch(x, Contexts(view[x])) /\ Goto(x, "fetched")
        /\ pc[x] = "loaded"
    BY <1>3 DEF ReaderFetches
  <2>3. Alone(x)
    BY <1>1, <2>2, AloneBy DEF Fetch
  <2> QED
    BY <1>1, <2>1, <2>2, <2>3 DEF Goto, Loads, Fetches, TypeOK
<1>4. CASE ReaderWrites(x)
  <2>1. Leave(x, "idle")
    BY <1>4 DEF ReaderWrites
  <2> QED
    BY <1>1, <2>1, AloneBy DEF Leave, Goto, Loads, Fetches, TypeOK
<1> QED
  BY <1>2, <1>3, <1>4 DEF Read

LEMMA StepLoads ==
    ASSUME TypeOK, [Next]_vars, NEW x \in Actors
    PROVE  Loads(x) /\ Fetches(x)
<1>1. CASE \E d \in Deliveries : Dispatch(d)
  <2>1. PICK d \in Deliveries : Dispatch(d)
    BY <1>1
  <2>2. CASE x = d
    BY <2>1, <2>2, DispatchAlone
  <2>3. CASE x # d
    BY <2>1, <2>3, DispatchAlone DEF Alone, Loads, Fetches
  <2> QED
    BY <2>2, <2>3
<1>2. CASE Poll
  BY <1>2, PollAlone DEF Alone, Loads, Fetches
<1>3. ASSUME NEW y \in Closers, Close(y)
      PROVE  Loads(x) /\ Fetches(x)
  BY <1>3, CloseAlone DEF Alone, Loads, Fetches
<1>4. ASSUME NEW y \in Readers, Read(y)
      PROVE  Loads(x) /\ Fetches(x)
  BY <1>4, ReadAlone DEF Alone, Loads, Fetches
<1>5. CASE Environment \/ UNCHANGED vars
  <2>1. UNCHANGED <<view, got>>
    BY <1>5 DEF Environment, AgentEnds, AgentStops, AgentRestarts, PollClock, WatchdogClock,
                vars, local, session
  <2> QED
    BY <2>1 DEF Loads, Fetches
<1> QED
  BY <1>1, <1>2, <1>3, <1>4, <1>5 DEF Next

\* The poller's session: where it holds an active row, and answers of all agents.
LEMMA PollerStep ==
    ASSUME TypeOK, [Next]_vars
    PROVE  /\ pc'[Poller] # "off" =>
                 \/ pc[Poller] # "off"
                 \/ \E d \in Deliveries : pc[d] = "sending" /\ pc'[d] = "done" /\ UNCHANGED acked
           /\ pc'[Poller] \in {"loaded", "fetched"} =>
                 \/ pc[Poller] \in {"loaded", "fetched"} /\ view'[Poller] = view[Poller]
                 \/ Active(row) /\ view'[Poller] = row
           /\ pc'[Poller] \in {"fetched", "verdict", "reverdict"} =>
                 \/ pc[Poller] \in {"fetched", "verdict", "reverdict"}
                    /\ got'[Poller] = got[Poller]
                 \/ Fetch(Poller, Agents)
           /\ pc'[Poller] = "expired" => pc[Poller] = "expired" \/ StopAgents(Agents)
<1> DEFINE Step ==
      /\ pc'[Poller] # "off" =>
            \/ pc[Poller] # "off"
            \/ \E d \in Deliveries : pc[d] = "sending" /\ pc'[d] = "done" /\ UNCHANGED acked
      /\ pc'[Poller] \in {"loaded", "fetched"} =>
            \/ pc[Poller] \in {"loaded", "fetched"} /\ view'[Poller] = view[Poller]
            \/ Active(row) /\ view'[Poller] = row
      /\ pc'[Poller] \in {"fetched", "verdict", "reverdict"} =>
            \/ pc[Poller] \in {"fetched", "verdict", "reverdict"} /\ got'[Poller] = got[Poller]
            \/ Fetch(Poller, Agents)
      /\ pc'[Poller] = "expired" => pc[Poller] = "expired" \/ StopAgents(Agents)
<1>1. Poller \in Actors /\ pc \in [Actors -> Label]
  BY ActorsTyped DEF TypeOK
<1>2. ASSUME pc'[Poller] = pc[Poller], view'[Poller] = view[Poller], got'[Poller] = got[Poller]
      PROVE  Step
  BY <1>2
<1>3. ASSUME NEW d \in Deliveries, Dispatch(d)
      PROVE  Step
  <2>1. CASE Alone(d)
    BY <1>1, <1>2, <2>1, ActorsTyped DEF Alone
  <2>2. CASE ~Alone(d)
    <3>1. /\ StartPolling(d) /\ UNCHANGED got
          /\ pc' = [pc EXCEPT ![d] = "done", ![Poller] = "due"]
      BY <1>3, <2>2, DispatchAlone
    <3>2. pc[d] = "sending" /\ UNCHANGED acked
      BY <3>1 DEF StartPolling
    <3>3. pc'[d] = "done" /\ pc'[Poller] = "due"
      BY <1>1, <3>1, ActorsTyped
    <3> QED
      BY <3>2, <3>3
  <2> QED
    BY <2>1, <2>2
<1>4. CASE Poll
  <2> USE DEF local, session
  <2>1. CASE PollLoad
    BY <1>1, <2>1 DEF PollLoad, Load, Goto, TypeOK
  <2>2. CASE PollFetch
    BY <1>1, <2>2 DEF PollFetch, Goto
  <2>3. CASE EvidenceFetch
    BY <1>1, <2>3 DEF EvidenceFetch, Goto
  <2>4. CASE PollFinishes \/ PollDies \/ EvidenceFinishes \/ EvidenceKeepsRunning \/ PollDecides
    <3>1. pc[Poller] # "off" /\ \E label \in {"off", "due", "expire"} : Goto(Poller, label)
      BY <2>4 DEF PollFinishes, PollDies, EvidenceFinishes, EvidenceKeepsRunning, PollDecides,
                  Reschedule, Leave
    <3> QED
      BY <1>1, <3>1 DEF Goto
  <2>5. CASE PollSaves \/ PollTimesOut \/ EvidenceStopsAgents \/ PollRaises \/ PollUnsent
    <3>1. /\ pc[Poller] # "off"
          /\ \E label \in {"decide", "off", "recheck", "evidence", "due"} : Goto(Poller, label)
      BY <2>5 DEF PollSaves, PollTimesOut, EvidenceStopsAgents, PollRaises, PollUnsent, Leave
    <3> QED
      BY <1>1, <3>1 DEF Goto
  <2>6. CASE PollStopsAgents
    BY <1>1, <2>6 DEF PollStopsAgents, Goto
  <2> QED
    BY <1>4, <2>1, <2>2, <2>3, <2>4, <2>5, <2>6 DEF Poll
<1>5. ASSUME NEW y \in Closers \cup Readers, Close(y) \/ Read(y), Alone(y)
      PROVE  Step
  <2>1. y # Poller
    BY ActorsAssumption
  <2> QED
    BY <1>1, <1>2, <1>5, <2>1 DEF Alone
<1>6. CASE Environment \/ UNCHANGED vars
  <2>1. UNCHANGED <<view, got, pc>>
    BY <1>6 DEF Environment, AgentEnds, AgentStops, AgentRestarts, PollClock, WatchdogClock,
                vars, local, session
  <2> QED
    BY <1>2, <2>1
<1>7. ASSUME NEW y \in Closers, Close(y)
      PROVE  Step
  BY <1>5, <1>7, CloseAlone
<1>8. ASSUME NEW y \in Readers, Read(y)
      PROVE  Step
  BY <1>5, <1>8, ReadAlone
<1> QED
  BY <1>3, <1>4, <1>6, <1>7, <1>8 DEF Next

\* A reader holds a row with entries, and answers for those.
LEMMA ReaderStep ==
    ASSUME TypeOK, [Next]_vars, NEW x \in Readers, pc'[x] \in {"loaded", "fetched"}
    PROVE  \/ pc'[x] = pc[x] /\ view'[x] = view[x] /\ got'[x] = got[x]
           \/ pc'[x] = "loaded" /\ Contexts(row) # {} /\ view'[x] = row
           \/ /\ pc[x] = "loaded" /\ pc'[x] = "fetched" /\ view'[x] = view[x]
              /\ Fetch(x, Contexts(view[x]))
<1>1. x \in Actors /\ x \notin Deliveries \cup Closers \cup {Poller}
  BY ActorsTyped, ActorsAssumption
<1>2. ASSUME NEW d \in Deliveries, Dispatch(d)
      PROVE  pc'[x] = pc[x] /\ view'[x] = view[x] /\ got'[x] = got[x]
  <2>1. CASE Alone(d)
    BY <1>1, <2>1 DEF Alone
  <2>2. CASE ~Alone(d)
    BY <1>1, <1>2, <2>2, DispatchAlone DEF TypeOK
  <2> QED
    BY <2>1, <2>2
<1>3. CASE Poll
  BY <1>1, <1>3, PollAlone DEF Alone
<1>4. ASSUME NEW y \in Closers, Close(y)
      PROVE  pc'[x] = pc[x] /\ view'[x] = view[x] /\ got'[x] = got[x]
  BY <1>1, <1>4, CloseAlone DEF Alone
<1>5. ASSUME NEW y \in Readers, Read(y), y # x
      PROVE  pc'[x] = pc[x] /\ view'[x] = view[x] /\ got'[x] = got[x]
  BY <1>1, <1>5, ReadAlone DEF Alone
<1>6. CASE Environment \/ UNCHANGED vars
  BY <1>6 DEF Environment, AgentEnds, AgentStops, AgentRestarts, PollClock, WatchdogClock,
              vars, local, session
<1> QED
  BY <1>2, <1>3, <1>4, <1>5, <1>6, ReadAlone DEF Next

LEMMA CloserStep ==
    ASSUME TypeOK, [Next]_vars, NEW x \in Closers, pc'[x] \in {"loaded", "stopped"}
    PROVE  \/ pc[x] \in {"loaded", "stopped"} /\ view'[x] = view[x]
           \/ Active(row) /\ view'[x] = row
<1>1. x \in Actors /\ x \notin Deliveries \cup Readers \cup {Poller}
  BY ActorsTyped, ActorsAssumption
<1>2. ASSUME NEW d \in Deliveries, Dispatch(d)
      PROVE  pc'[x] = pc[x] /\ view'[x] = view[x]
  <2>1. CASE Alone(d)
    BY <1>1, <2>1 DEF Alone
  <2>2. CASE ~Alone(d)
    BY <1>1, <1>2, <2>2, DispatchAlone DEF TypeOK
  <2> QED
    BY <2>1, <2>2
<1>3. CASE Poll
  BY <1>1, <1>3, PollAlone DEF Alone
<1>4. ASSUME NEW y \in Readers, Read(y)
      PROVE  pc'[x] = pc[x] /\ view'[x] = view[x]
  BY <1>1, <1>4, ReadAlone DEF Alone
<1>5. ASSUME NEW y \in Closers, Close(y), y # x
      PROVE  pc'[x] = pc[x] /\ view'[x] = view[x]
  BY <1>1, <1>5, CloseAlone DEF Alone
<1>6. CASE Environment \/ UNCHANGED vars
  BY <1>6 DEF Environment, AgentEnds, AgentStops, AgentRestarts, PollClock, WatchdogClock,
              vars, local, session
<1> QED
  BY <1>2, <1>3, <1>4, <1>5, <1>6, CloseAlone DEF Next

-----------------------------------------------------------------------------
(* The invariant is kept *)

LEMMA RecordInvInit == Init => RecordInv
<1> SUFFICES ASSUME Init PROVE RecordInv
  OBVIOUS
<1>1. /\ row = NewRow /\ pc[Poller] = "off" /\ by = "none"
      /\ \A d \in Deliveries : pc[d] = "queued" /\ start[d] = 0 /\ acked[d] = {}
      /\ \A x \in Actors : view[x] = NewRow /\ got[x] = NoEntries
      /\ \A x \in Closers \cup Readers : pc[x] = "idle"
      /\ \A a \in Agents : agent[a] = "idle" /\ launches[a] = 0
      /\ stopping = {}
  BY ActorsTyped, ActorsAssumption DEF Init
<1>2. Named(NoEntries) = {} /\ Truthful(NoEntries) /\ NewRow.agent_runs = NoEntries
  BY DEF Named, Truthful, NoEntries, NewRow, Terminal
<1>3. /\ Fresh(NewRow) /\ Active(NewRow) /\ NewRow.status = "preparing"
      /\ NewRow.reason = "none"
  BY DEF Fresh, Active, NewRow, Terminal
<1>4. LaunchInv /\ AgentInv
  BY <1>1, <1>3 DEF LaunchInv, AgentInv
<1>5. EntriesInv
  BY <1>1, <1>2 DEF EntriesInv, Good
<1>6. SessionInv
  BY <1>1, <1>3 DEF SessionInv
<1>7. SuccessInv /\ TimeoutInv
  BY <1>1, <1>3 DEF SuccessInv, TimeoutInv
<1> QED
  BY <1>4, <1>5, <1>6, <1>7 DEF RecordInv

\* What an actor has fetched is true, and of the agents that it asked.
LEMMA FetchedTrue ==
    ASSUME TypeOK, NEW x \in Actors, NEW targets \in SUBSET Agents, Fetch(x, targets)
    PROVE  Truthful(got'[x]) /\ Named(got'[x]) = targets
<1>1. PICK reached \in SUBSET {a \in targets : agent[a] \notin {"idle", "gone"}} :
        got' = [got EXCEPT ![x] = [a \in Agents |->
                   IF a \in reached THEN agent[a]
                   ELSE IF a \in targets THEN "blank" ELSE "absent"]]
  BY DEF Fetch
<1>2. \A a \in Agents : got'[x][a] = IF a \in reached THEN agent[a]
                                     ELSE IF a \in targets THEN "blank" ELSE "absent"
  BY <1>1 DEF TypeOK
<1>3. \A a \in Agents : agent[a] # "absent"
  BY DEF TypeOK, AgentStatus, Terminal
<1>4. Truthful(got'[x])
  BY <1>2 DEF Truthful, Ended, Terminal
<1> QED
  BY <1>1, <1>2, <1>3, <1>4 DEF Named

LEMMA EntriesInvNext ==
    ASSUME DispatchInv, RecordInv, [Next]_vars
    PROVE  EntriesInv'
<1>1. TypeOK /\ LaunchInv /\ AgentInv /\ EntriesInv
  BY DEF DispatchInv, RecordInv
<1>2. PICK E : Good(E) /\ row'.agent_runs = E
  BY StepWrites DEF Written, Entered
<1>3. Good(E)'
  BY <1>1, <1>2, GoodKept
<1>4. (Good(row.agent_runs))'
  BY <1>2, <1>3 DEF Good, Truthful, Named, Settled
<1>5. ASSUME NEW x \in Actors
      PROVE  (Good(view[x].agent_runs))'
  <2>1. \E F : Good(F) /\ view'[x].agent_runs = F
    <3>1. Good(NewRow.agent_runs)
      BY DEF Good, Named, Truthful, NoEntries, NewRow, Terminal
    <3> QED
      BY <1>1, <1>2, <3>1, StepLoads DEF Loads, EntriesInv
  <2>2. PICK F : Good(F) /\ view'[x].agent_runs = F
    BY <2>1
  <2>3. Good(F)'
    BY <1>1, <2>2, GoodKept
  <2> QED
    BY <2>2, <2>3 DEF Good, Truthful, Named, Settled
<1>6. ASSUME NEW x \in Actors
      PROVE  (Truthful(got[x]))'
  <2>1. CASE got'[x] \in {got[x], NoEntries}
    <3>1. Truthful(got'[x])
      BY <1>1, <2>1 DEF EntriesInv, Truthful, NoEntries, Terminal
    <3> QED
      BY <1>1, <3>1, AgentStep DEF Truthful
  <2>2. CASE UNCHANGED fleet /\ \E targets \in SUBSET Agents : Fetch(x, targets)
    <3>1. Truthful(got'[x])
      BY <1>1, <2>2, FetchedTrue
    <3> QED
      BY <1>1, <3>1, AgentStep DEF Truthful
  <2> QED
    BY <1>1, <2>1, <2>2, StepLoads DEF Fetches
<1>7. pc'[Poller] # "off" => Settled(Agents)'
  <2>1. CASE pc[Poller] # "off"
    BY <1>1, <2>1, AllSettledKept DEF EntriesInv
  <2>2. ASSUME NEW d \in Deliveries, pc[d] = "sending", pc'[d] = "done", UNCHANGED acked
        PROVE  Settled(Agents)'
    <3>1. acked'[d] = Agents
      BY <1>1, <2>2 DEF LaunchInv
    <3> QED
      BY <2>2, <3>1 DEF Settled
  <2> QED
    BY <1>1, <2>1, <2>2, PollerStep
<1>8. pc'[Poller] \in {"fetched", "verdict", "reverdict"} => Named(got'[Poller]) = Agents
  <2>1. Fetch(Poller, Agents) => Named(got'[Poller]) = Agents
    BY <1>1, ActorsTyped, FetchedTrue
  <2> QED
    BY <1>1, <2>1, PollerStep DEF EntriesInv
<1>9. ASSUME NEW x \in Readers
      PROVE  /\ pc'[x] \in {"loaded", "fetched"} => Named(view'[x].agent_runs) # {}
             /\ pc'[x] = "fetched" => Named(got'[x]) = Named(view'[x].agent_runs)
  <2>1. x \in Actors
    BY ActorsTyped
  <2>2. /\ Contexts(row) = Named(row.agent_runs)
        /\ Contexts(view[x]) = Named(view[x].agent_runs) /\ Contexts(view[x]) \in SUBSET Agents
    BY <1>1, <2>1 DEF Contexts, Named, TypeOK, Row, Entries
  <2>3. Fetch(x, Contexts(view[x])) => Named(got'[x]) = Named(view[x].agent_runs)
    BY <1>1, <2>1, <2>2, FetchedTrue
  <2> QED
    BY <1>1, <2>2, <2>3, ReaderStep DEF EntriesInv
<1> QED
  BY <1>4, <1>5, <1>6, <1>7, <1>8, <1>9 DEF EntriesInv, Named

LEMMA SessionInvNext ==
    ASSUME DispatchInv, RecordInv, [Next]_vars
    PROVE  SessionInv'
<1>1. TypeOK /\ SessionInv
  BY DEF DispatchInv, RecordInv
<1>2. Active(row)' => Active(row)
  BY <1>1, StepStatus DEF StatusEnds, Active, Terminal
<1>3. (Fresh(row))'
  BY <1>1, <1>2, StepWrites
     DEF Written, Untouched, Claimed, ClosedFor, Judged, SessionInv, Fresh, Active, Terminal
<1>4. Fresh(NewRow) /\ Active(NewRow)
  BY DEF Fresh, Active, NewRow, Terminal
<1>5. ASSUME NEW x \in Actors
      PROVE  (Fresh(view[x]) /\ (Active(row) => Active(view[x])))'
  <2>1. view'[x] \in {view[x], row, row', NewRow}
    BY <1>1, StepLoads DEF Loads
  <2>2. Fresh(view[x]) /\ (Active(row) => Active(view[x])) /\ Fresh(row)
    BY <1>1 DEF SessionInv
  <2> QED
    BY <1>2, <1>3, <1>4, <2>1, <2>2 DEF Fresh, Active
<1>6. pc'[Poller] \in {"loaded", "fetched"} => Active(view'[Poller])
  BY <1>1, PollerStep DEF SessionInv
<1>7. \A x \in Closers : pc'[x] \in {"loaded", "stopped"} => Active(view'[x])
  BY <1>1, CloserStep DEF SessionInv
<1> QED
  BY <1>3, <1>5, <1>6, <1>7 DEF SessionInv, Active

LEMMA SuccessInvNext ==
    ASSUME DispatchInv, RecordInv, [Next]_vars
    PROVE  SuccessInv'
<1>1. LaunchInv /\ AgentInv /\ SuccessInv
  BY DEF RecordInv
<1>2. AllEnded => AllEnded'
  BY <1>1, AllEndedKept
<1>3. row'.status = "succeeded" /\ by' # "evidence" => AllEnded
  BY <1>1, StepWrites DEF Written, Untouched, Claimed, ClosedFor, Judged, SuccessInv
<1> QED
  BY <1>2, <1>3 DEF SuccessInv

LEMMA TimeoutInvNext ==
    ASSUME DispatchInv, RecordInv, [Next]_vars
    PROVE  TimeoutInv'
<1>1. TypeOK /\ TypeOK' /\ AgentInv /\ TimeoutInv
  BY NextType DEF RecordInv, DispatchInv
<1>2. asked = Agents => asked' = Agents
  BY <1>1, AgentStep DEF TypeOK
<1>3. pc'[Poller] = "expired" => asked' = Agents
  <2>1. StopAgents(Agents) => asked' = Agents
    BY <1>1 DEF StopAgents, TypeOK
  <2> QED
    BY <1>1, <1>2, <2>1, PollerStep DEF TimeoutInv
<1>4. row'.reason = "timeout" /\ row'.detail = "expand_failed" /\ by' = "none" => asked' = Agents
  BY <1>1, <1>2, StepWrites
     DEF Written, Untouched, Claimed, ClosedFor, Judged, TimeoutInv
<1>5. ASSUME Watchdogs = {}, row'.reason = "timeout"
      PROVE  asked = Agents
  BY <1>1, <1>5, StepWrites
     DEF Written, Untouched, Claimed, ClosedFor, Judged, TimeoutInv
<1>6. ASSUME Watchdogs = {}, NEW x \in Actors, view'[x].reason = "timeout"
      PROVE  asked = Agents
  <2>1. NewRow.reason # "timeout"
    BY DEF NewRow
  <2> QED
    BY <1>1, <1>5, <1>6, <2>1, StepLoads DEF Loads, TimeoutInv
<1> QED
  BY <1>2, <1>3, <1>4, <1>5, <1>6 DEF TimeoutInv

LEMMA RecordInvNext == DispatchInv /\ RecordInv /\ [Next]_vars => RecordInv'
<1> SUFFICES ASSUME DispatchInv, RecordInv, [Next]_vars PROVE RecordInv'
  OBVIOUS
<1>1. LaunchInv /\ AgentInv
  BY DEF RecordInv
<1> QED
  BY <1>1, LaunchInvNext, AgentStep, EntriesInvNext, SessionInvNext, SuccessInvNext,
     TimeoutInvNext
     DEF RecordInv

\* What is recorded of a run (test_executor.py, run_service.py): both inductive invariants hold.
THEOREM RecordInvariant == Spec => [](DispatchInv /\ RecordInv)
BY RecordInvInit, RecordInvNext, DispatchInvariant, PTL DEF Spec

-----------------------------------------------------------------------------
(* The theorems *)

\* SucceededMeansIdle: whatever was lost, repeated or overtaken on the way, a run that the
\* poller or a reader has declared succeeded has no recorded agent that still drives load.
THEOREM SuccessIsTrue == Spec => []SucceededMeansIdle
<1>1. DispatchInv /\ RecordInv => SucceededMeansIdle
  <2> SUFFICES ASSUME DispatchInv, RecordInv, row.status = "succeeded", by # "evidence",
                      NEW a \in Contexts(row)
               PROVE  agent[a] # "running"
    BY DEF SucceededMeansIdle
  <2>1. a \in Named(row.agent_runs)
    BY DEF Contexts, Named, DispatchInv, TypeOK, Row, Entries
  <2>2. PICK e \in Deliveries : Named(row.agent_runs) = acked[e]
    BY <2>1 DEF RecordInv, EntriesInv, Good, Settled
  <2>3. PICK d \in Deliveries : acked[d] # {} /\ \A b \in acked[d] : Ended(b)
    BY DEF RecordInv, SuccessInv, AllEnded
  <2>4. d = e
    BY <2>1, <2>2, <2>3 DEF RecordInv, LaunchInv
  <2> QED
    BY <2>1, <2>2, <2>3, <2>4 DEF Ended, Terminal
<1> QED
  BY <1>1, RecordInvariant, PTL

\* FailureStopsAgents: a launch that failed half way, and a timeout of the poller, leave no
\* recorded agent that was not told to stop.
THEOREM FailureIsCleanedUp == Spec => []FailureStopsAgents
<1>1. DispatchInv /\ RecordInv => FailureStopsAgents
  <2> SUFFICES ASSUME DispatchInv, RecordInv PROVE FailureStopsAgents
    OBVIOUS
  <2>1. Contexts(row) = Named(row.agent_runs) /\ DOMAIN agent = Agents
    BY DEF Contexts, Named, DispatchInv, TypeOK, Row, Entries
  <2>2. Contexts(row) # Agents => Contexts(row) \subseteq asked
    BY <2>1 DEF RecordInv, EntriesInv, Good, Settled
  <2>3. /\ row.reason = "timeout" /\ row.detail = "expand_failed"
           /\ (by = "none" \/ Watchdogs = {})
        => asked = Agents
    BY DEF RecordInv, TimeoutInv
  <2>4. Contexts(row) \subseteq Agents
    BY <2>1 DEF Named
  <2> QED
    BY <2>1, <2>2, <2>3, <2>4 DEF FailureStopsAgents
<1> QED
  BY <1>1, RecordInvariant, PTL
=============================================================================
