------------------------ MODULE PlanExecutionProofs -------------------------
(***************************************************************************)
(* Proofs about PlanExecution, for any plan (items, batches, rounds, retry *)
(* counts and failure policies), with and without snapshot reads: its      *)
(* success is earned, a stop is prompt, a round that is lost launches no   *)
(* more items, the plan is given back and few runs are started afterwards. *)
(***************************************************************************)
EXTENDS PlanExecution, FiniteSetTheorems, TLAPS

-----------------------------------------------------------------------------
(* What an executor becomes.  The operators that compute its next local state keep it *)
(* well formed.                                                                       *)

\* An executor about to retry an item has a retry left: the part of the invariant that
\* keeps attempts within their bound.
RetryLeft(me) == me.pc \in {"retry", "recreate"} => me.attempt < MaxRetries
Proper(me) == me \in Executor /\ RetryLeft(me)

LEMMA NewExecutorType == Proper(NewExecutor)
<1>1. TotalRounds \in Nat \ {0} /\ MaxRetries \in Nat /\ Len(Batches) \in Nat \ {0}
  BY PlanAssumption
<1>2. 1 \in Rounds /\ 1 \in 1..Len(Batches) /\ 0 \in 0..MaxRetries
  BY <1>1 DEF Rounds
<1>3. NoSnapshot \in Snapshot
  BY DEF NoSnapshot, Snapshot
<1> QED
  BY <1>2, <1>3 DEF NewExecutor, Executor, Runs, Proper, RetryLeft

LEMMA GoneType ==
    ASSUME NEW label \in {"done", "lost"}
    PROVE  Proper(Gone(label))
BY NewExecutorType DEF Gone, Executor, Proper, RetryLeft

LEMMA LeaveStoppedType ==
    ASSUME NEW me \in Executor
    PROVE  Proper(LeaveStopped(me))
<1>1. 0 \in 0..MaxRetries
  BY PlanAssumption
<1> QED
  BY <1>1 DEF LeaveStopped, Executor, AtWork, Proper, RetryLeft

LEMMA FailsType ==
    ASSUME NEW me \in Executor, NEW i \in Items
    PROVE  Fails(me, i) \in Executor
<1> DEFINE lost == me.roundLost \/ i \in AbortItems
           failed == me.failed \cup {<<me.round, i>>}
<1>1. 0 \in 0..MaxRetries
  BY PlanAssumption
<1>2. lost \in BOOLEAN
  OBVIOUS
<1>3. failed \in SUBSET (Rounds \X Items)
  BY DEF Executor
<1>4. Fails(me, i) = [me EXCEPT !.failed = failed, !.roundLost = lost,
                                !.launching = @ \ {i}, !.todo = @ \ {i},
                                !.attempt = 0, !.result = "none"]
  BY Zenon DEF Fails
<1> HIDE DEF lost, failed
<1>5. [me EXCEPT !.roundLost = lost] \in Executor
  BY <1>2 DEF Executor
<1>6. ASSUME NEW mine \in Executor
      PROVE  [mine EXCEPT !.failed = failed, !.launching = @ \ {i}, !.todo = @ \ {i},
                          !.attempt = 0, !.result = "none"] \in Executor
  BY <1>1, <1>3 DEF Executor
<1>7. Fails(me, i) = [[me EXCEPT !.roundLost = lost] EXCEPT
                         !.failed = failed, !.launching = @ \ {i}, !.todo = @ \ {i},
                         !.attempt = 0, !.result = "none"]
  BY <1>4 DEF Executor
<1> QED
  BY <1>5, <1>6, <1>7

LEMMA NextBatchType ==
    ASSUME NEW me \in Executor
    PROVE  Proper(NextBatch(me))
<1>1. TotalRounds \in Nat \ {0} /\ Len(Batches) \in Nat \ {0}
  BY PlanAssumption
<1>2. me.round \in Rounds /\ me.batch \in 1..Len(Batches)
  BY DEF Executor
<1>3. NoSnapshot \in Snapshot
  BY DEF NoSnapshot, Snapshot
<1>4. Proper([me EXCEPT !.aborted = TRUE, !.pc = "finish"])
  BY DEF Executor, AtWork, Proper, RetryLeft
<1>5. Proper([me EXCEPT !.pc = "finish"])
  BY DEF Executor, AtWork, Proper, RetryLeft
<1>6. ASSUME me.batch < Len(Batches)
      PROVE  Proper([me EXCEPT !.batch = @ + 1, !.pc = "batch"])
  <2>1. me.batch + 1 \in 1..Len(Batches)
    BY <1>1, <1>2, <1>6
  <2> QED
    BY <2>1 DEF Executor, AtWork, Proper, RetryLeft
<1>7. ASSUME me.round < TotalRounds
      PROVE  Proper([me EXCEPT !.round = @ + 1, !.batch = 1, !.roundLost = FALSE,
                               !.pc = "batch", !.snap = NoSnapshot])
  <2>1. me.round + 1 \in Rounds /\ 1 \in 1..Len(Batches)
    BY <1>1, <1>2, <1>7 DEF Rounds
  <2> QED
    BY <2>1, <1>3 DEF Executor, AtWork, Proper, RetryLeft
<1> QED
  BY <1>4, <1>5, <1>6, <1>7 DEF NextBatch

LEMMA NextItemType ==
    ASSUME NEW me \in Executor
    PROVE  Proper(NextItem(me))
<1>1. Proper([me EXCEPT !.pc = "guard"]) /\ Proper([me EXCEPT !.pc = "enter"])
  BY DEF Executor, AtWork, Proper, RetryLeft
<1> QED
  BY <1>1, NextBatchType DEF NextItem

LEMMA GiveUpOrRetryType ==
    ASSUME NEW me \in Executor, NEW i \in Items
    PROVE  Proper(GiveUpOrRetry(me, i))
<1>1. ASSUME me.attempt < Retries(i)
      PROVE  Proper([me EXCEPT !.pc = "retry", !.result = "none"])
  <2>1. me.attempt \in 0..MaxRetries /\ Retries(i) <= MaxRetries
    BY PlanAssumption DEF Executor, Retries
  <2>2. me.attempt < MaxRetries
    BY <1>1, <2>1, PlanAssumption DEF Retries
  <2> QED
    BY <2>2 DEF Executor, AtWork, Proper, RetryLeft
<1> QED
  BY <1>1, FailsType, NextItemType DEF GiveUpOrRetry

-----------------------------------------------------------------------------
(* Type correctness *)

\* The inductive invariant behind it: TypeOK alone does not bound the next attempt,
\* nor say that a reader about to write has a verdict.
TypeInv ==
    /\ TypeOK
    /\ \A x \in Executors : RetryLeft(ex[x])
    /\ \A r \in Readers : reader[r].pc # "idle" => reader[r].verdict \in Terminal

LEMMA SeenType ==
    ASSUME TypeOK, NEW x \in Executors
    PROVE  Seen(x) \in Snapshot /\ Now \in Snapshot /\ NoSnapshot \in Snapshot
<1>1. ex[x].snap \in Snapshot
  BY DEF TypeOK, Executor
<1>2. Now \in Snapshot
  BY DEF Now, Snapshot, TypeOK, PlanRun
<1>3. NoSnapshot \in Snapshot
  BY DEF NoSnapshot, Snapshot
<1> QED
  BY <1>1, <1>2, <1>3 DEF Seen

\* Executors stay well formed when one of them moves.
LEMMA BecomeType ==
    ASSUME TypeInv, NEW x \in Executors, NEW state, Proper(state), Become(x, state)
    PROVE  ex' \in [Executors -> Executor] /\ \A y \in Executors : RetryLeft(ex'[y])
BY DEF Become, TypeInv, TypeOK, Proper

\* The same when none does.
LEMMA StayType ==
    ASSUME TypeInv, ex' = ex
    PROVE  ex' \in [Executors -> Executor] /\ \A y \in Executors : RetryLeft(ex'[y])
BY DEF TypeInv, TypeOK

\* An executor that moves to another place, or looks at the rows.
LEMMA MovesType ==
    ASSUME TypeInv, NEW x \in Executors, NEW snap \in Snapshot,
           NEW pc \in (AtWork \cup {"mark", "begin", "fail", "succeed", "recover"})
                          \ {"retry", "recreate"}
    PROVE  /\ Proper([ex[x] EXCEPT !.pc = pc])
           /\ Proper([ex[x] EXCEPT !.pc = pc, !.snap = snap])
<1>1. ex[x] \in Executor
  BY DEF TypeInv, TypeOK
<1>2. [ex[x] EXCEPT !.pc = pc] \in Executor
  BY <1>1 DEF Executor
<1>3. [ex[x] EXCEPT !.pc = pc, !.snap = snap] \in Executor
  BY <1>1 DEF Executor
<1> QED
  BY <1>1, <1>2, <1>3 DEF Proper, RetryLeft, Executor

LEMMA LooksType ==
    ASSUME TypeInv, NEW x \in Executors, NEW snap \in Snapshot
    PROVE  [ex[x] EXCEPT !.snap = snap] \in Executor
<1>1. ex[x] \in Executor
  BY DEF TypeInv, TypeOK
<1> QED
  BY <1>1 DEF Executor

\* Writing the status column keeps the row and the history well formed.
LEMMA SetStatusType ==
    ASSUME TypeOK, NEW status \in PlanRunStatus, NEW cause \in Cause, SetStatus(status, cause)
    PROVE  planRun' \in PlanRun /\ late' \subseteq Runs
BY DEF SetStatus, Merge, TypeOK, PlanRun, Cause

\* The key of an attempt of an item in the executor's round.
LEMMA KeyType ==
    ASSUME TypeOK, NEW x \in Executors, NEW i \in Items, NEW a \in 0..MaxRetries
    PROVE  Key(x, i, a) \in Runs
<1>1. ex[x].round \in Rounds
  BY DEF TypeOK, Executor
<1> QED
  BY <1>1 DEF Key, Runs

LEMMA CreatedRunType ==
    ASSUME TypeOK, NEW k \in Runs
    PROVE  CreatedRun(k) \in [Runs -> RunStatus]
BY DEF CreatedRun, TypeOK, RunStatus

\* A saved list of runs is the executor's own and one more.
LEMMA SavedIdsType ==
    ASSUME TypeOK, NEW x \in Executors, NEW k \in Runs
    PROVE  /\ ex[x].ids \cup {k} \in SUBSET Runs
           /\ SavedIds(x, ex[x].ids \cup {k}) \in PlanRun
BY DEF SavedIds, TypeOK, PlanRun, Executor

\* What an executor has at hand has its type.
LEMMA AtHand ==
    ASSUME TypeInv, NEW x \in Executors
    PROVE  /\ ex[x] \in Executor /\ RetryLeft(ex[x])
           /\ ex[x].launching \subseteq Items /\ ex[x].todo \subseteq Items
           /\ ex[x].attempt \in 0..MaxRetries /\ 0 \in 0..MaxRetries
BY PlanAssumption DEF TypeInv, TypeOK, Executor

LEMMA ExecuteType ==
    ASSUME TypeInv, NEW x \in Executors, Execute(x)
    PROVE  TypeInv'
<1> USE DEF runs, others
<1> DEFINE me == ex[x]
           ExOK == ex' \in [Executors -> Executor] /\ \A y \in Executors : RetryLeft(ex'[y])
<1>0. TypeOK
  BY DEF TypeInv
<1>s. Seen(x) \in Snapshot /\ Now \in Snapshot /\ NoSnapshot \in Snapshot
  BY <1>0, SeenType
<1>h. /\ me \in Executor /\ RetryLeft(me)
      /\ me.launching \subseteq Items /\ me.todo \subseteq Items
      /\ me.attempt \in 0..MaxRetries /\ 0 \in 0..MaxRetries
  BY AtHand
<1>u. /\ [me EXCEPT !.snap = Seen(x)] \in Executor
      /\ [me EXCEPT !.snap = NoSnapshot] \in Executor
  BY <1>s, LooksType
<1>p. ASSUME NEW state, Proper(state), Become(x, state)
      PROVE  ExOK
  BY <1>p, BecomeType
<1>f. ASSUME ExOK, planRun' \in PlanRun, planStatus' \in {"ready", "running"},
             run' \in [Runs -> RunStatus], started' \subseteq Runs, late' \subseteq Runs,
             UNCHANGED <<won, others>>
      PROVE  TypeInv'
  BY <1>f, <1>0 DEF TypeInv, TypeOK
<1>g. ASSUME ExOK, UNCHANGED <<planRun, late>>, UNCHANGED <<planStatus, runs, others>>
      PROVE  TypeInv'
  BY <1>g, <1>f, <1>0 DEF TypeOK
<1>w. ASSUME ExOK, NEW status \in PlanRunStatus, NEW cause \in Cause,
             SetStatus(status, cause), UNCHANGED <<planStatus, runs, others>>
      PROVE  TypeInv'
  BY <1>w, <1>f, <1>0, SetStatusType DEF TypeOK
<1> HIDE DEF ExOK
<1>1. CASE Enter(x)
  <2>1. Proper(Gone("done")) /\ Proper([me EXCEPT !.pc = "mark"])
    BY GoneType, MovesType, <1>s DEF AtWork
  <2> QED
    BY <1>1, <2>1, <1>p, <1>g DEF Enter
<1>2. CASE MarkPlan(x)
  <2>1. Proper([me EXCEPT !.pc = "begin"])
    BY MovesType, <1>s DEF AtWork
  <2> QED
    BY <1>2, <2>1, <1>p, <1>f, <1>0 DEF MarkPlan, TypeOK
<1>3. CASE Begin(x)
  <2>1. Proper([me EXCEPT !.pc = "batch"])
    BY MovesType, <1>s DEF AtWork
  <2> QED
    BY <1>3, <2>1, <1>p, <1>w DEF Begin, PlanRunStatus, Cause
<1>4. CASE OpenBatch(x)
  <2> DEFINE batch == Batches[me.batch]
  <2>1. Proper(LeaveStopped([me EXCEPT !.snap = NoSnapshot]))
        /\ Proper(NextBatch([me EXCEPT !.snap = NoSnapshot]))
    BY <1>u, LeaveStoppedType, NextBatchType
  <2>2. Proper([me EXCEPT !.pc = "guard", !.launching = batch])
    <3>1. batch \subseteq Items
      BY <1>h, PlanAssumption DEF Executor
    <3> HIDE DEF batch
    <3> QED
      BY <3>1, <1>h DEF Proper, RetryLeft, Executor, AtWork
  <2> QED
    BY <1>4, <2>1, <2>2, <1>p, <1>g DEF OpenBatch
<1>5. CASE GuardItem(x)
  <2>1. Proper(LeaveStopped([me EXCEPT !.snap = Seen(x)]))
        /\ Proper([me EXCEPT !.pc = "create", !.snap = Seen(x)])
    BY <1>u, <1>s, LeaveStoppedType, MovesType DEF AtWork
  <2> QED
    BY <1>5, <2>1, <1>p, <1>g DEF GuardItem
<1>6. CASE CreateItem(x)
  <2>1. PICK i \in me.launching :
           /\ run' = CreatedRun(Key(x, i, 0))
           /\ planRun' = SavedIds(x, me.ids \cup {Key(x, i, 0)})
           /\ Become(x, [me EXCEPT !.pc = "check", !.ids = me.ids \cup {Key(x, i, 0)},
                                   !.snap = NoSnapshot])
    BY <1>6 DEF CreateItem
  <2>2. Key(x, i, 0) \in Runs
    BY <1>0, <1>h, KeyType
  <2>3. Proper([me EXCEPT !.pc = "check", !.ids = me.ids \cup {Key(x, i, 0)},
                          !.snap = NoSnapshot])
    <3>1. me.ids \cup {Key(x, i, 0)} \in SUBSET Runs
      BY <1>0, <2>2, SavedIdsType
    <3> QED
      BY <3>1, <1>h, <1>s DEF Proper, RetryLeft, Executor, AtWork
  <2>4. run' \in [Runs -> RunStatus] /\ planRun' \in PlanRun
    BY <1>0, <2>1, <2>2, CreatedRunType, SavedIdsType
  <2> QED
    BY <1>6, <2>1, <2>3, <2>4, <1>p, <1>f, <1>0 DEF CreateItem, TypeOK
<1>7. CASE CreateItemFails(x)
  <2>1. PICK i \in me.launching :
           Become(x, NextItem(Fails([me EXCEPT !.snap = NoSnapshot], i)))
    BY <1>7 DEF CreateItemFails
  <2>2. Proper(NextItem(Fails([me EXCEPT !.snap = NoSnapshot], i)))
    BY <1>u, <1>h, FailsType, NextItemType
  <2>3. planRun' \in PlanRun
    BY <1>7, <1>0 DEF CreateItemFails, TypeOK, PlanRun, Cause
  <2> QED
    BY <1>7, <2>1, <2>2, <2>3, <1>p, <1>f, <1>0 DEF CreateItemFails, TypeOK
<1>8. CASE CheckItem(x)
  <2>1. Proper(LeaveStopped(me)) /\ Proper([me EXCEPT !.pc = "start", !.snap = Now])
    BY <1>h, <1>s, LeaveStoppedType, MovesType DEF AtWork
  <2>2. ExOK
    BY <1>8, <2>1, <1>p DEF CheckItem
  <2>3. run' \in [Runs -> RunStatus]
    <3>1. PICK i \in me.launching :
             run' = [run EXCEPT ![Key(x, i, 0)] = "stopped"] \/ run' = run
      BY <1>8 DEF CheckItem
    <3> QED
      BY <3>1, <1>0 DEF TypeOK, RunStatus, RunEnded
  <2> QED
    BY <1>8, <2>2, <2>3, <1>f, <1>0 DEF CheckItem, TypeOK
<1>9. CASE StartItem(x)
  <2>1. PICK i \in me.launching :
           /\ Start(Key(x, i, 0))
           /\ Become(x, NextItem([me EXCEPT !.launching = @ \ {i}, !.todo = @ \cup {i}]))
    BY <1>9 DEF StartItem
  <2>2. Proper(NextItem([me EXCEPT !.launching = @ \ {i}, !.todo = @ \cup {i}]))
    <3>1. [me EXCEPT !.launching = @ \ {i}, !.todo = @ \cup {i}] \in Executor
      BY <1>h DEF Executor
    <3> QED
      BY <3>1, NextItemType
  <2>3. Key(x, i, 0) \in Runs
    BY <1>0, <1>h, KeyType
  <2>4. started' \subseteq Runs /\ late' \subseteq Runs
    BY <1>0, <2>1, <2>3 DEF Start, TypeOK
  <2> QED
    BY <1>9, <2>1, <2>2, <2>4, <1>p, <1>f, <1>0 DEF StartItem, TypeOK
<1>10. CASE EnterWait(x)
  <2>1. Proper([me EXCEPT !.pc = "wait", !.snap = Seen(x)])
    BY <1>s, MovesType DEF AtWork
  <2> QED
    BY <1>10, <2>1, <1>p, <1>g DEF EnterWait
<1>11. CASE Wait(x)
  <2>1. PICK result \in RunEnded :
           Become(x, [me EXCEPT !.pc = "decide", !.result = result])
    BY <1>11 DEF Wait, RunEnded
  <2>2. Proper([me EXCEPT !.pc = "decide", !.result = result])
    BY <1>h DEF Executor, Proper, RetryLeft, AtWork
  <2> QED
    BY <1>11, <2>1, <2>2, <1>p, <1>g DEF Wait
<1>12. CASE DecideSucceeded(x)
  <2>1. PICK i \in me.todo :
           Become(x, NextItem([me EXCEPT !.todo = @ \ {i}, !.attempt = 0,
                                         !.result = "none", !.snap = NoSnapshot]))
    BY <1>12 DEF DecideSucceeded
  <2>2. [me EXCEPT !.todo = @ \ {i}, !.attempt = 0, !.result = "none",
                   !.snap = NoSnapshot] \in Executor
    BY <1>h, <1>s DEF Executor
  <2>3. Proper(NextItem([me EXCEPT !.todo = @ \ {i}, !.attempt = 0,
                                   !.result = "none", !.snap = NoSnapshot]))
    BY <2>2, NextItemType
  <2> QED
    BY <1>12, <2>1, <2>3, <1>p, <1>g DEF DecideSucceeded
<1>13. CASE DecideFailed(x)
  <2>1. PICK i \in me.todo : Become(x, GiveUpOrRetry(me, i))
    BY <1>13 DEF DecideFailed
  <2>2. Proper(GiveUpOrRetry(me, i))
    BY <1>h, GiveUpOrRetryType
  <2> QED
    BY <1>13, <2>1, <2>2, <1>p, <1>g DEF DecideFailed
<1>14. CASE DecideStopped(x)
  <2>1. /\ Proper(LeaveStopped([me EXCEPT !.snap = Seen(x)]))
        /\ Proper(LeaveStopped([me EXCEPT !.snap = NoSnapshot]))
        /\ \A i \in me.todo : Proper(GiveUpOrRetry([me EXCEPT !.snap = Seen(x)], i))
    BY <1>u, <1>h, LeaveStoppedType, GiveUpOrRetryType
  <2>2. ExOK
    BY <1>14, <2>1, <1>p DEF DecideStopped, StopFromChildRun
  <2>3. UNCHANGED <<planRun, late>> \/ SetStatus("stopped", "none")
    BY <1>14 DEF DecideStopped, StopFromChildRun
  <2> QED
    BY <1>14, <2>2, <2>3, <1>g, <1>w
       DEF DecideStopped, PlanRunStatus, Terminal, Cause
<1>15. CASE GuardRetry(x)
  <2>1. Proper(LeaveStopped([me EXCEPT !.snap = Seen(x)]))
    BY <1>u, LeaveStoppedType
  <2>2. Proper([me EXCEPT !.pc = "recreate", !.snap = Seen(x)])
    BY <1>15, <1>h, <1>s DEF GuardRetry, Executor, Proper, RetryLeft, AtWork
  <2> QED
    BY <1>15, <2>1, <2>2, <1>p, <1>g DEF GuardRetry
<1>16. CASE RetryItem(x)
  <2> DEFINE k(i) == Key(x, i, me.attempt + 1)
  <2>1. PICK i \in me.todo :
           /\ run' = CreatedRun(k(i))
           /\ planRun' = SavedIds(x, me.ids \cup {k(i)})
           /\ started' = started \cup {k(i)}
           /\ late' \subseteq late \cup {k(i)}
           /\ Become(x, [me EXCEPT !.pc = "enter", !.ids = me.ids \cup {k(i)},
                                   !.attempt = @ + 1, !.snap = NoSnapshot])
    BY <1>16 DEF RetryItem
  <2>2. me.attempt + 1 \in 0..MaxRetries
    BY <1>16, <1>h, PlanAssumption DEF RetryItem, RetryLeft
  <2>3. k(i) \in Runs
    BY <2>2, <1>0, <1>h, KeyType
  <2>4. me.ids \cup {k(i)} \in SUBSET Runs /\ planRun' \in PlanRun
        /\ run' \in [Runs -> RunStatus]
    BY <2>1, <2>3, <1>0, SavedIdsType, CreatedRunType
  <2>5. started' \subseteq Runs /\ late' \subseteq Runs
    BY <2>1, <2>3, <1>0 DEF TypeOK
  <2> HIDE DEF k
  <2>6. Proper([me EXCEPT !.pc = "enter", !.ids = me.ids \cup {k(i)},
                          !.attempt = @ + 1, !.snap = NoSnapshot])
    BY <2>2, <2>4, <1>h, <1>s DEF Executor, Proper, RetryLeft, AtWork
  <2> QED
    BY <1>16, <2>1, <2>4, <2>5, <2>6, <1>p, <1>f, <1>0 DEF RetryItem, TypeOK
<1>17. CASE RetryItemFails(x)
  <2>1. PICK i \in me.todo : Become(x, NextItem(Fails(me, i)))
    BY <1>17 DEF RetryItemFails
  <2>2. Proper(NextItem(Fails(me, i)))
    BY <1>h, FailsType, NextItemType
  <2> QED
    BY <1>17, <2>1, <2>2, <1>p, <1>g DEF RetryItemFails
<1>18. CASE Finish(x)
  <2> DEFINE stopped == IF SeesEnd(x) THEN Seen(x).status = "stopped" ELSE me.stopped
  <2>1. PICK pc \in {"recover", "fail", "succeed"} :
           Become(x, [me EXCEPT !.stopped = stopped, !.snap = Seen(x), !.pc = pc])
    BY <1>18 DEF Finish
  <2>2. stopped \in BOOLEAN
    BY <1>h DEF Executor
  <2> HIDE DEF stopped
  <2>3. Proper([me EXCEPT !.stopped = stopped, !.snap = Seen(x), !.pc = pc])
    BY <2>2, <1>h, <1>s DEF Executor, Proper, RetryLeft
  <2> QED
    BY <1>18, <2>1, <2>3, <1>p, <1>g DEF Finish
<1>19. CASE Fail(x)
  <2>1. /\ Proper([me EXCEPT !.pc = "recover"])
        /\ Proper([me EXCEPT !.pc = "recover", !.snap = NoSnapshot])
    BY <1>s, MovesType DEF AtWork
  <2>2. ExOK
    BY <1>19, <2>1, <1>p DEF Fail
  <2>3. UNCHANGED <<planRun, late>> \/ \E cause \in Cause : SetStatus("failed", cause)
    BY <1>19 DEF Fail, Cause
  <2> QED
    BY <1>19, <2>2, <2>3, <1>g, <1>w DEF Fail, PlanRunStatus, Terminal
<1>20. CASE Succeed(x)
  <2>1. Proper([me EXCEPT !.pc = "recover", !.snap = NoSnapshot])
    BY <1>s, MovesType DEF AtWork
  <2>2. UNCHANGED <<planRun, late>> \/ SetStatus("succeeded", "none")
    BY <1>20 DEF Succeed
  <2> QED
    BY <1>20, <2>1, <2>2, <1>p, <1>g, <1>w DEF Succeed, PlanRunStatus, Terminal, Cause
<1>21. CASE Recover(x)
  <2>1. Proper(Gone("done"))
    BY GoneType
  <2> QED
    BY <1>21, <2>1, <1>p, <1>f, <1>0 DEF Recover, TypeOK
<1>22. CASE NotSent(x)
  <2>1. Proper(Gone("done"))
    BY GoneType
  <2>2. UNCHANGED <<planRun, late>> \/ SetStatus("failed", "none")
    BY <1>22 DEF NotSent
  <2> QED
    BY <1>22, <2>1, <2>2, <1>p, <1>g, <1>w DEF NotSent, PlanRunStatus, Terminal, Cause
<1>23. CASE Raise(x)
  <2>1. Proper([me EXCEPT !.pc = "fail", !.raised = TRUE, !.launching = {},
                          !.todo = {}, !.attempt = 0, !.result = "none"])
    BY <1>h DEF Executor, Proper, RetryLeft
  <2> QED
    BY <1>23, <2>1, <1>p, <1>g DEF Raise
<1>24. CASE Crash(x)
  <2>1. Proper(Gone("lost"))
    BY GoneType
  <2> QED
    BY <1>24, <2>1, <1>p, <1>g DEF Crash
<1> QED
  BY <1>1, <1>2, <1>3, <1>4, <1>5, <1>6, <1>7, <1>8, <1>9, <1>10, <1>11, <1>12, <1>13,
     <1>14, <1>15, <1>16, <1>17, <1>18, <1>19, <1>20, <1>21, <1>22, <1>23, <1>24
     DEF Execute

LEMMA CloseType ==
    ASSUME TypeInv, NEW c \in Closers, Close(c)
    PROVE  TypeInv'
<1> USE DEF runs, others, Turn
<1> DEFINE Closer == [pc : {"idle", "children", "release", "done"}, ids : SUBSET Runs]
<1>0. TypeOK /\ closer \in [Closers -> Closer] /\ planRun \in PlanRun
  BY DEF TypeInv, TypeOK
<1>f. ASSUME closer' \in [Closers -> Closer], planRun' \in PlanRun,
             planStatus' \in {"ready", "running"}, run' \in [Runs -> RunStatus],
             late' \subseteq Runs, UNCHANGED <<started, won, ex, reader, overdue>>
      PROVE  TypeInv'
  BY <1>f, <1>0 DEF TypeInv, TypeOK
<1>1. CASE CloserLoads(c)
  <2>1. closer' \in [Closers -> Closer]
    BY <1>1, <1>0 DEF CloserLoads, PlanRun
  <2> QED
    BY <1>1, <2>1, <1>f, <1>0 DEF CloserLoads, TypeOK
<1>2. CASE CloserStopsRun(c)
  <2>1. closer' \in [Closers -> Closer]
    BY <1>2, <1>0 DEF CloserStopsRun
  <2>2. run' \in [Runs -> RunStatus]
    BY <1>2, <1>0 DEF CloserStopsRun, TypeOK, RunStatus, RunEnded
  <2> QED
    BY <1>2, <2>1, <2>2, <1>f, <1>0 DEF CloserStopsRun, TypeOK
<1>3. CASE CloserStopRaises(c)
  <2>1. closer' \in [Closers -> Closer]
    BY <1>3, <1>0 DEF CloserStopRaises
  <2> QED
    BY <1>3, <2>1, <1>f, <1>0 DEF CloserStopRaises, TypeOK
<1>4. CASE CloserWrites(c)
  <2>1. closer' \in [Closers -> Closer]
    BY <1>4, <1>0 DEF CloserWrites
  <2>2. planRun' \in PlanRun /\ late' \subseteq Runs
    BY <1>4, <1>0, SetStatusType DEF CloserWrites, PlanRunStatus, Terminal, Cause
  <2> QED
    BY <1>4, <2>1, <2>2, <1>f, <1>0 DEF CloserWrites, TypeOK
<1>5. CASE CloserReleases(c)
  <2>1. closer' \in [Closers -> Closer]
    BY <1>5, <1>0 DEF CloserReleases, RunsUp
  <2> QED
    BY <1>5, <2>1, <1>f, <1>0 DEF CloserReleases, TypeOK
<1> QED
  BY <1>1, <1>2, <1>3, <1>4, <1>5 DEF Close

LEMMA ReadType ==
    ASSUME TypeInv, NEW r \in Readers, Read(r)
    PROVE  TypeInv'
<1> USE DEF runs, others
<1> DEFINE Reader == [pc : {"idle", "reconcile", "recover"}, verdict : {"none"} \cup Terminal]
<1>0. TypeOK /\ reader \in [Readers -> Reader]
  BY DEF TypeInv, TypeOK
<1>1. CASE ReaderLoads(r)
  <2>1. ReconcileVerdict \in {"none"} \cup Terminal /\ StaleVerdict \in {"none"} \cup Terminal
    BY DEF ReconcileVerdict, StaleVerdict, Terminal
  <2>2. reader' \in [Readers -> Reader]
    BY <1>1, <1>0, <2>1 DEF ReaderLoads
  <2> QED
    BY <1>1, <2>2, <1>0 DEF ReaderLoads, TypeInv, TypeOK
<1>2. CASE ReaderWrites(r)
  <2>1. reader' \in [Readers -> Reader]
    BY <1>2, <1>0 DEF ReaderWrites
  <2>2. reader[r].verdict \in PlanRunStatus
    BY <1>2 DEF ReaderWrites, TypeInv, PlanRunStatus
  <2> QED
    BY <1>2, <2>1, <2>2, <1>0, SetStatusType DEF ReaderWrites, TypeInv, TypeOK, Cause
<1> QED
  BY <1>1, <1>2 DEF Read

LEMMA InitType == Init => TypeInv
<1> SUFFICES ASSUME Init PROVE TypeInv
  OBVIOUS
<1>1. ex \in [Executors -> Executor] /\ \A x \in Executors : RetryLeft(ex[x])
  BY NewExecutorType DEF Init, Proper
<1>2. planRun \in PlanRun
  BY DEF Init, PlanRun, PlanRunStatus, Cause
<1> QED
  BY <1>1, <1>2 DEF Init, TypeInv, TypeOK, RunStatus

LEMMA NextType == TypeInv /\ [Next]_vars => TypeInv'
<1> SUFFICES ASSUME TypeInv, [Next]_vars PROVE TypeInv'
  OBVIOUS
<1> USE DEF runs, others
<1>1. CASE UNCHANGED vars
  BY <1>1 DEF vars, TypeInv, TypeOK
<1>2. CASE \E k \in Runs : RunEnds(k)
  <2>1. PICK k \in Runs, s \in RunEnded :
           run' = [run EXCEPT ![k] = s] /\ won' \subseteq won \cup {k}
    BY <1>2 DEF RunEnds
  <2>2. run' \in [Runs -> RunStatus] /\ won' \subseteq Runs
    BY <2>1 DEF TypeInv, TypeOK, RunStatus
  <2> QED
    BY <1>2, <2>2 DEF RunEnds, TypeInv, TypeOK
<1>3. CASE GetsOverdue
  BY <1>3 DEF GetsOverdue, TypeInv, TypeOK
<1>4. CASE Terminated
  BY <1>1, <1>4 DEF Terminated
<1> QED
  BY <1>1, <1>2, <1>3, <1>4, ExecuteType, CloseType, ReadType DEF Next

LEMMA TypeInvariant == Spec => []TypeInv
BY InitType, NextType, PTL DEF Spec

\* Every variable and every local state of executors, closers and readers has its type; in
\* particular no executor runs past the last batch or round, or past the last retry.
THEOREM PlanTypeCorrect == Spec => []TypeOK
<1>1. TypeInv => TypeOK
  BY DEF TypeInv
<1> QED
  BY <1>1, TypeInvariant, PTL

-----------------------------------------------------------------------------
(* Only an executor's entry makes an ended plan run active again *)

\* Whoever writes the plan run's row back - executors their list of runs, closers and
\* readers a status decided from what they saw earlier - an ended plan run stays ended,
\* unless an executor that passed the terminal guard before marks it running.
THEOREM RevivedAtEntry == Spec => RevivedOnlyAtEntry
<1> DEFINE Step == Ended /\ planRun'.status \notin Terminal
                     => \E x \in Executors : ex[x].pc = "begin" /\ ex'[x].pc = "batch"
<1>1. ASSUME TypeInv, Next
      PROVE  Step
  <2> SUFFICES ASSUME Ended, planRun'.status \notin Terminal
               PROVE  \E x \in Executors : ex[x].pc = "begin" /\ ex'[x].pc = "batch"
    OBVIOUS
  <2> USE <1>1
  <2>1. planRun' # planRun
    BY DEF Ended
  <2>2. ASSUME NEW x \in Executors, Execute(x)
        PROVE  ex[x].pc = "begin" /\ ex'[x].pc = "batch"
    <3>1. ASSUME NEW status \in Terminal, NEW cause, SetStatus(status, cause)
          PROVE  FALSE
      BY <3>1 DEF SetStatus, TypeInv, TypeOK, PlanRun
    <3>2. ASSUME NEW ids, planRun' = SavedIds(x, ids)
          PROVE  FALSE
      BY <3>2 DEF SavedIds, TypeInv, TypeOK, PlanRun, Ended
    <3>3. ASSUME planRun' = [planRun EXCEPT !.cause = "launch_failed"]
          PROVE  FALSE
      BY <3>3 DEF TypeInv, TypeOK, PlanRun, Ended
    <3>4. Begin(x)
      BY <2>1, <2>2, <3>1, <3>2, <3>3
         DEF Execute, Enter, MarkPlan, OpenBatch, GuardItem, CreateItem, CreateItemFails,
             CheckItem, StartItem, EnterWait, Wait, DecideSucceeded, DecideFailed,
             DecideStopped, StopFromChildRun, GuardRetry, RetryItem, RetryItemFails,
             Finish, Fail, Succeed, Recover, NotSent, Raise, Crash, Terminal
    <3> QED
      BY <3>4 DEF Begin, Become, TypeInv, TypeOK, Executor
  <2>3. ASSUME NEW c \in Closers, Close(c)
        PROVE  FALSE
    BY <2>1, <2>3 DEF Close, CloserLoads, CloserStopsRun, CloserStopRaises, CloserWrites,
                      CloserReleases, SetStatus, TypeInv, TypeOK, PlanRun, Terminal
  <2>4. ASSUME NEW r \in Readers, Read(r)
        PROVE  FALSE
    BY <2>1, <2>4 DEF Read, ReaderLoads, ReaderWrites, SetStatus, TypeInv, TypeOK, PlanRun
  <2> QED
    BY <2>1, <2>2, <2>3, <2>4 DEF Next, RunEnds, GetsOverdue, Terminated, vars
<1>2. TypeInv /\ [Next]_vars => [Step]_vars
  BY <1>1
<1>3. [][Step]_vars => RevivedOnlyAtEntry
  BY DEF RevivedOnlyAtEntry
<1> QED
  BY <1>2, <1>3, TypeInvariant, PTL DEF Spec

-----------------------------------------------------------------------------
(* A declared success is earned                                             *)
(*                                                                          *)
(* The invariant follows the executor through the plan: as long as nothing  *)
(* has failed and no stop was seen, every item it has left behind has a run *)
(* that succeeded.  It holds of an executor that is alone and whose plan    *)
(* run no reader repairs: otherwise somebody else may end the plan run as   *)
(* failed or succeeded, which makes the executor leave its loops without    *)
(* remembering why (run plan_success_unearned).                             *)

\* Nothing is known to have gone wrong.
Good(me) == me.failed = {} /\ ~me.stopped
\* The items of the rounds and batches before the current batch.
Before(me, r, i) ==
    r < me.round \/ (r = me.round /\ \E b \in 1..Len(Batches) : b < me.batch /\ i \in Batches[b])
Left(me, r, i) ==
    Before(me, r, i)
    \/ (r = me.round /\ i \in Batches[me.batch] /\ i \notin me.launching \cup me.todo)

WonBefore(me) == \A r \in Rounds, i \in Items : Before(me, r, i) => ItemWon(r, i)
WonLeft(me) == \A r \in Rounds, i \in Items : Left(me, r, i) => ItemWon(r, i)

\* A lost round has a failed item, and no end but a stop has been seen.
Honest(me) ==
    /\ me.roundLost => me.failed # {}
    /\ me.snap.status \notin {"failed", "succeeded"}

InBatch == AtWork \ {"batch", "finish"}
Walked(me) ==
    /\ Honest(me)
    /\ me.pc \in {"queued", "mark", "begin"} => me.round = 1 /\ me.batch = 1
    /\ Good(me) /\ me.pc = "batch" => WonBefore(me)
    /\ Good(me) /\ me.pc \in InBatch => WonLeft(me)
    /\ Good(me) /\ me.pc = "finish" => AllItemsWon
    /\ me.pc = "succeed" => AllItemsWon

\* A result "succeeded" was read from a run that succeeded.
ResultTrue(x) ==
    ex[x].pc = "decide" /\ ex[x].result = "succeeded"
    => \A i \in Items : FirstOf(i, ex[x].todo) => Key(x, i, ex[x].attempt) \in won

EarnedInv ==
    /\ TypeInv
    /\ \A k \in Runs : run[k] = "succeeded" => k \in won
    /\ \A x \in Executors :
          /\ planRun.status \in {"failed", "succeeded"} => ex[x].pc \in {"recover", "done", "lost"}
          /\ Walked(ex[x]) /\ ResultTrue(x)

\* An executor that leaves a batch with every item of it won goes on as it should.
LEMMA NextBatchWalked ==
    ASSUME NEW me \in Executor, Honest(me),
           Good(me) => \A r \in Rounds, i \in Items :
                          Before(me, r, i) \/ (r = me.round /\ i \in Batches[me.batch])
                             => ItemWon(r, i)
    PROVE  Walked(NextBatch(me))
<1>1. /\ TotalRounds \in Nat \ {0} /\ Len(Batches) \in Nat \ {0}
      /\ \A i \in Items : \E b \in 1..Len(Batches) : i \in Batches[b]
      /\ me.round \in Rounds /\ me.batch \in 1..Len(Batches) /\ me.failed \in SUBSET (Rounds \X Items)
  BY PlanAssumption DEF Executor
<1>2. CASE me.roundLost /\ me.round = TotalRounds
  <2> DEFINE new == [me EXCEPT !.aborted = TRUE, !.pc = "finish"]
  <2>1. /\ NextBatch(me) = new
        /\ new.failed = me.failed /\ new.roundLost = me.roundLost /\ new.snap = me.snap
        /\ new.pc = "finish"
    BY <1>2 DEF NextBatch, Executor
  <2>2. ~Good(new) /\ Honest(new)
    BY <1>2, <2>1 DEF Honest, Good
  <2> HIDE DEF new
  <2> QED
    BY <2>1, <2>2 DEF Walked, InBatch
<1>3. CASE ~me.roundLost /\ me.batch < Len(Batches)
  <2> DEFINE new == [me EXCEPT !.batch = @ + 1, !.pc = "batch"]
  <2>1. /\ NextBatch(me) = new
        /\ new.failed = me.failed /\ new.roundLost = me.roundLost /\ new.snap = me.snap
        /\ new.pc = "batch" /\ new.round = me.round /\ new.batch = me.batch + 1
        /\ new.stopped = me.stopped
    BY <1>3 DEF NextBatch, Executor
  <2>2. Honest(new) /\ (Good(new) => Good(me))
    BY <2>1 DEF Honest, Good
  <2>3. Good(new) => WonBefore(new)
    BY <1>1, <2>1, <2>2 DEF WonBefore, Before
  <2> HIDE DEF new
  <2> QED
    BY <2>1, <2>2, <2>3 DEF Walked, InBatch
<1>4. CASE /\ ~(me.roundLost /\ me.round = TotalRounds)
           /\ ~(~me.roundLost /\ me.batch < Len(Batches))
  <2>1. Good(me) => \A r \in Rounds, i \in Items : r <= me.round => ItemWon(r, i)
    <3> SUFFICES ASSUME Good(me), NEW r \in Rounds, NEW i \in Items, r <= me.round
                 PROVE  ItemWon(r, i)
      OBVIOUS
    <3>1. ~me.roundLost /\ me.batch = Len(Batches)
      BY <1>1, <1>4 DEF Honest, Good
    <3>2. PICK b \in 1..Len(Batches) : i \in Batches[b]
      BY <1>1
    <3> QED
      BY <1>1, <3>1, <3>2 DEF Before, Rounds
  <2>2. CASE me.round < TotalRounds
    <3> DEFINE new == [me EXCEPT !.round = @ + 1, !.batch = 1, !.roundLost = FALSE,
                                 !.pc = "batch", !.snap = NoSnapshot]
    <3>1. /\ NextBatch(me) = new
          /\ new.failed = me.failed /\ ~new.roundLost /\ new.snap = NoSnapshot
          /\ new.pc = "batch" /\ new.round = me.round + 1 /\ new.batch = 1
          /\ new.stopped = me.stopped
      BY <1>4, <2>2 DEF NextBatch, Executor
    <3>2. Honest(new) /\ (Good(new) => Good(me))
      BY <3>1 DEF Honest, Good, NoSnapshot
    <3>3. Good(new) => WonBefore(new)
      BY <1>1, <2>1, <3>1, <3>2 DEF WonBefore, Before, Rounds
    <3> HIDE DEF new
    <3> QED
      BY <3>1, <3>2, <3>3 DEF Walked, InBatch
  <2>3. CASE ~(me.round < TotalRounds)
    <3> DEFINE new == [me EXCEPT !.pc = "finish"]
    <3>1. /\ NextBatch(me) = new
          /\ new.failed = me.failed /\ new.roundLost = me.roundLost /\ new.snap = me.snap
          /\ new.pc = "finish" /\ new.stopped = me.stopped
      BY <1>4, <2>3 DEF NextBatch, Executor
    <3>2. Honest(new) /\ (Good(new) => Good(me))
      BY <3>1 DEF Honest, Good
    <3>3. Good(me) => AllItemsWon
      BY <1>1, <2>1, <2>3 DEF AllItemsWon, Rounds
    <3> HIDE DEF new
    <3> QED
      BY <3>1, <3>2, <3>3 DEF Walked, InBatch
  <2> QED
    BY <2>2, <2>3
<1> QED
  BY <1>2, <1>3, <1>4

LEMMA NextItemWalked ==
    ASSUME NEW me \in Executor, Honest(me), Good(me) => WonLeft(me)
    PROVE  Walked(NextItem(me))
<1> DEFINE go(pc) == [me EXCEPT !.pc = pc]
<1>1. ASSUME NEW pc \in {"guard", "enter"}
      PROVE  Walked(go(pc))
  <2> DEFINE new == go(pc)
  <2>1. /\ new.failed = me.failed /\ new.roundLost = me.roundLost /\ new.snap = me.snap
        /\ new.pc = pc /\ new.round = me.round /\ new.batch = me.batch
        /\ new.stopped = me.stopped /\ new.launching = me.launching /\ new.todo = me.todo
    BY DEF Executor
  <2> HIDE DEF new
  <2>2. Honest(new) /\ (Good(new) => WonLeft(new))
    BY <2>1 DEF Honest, Good, WonLeft, Left, Before
  <2>3. Walked(new)
    BY <2>1, <2>2 DEF Walked, InBatch, AtWork
  <2> QED
    BY <2>3 DEF new
<1>2. ASSUME me.launching = {}, me.todo = {}
      PROVE  Walked(NextBatch(me))
  BY <1>2, NextBatchWalked DEF WonLeft, Left
<1> QED
  BY <1>1, <1>2 DEF NextItem

\* A step within the batch that neither decides an item nor sees a stop.
LEMMA SameWalked ==
    ASSUME NEW me, NEW new, Walked(me), me.pc \in InBatch, new.pc \in InBatch,
           new.round = me.round, new.batch = me.batch, new.launching = me.launching,
           new.todo = me.todo, new.failed = me.failed, new.stopped = me.stopped,
           new.roundLost = me.roundLost, new.snap.status \notin {"failed", "succeeded"}
    PROVE  Walked(new)
<1>1. Good(new) = Good(me) /\ Honest(new)
  BY DEF Good, Honest, Walked
<1>2. WonLeft(new) = WonLeft(me)
  BY DEF WonLeft, Left, Before
<1> QED
  BY <1>1, <1>2 DEF Walked, InBatch, AtWork

\* An executor that has seen a stop claims nothing about the items it leaves.
LEMMA StoppedWalked ==
    ASSUME NEW me \in Executor, Honest(me)
    PROVE  Walked(LeaveStopped(me))
<1> DEFINE new == LeaveStopped(me)
<1>1. /\ new.pc = "finish" /\ new.stopped /\ new.failed = me.failed
      /\ new.roundLost = me.roundLost /\ new.snap = me.snap
  BY DEF LeaveStopped, Executor
<1> HIDE DEF new
<1>2. Walked(new)
  BY <1>1 DEF Walked, Honest, Good, InBatch
<1> QED
  BY <1>2 DEF new

\* Nor does one that has given an item up.
LEMMA FailsWalked ==
    ASSUME NEW me \in Executor, Honest(me), NEW i \in Items
    PROVE  Walked(NextItem(Fails(me, i)))
<1> DEFINE new == Fails(me, i)
<1>1. new \in Executor
  BY FailsType
<1>2. new.failed # {} /\ new.snap = me.snap
  BY DEF Fails, Executor
<1>3. Honest(new) /\ ~Good(new)
  BY <1>2 DEF Honest, Good
<1> HIDE DEF new
<1>4. Walked(NextItem(new))
  BY <1>1, <1>3, NextItemWalked
<1> QED
  BY <1>4 DEF new

LEMMA GiveUpOrRetryWalked ==
    ASSUME NEW me \in Executor, Walked(me), me.pc = "decide", NEW i \in Items
    PROVE  Walked(GiveUpOrRetry(me, i))
<1> DEFINE new == [me EXCEPT !.pc = "retry", !.result = "none"]
<1>1. Honest(me)
  BY DEF Walked
<1>2. /\ new.pc = "retry" /\ new.round = me.round /\ new.batch = me.batch
      /\ new.launching = me.launching /\ new.todo = me.todo /\ new.failed = me.failed
      /\ new.stopped = me.stopped /\ new.roundLost = me.roundLost /\ new.snap = me.snap
  BY DEF Executor
<1> HIDE DEF new
<1>3. Walked(new)
  BY <1>1, <1>2, SameWalked DEF Honest, InBatch, AtWork
<1> QED
  BY <1>1, <1>3, FailsWalked DEF GiveUpOrRetry, new

\* A session that looks at the rows is still walking.
LEMMA LooksWalked ==
    ASSUME NEW me \in Executor, Walked(me), NEW snap \in Snapshot,
           snap.status \notin {"failed", "succeeded"}
    PROVE  Walked([me EXCEPT !.snap = snap])
<1> DEFINE new == [me EXCEPT !.snap = snap]
<1>1. /\ new.pc = me.pc /\ new.round = me.round /\ new.batch = me.batch
      /\ new.launching = me.launching /\ new.todo = me.todo /\ new.failed = me.failed
      /\ new.stopped = me.stopped /\ new.roundLost = me.roundLost /\ new.snap = snap
  BY DEF Executor
<1> HIDE DEF new
<1>2. Good(new) = Good(me) /\ Honest(new)
  BY <1>1 DEF Good, Honest, Walked
<1>3. WonLeft(new) = WonLeft(me) /\ WonBefore(new) = WonBefore(me)
  BY <1>1 DEF WonLeft, WonBefore, Left, Before
<1>4. Walked(new)
  BY <1>1, <1>2, <1>3 DEF Walked
<1> QED
  BY <1>4 DEF new

\* The walk of a task that is over, or about to start.
LEMMA GoneWalked ==
    ASSUME NEW label \in {"done", "lost"}
    PROVE  Walked(Gone(label))
BY DEF Gone, NewExecutor, NoSnapshot, Walked, Honest, InBatch, AtWork

LEMMA EarnedExecute ==
    ASSUME EarnedInv, Executors = {First}, Execute(First)
    PROVE  EarnedInv'
<1> USE DEF runs, others
<1> DEFINE x == First
           me == ex[x]
           new == ex'[x]
           Over == {"recover", "done", "lost"}
           Bad == {"failed", "succeeded"}
<1>0. TypeInv /\ TypeInv' /\ TypeOK /\ x \in Executors
  BY ExecuteType DEF EarnedInv, TypeInv
<1>s. Seen(x) \in Snapshot /\ Now \in Snapshot /\ NoSnapshot \in Snapshot
  BY <1>0, SeenType
<1>h. /\ me \in Executor
      /\ me.launching \subseteq Items /\ me.todo \subseteq Items
      /\ me.attempt \in 0..MaxRetries /\ 0 \in 0..MaxRetries
  BY <1>0, AtHand
<1>e. /\ Walked(me) /\ Honest(me) /\ ResultTrue(x)
      /\ planRun.status \in Bad => me.pc \in Over
  BY <1>0 DEF EarnedInv, Walked
<1>n. NoSnapshot.status \notin Bad
  BY DEF NoSnapshot
<1>a. me.pc \notin Over => planRun.status \notin Bad /\ Now.status \notin Bad
                           /\ Seen(x).status \notin Bad
  BY <1>e DEF Now, Seen, Honest
<1>b. ASSUME NEW state, Become(x, state)
      PROVE  new = state
  BY <1>b, <1>0 DEF Become, TypeOK
<1>l. /\ [me EXCEPT !.snap = NoSnapshot] \in Executor
      /\ Walked([me EXCEPT !.snap = NoSnapshot])
      /\ me.pc \notin Over => [me EXCEPT !.snap = Seen(x)] \in Executor
                              /\ Walked([me EXCEPT !.snap = Seen(x)])
  BY <1>0, <1>s, <1>h, <1>e, <1>n, <1>a, LooksType, LooksWalked
<1>q. /\ [me EXCEPT !.snap = NoSnapshot].pc = me.pc
      /\ [me EXCEPT !.snap = Seen(x)].pc = me.pc
  BY <1>h DEF Executor
\* What is left to show of each step.
<1>f. ASSUME Walked(new), new.pc # "decide", won' = won,
             planRun'.status \in Bad => new.pc \in Over,
             \A k \in Runs : run'[k] = "succeeded" => run[k] = "succeeded"
      PROVE  EarnedInv'
  <2>1. Walked(ex[x])'
    BY <1>f DEF Walked, WonBefore, WonLeft, AllItemsWon, ItemWon
  <2>2. ResultTrue(x)'
    BY <1>f DEF ResultTrue
  <2> QED
    BY <2>1, <2>2, <1>f, <1>0 DEF EarnedInv
<1>g. ASSUME Walked(new), new.pc # "decide", me.pc \notin Over,
             planRun'.status = planRun.status, UNCHANGED runs
      PROVE  EarnedInv'
  BY <1>g, <1>f, <1>a
<1>w. ASSUME Walked(new), new.pc # "decide", UNCHANGED runs, NEW status, NEW cause,
             SetStatus(status, cause), status \in Bad => new.pc \in Over
      PROVE  EarnedInv'
  <2>1. planRun'.status = status
    BY <1>w, <1>0 DEF SetStatus, TypeOK, PlanRun
  <2> QED
    BY <2>1, <1>w, <1>f
\* The operators never stop at a decision.
<1>d. ASSUME NEW m \in Executor, NEW i \in Items
      PROVE  /\ NextItem(m).pc # "decide" /\ LeaveStopped(m).pc # "decide"
             /\ NextBatch(m).pc # "decide" /\ GiveUpOrRetry(m, i).pc # "decide"
  <2>1. ASSUME NEW t \in Executor
        PROVE  NextItem(t).pc # "decide" /\ NextBatch(t).pc # "decide"
    <3>1. NextBatch(t).pc # "decide"
      BY DEF NextBatch, Executor
    <3>2. [t EXCEPT !.pc = "guard"].pc = "guard" /\ [t EXCEPT !.pc = "enter"].pc = "enter"
      BY DEF Executor
    <3> QED
      BY <3>1, <3>2 DEF NextItem
  <2>2. LeaveStopped(m).pc # "decide" /\ [m EXCEPT !.pc = "retry", !.result = "none"].pc # "decide"
    BY DEF LeaveStopped, Executor
  <2> QED
    BY <2>1, <2>2, FailsType DEF GiveUpOrRetry
<1> HIDE DEF me, new, Over, Bad
<1>1. CASE Enter(x)
  <2>1. new = Gone("done") \/ new = [me EXCEPT !.pc = "mark"]
    BY <1>1, <1>b DEF Enter, me
  <2>2. Walked(Gone("done")) /\ Gone("done").pc = "done"
    BY GoneWalked DEF Gone, NewExecutor
  <2>3. me.pc = "queued"
    BY <1>1 DEF Enter, me
  <2>4. Walked([me EXCEPT !.pc = "mark"]) /\ [me EXCEPT !.pc = "mark"].pc = "mark"
    BY <1>h, <1>e, <2>3 DEF Executor, Walked, Honest, InBatch, AtWork
  <2> QED
    BY <1>1, <2>1, <2>2, <2>3, <2>4, <1>g DEF Enter, Over
<1>2. CASE MarkPlan(x)
  <2>1. new = [me EXCEPT !.pc = "begin"] /\ me.pc = "mark"
    BY <1>2, <1>b DEF MarkPlan, me
  <2>2. Walked(new) /\ new.pc = "begin"
    BY <1>h, <1>e, <2>1 DEF Executor, Walked, Honest, InBatch, AtWork
  <2> QED
    BY <1>2, <2>1, <2>2, <1>g DEF MarkPlan, Over
<1>3. CASE Begin(x)
  <2>1. new = [me EXCEPT !.pc = "batch"] /\ me.pc = "begin"
    BY <1>3, <1>b DEF Begin, me
  <2>2. new.pc = "batch" /\ new.round = 1 /\ new.batch = 1 /\ Honest(new)
    BY <1>h, <1>e, <2>1 DEF Executor, Walked, Honest
  <2>3. Walked(new)
    BY <2>2 DEF Walked, WonBefore, Before, InBatch, Rounds
  <2> QED
    BY <1>3, <2>2, <2>3, <1>w DEF Begin, Bad
<1>4. CASE OpenBatch(x)
  <2> DEFINE m == [me EXCEPT !.snap = NoSnapshot]
             batch == Batches[me.batch]
             opened == [me EXCEPT !.pc = "guard", !.launching = batch]
  <2>0. me.pc = "batch"
    BY <1>4 DEF OpenBatch, me
  <2>1. new = LeaveStopped(m) \/ (batch = {} /\ new = NextBatch(m)) \/ new = opened
    BY <1>4, <1>b DEF OpenBatch, me
  <2>2. m \in Executor /\ Honest(m) /\ Walked(m)
    BY <1>l DEF Walked
  <2>3. m.pc = "batch" /\ m.batch = me.batch
    BY <2>0, <1>h DEF Executor
  <2>4. batch = {} => Walked(NextBatch(m))
    <3>1. Good(m) => WonBefore(m)
      BY <2>2, <2>3 DEF Walked
    <3> HIDE DEF m
    <3> QED
      BY <3>1, <2>2, <2>3, NextBatchWalked DEF WonBefore
  <2>5. Walked(opened) /\ opened.pc = "guard"
    <3>1. /\ opened.pc = "guard" /\ opened.round = me.round /\ opened.batch = me.batch
          /\ opened.launching = batch /\ opened.failed = me.failed
          /\ opened.stopped = me.stopped /\ opened.roundLost = me.roundLost
          /\ opened.snap = me.snap
      BY <1>h DEF Executor
    <3> HIDE DEF opened
    <3>2. Honest(opened) /\ (Good(opened) => Good(me))
      BY <3>1, <1>e DEF Honest, Good
    <3>3. Good(opened) => WonLeft(opened)
      BY <3>1, <3>2, <2>0, <1>e DEF Walked, WonBefore, WonLeft, Left, Before
    <3> QED
      BY <3>1, <3>2, <3>3 DEF Walked, InBatch
  <2>6. Walked(LeaveStopped(m))
    BY <2>2, StoppedWalked
  <2>7. new.pc # "decide"
    <3>1. LeaveStopped(m).pc # "decide" /\ NextBatch(m).pc # "decide"
      BY <2>2 DEF LeaveStopped, NextBatch, Executor
    <3> QED
      BY <3>1, <2>1, <2>5
  <2> QED
    BY <1>4, <2>0, <2>1, <2>4, <2>5, <2>6, <2>7, <1>g DEF OpenBatch, Over
<1>5. CASE GuardItem(x) \/ GuardRetry(x)
  <2> DEFINE m == [me EXCEPT !.snap = Seen(x)]
  <2>0. me.pc \in {"guard", "retry"}
    BY <1>5 DEF GuardItem, GuardRetry, me
  <2>1. PICK pc \in {"create", "recreate"} :
           new = LeaveStopped(m) \/ new = [me EXCEPT !.pc = pc, !.snap = Seen(x)]
    BY <1>5, <1>b DEF GuardItem, GuardRetry, me
  <2>2. m \in Executor /\ Honest(m) /\ Walked(m)
    BY <2>0, <1>l DEF Walked, Over
  <2>3. Walked(LeaveStopped(m)) /\ LeaveStopped(m).pc # "decide"
    BY <2>2, StoppedWalked DEF LeaveStopped, Executor
  <2>4. ASSUME new = [me EXCEPT !.pc = pc, !.snap = Seen(x)]
        PROVE  Walked(new) /\ new.pc # "decide"
    <3>1. /\ new.pc = pc /\ new.round = me.round /\ new.batch = me.batch
          /\ new.launching = me.launching /\ new.todo = me.todo /\ new.failed = me.failed
          /\ new.stopped = me.stopped /\ new.roundLost = me.roundLost
          /\ new.snap = Seen(x)
      BY <2>4, <1>h DEF Executor
    <3> QED
      BY <3>1, <2>0, <1>e, <1>a, SameWalked DEF InBatch, AtWork, Over, Bad
  <2> QED
    BY <1>5, <2>0, <2>1, <2>3, <2>4, <1>g DEF GuardItem, GuardRetry, Over
<1>6. CASE CreateItem(x)
  <2>1. PICK i \in me.launching :
           /\ run' = CreatedRun(Key(x, i, 0))
           /\ planRun' = SavedIds(x, me.ids \cup {Key(x, i, 0)})
           /\ new = [me EXCEPT !.pc = "check", !.ids = me.ids \cup {Key(x, i, 0)},
                               !.snap = NoSnapshot]
    BY <1>6, <1>b DEF CreateItem, me
  <2>2. me.pc = "create"
    BY <1>6 DEF CreateItem, me
  <2>3. /\ new.pc = "check" /\ new.round = me.round /\ new.batch = me.batch
        /\ new.launching = me.launching /\ new.todo = me.todo /\ new.failed = me.failed
        /\ new.stopped = me.stopped /\ new.roundLost = me.roundLost /\ new.snap = NoSnapshot
    BY <2>1, <1>h DEF Executor
  <2>4. Walked(new)
    BY <2>2, <2>3, <1>e, <1>n, SameWalked DEF InBatch, AtWork, Bad
  <2>5. planRun'.status = planRun.status
    BY <2>1, <1>0 DEF SavedIds, TypeOK, PlanRun
  <2>6. \A k \in Runs : run'[k] = "succeeded" => run[k] = "succeeded"
    BY <2>1, <1>0 DEF CreatedRun, TypeOK
  <2> QED
    BY <1>6, <2>2, <2>3, <2>4, <2>5, <2>6, <1>a, <1>f DEF CreateItem, Over
<1>7. CASE CreateItemFails(x)
  <2> DEFINE m == [me EXCEPT !.snap = NoSnapshot]
  <2>1. PICK i \in me.launching : new = NextItem(Fails(m, i))
    BY <1>7, <1>b DEF CreateItemFails, me
  <2>2. m \in Executor /\ Honest(m) /\ i \in Items
    BY <1>l, <1>h DEF Walked
  <2> HIDE DEF m
  <2>3. Walked(new) /\ new.pc # "decide"
    BY <2>1, <2>2, FailsWalked, FailsType, <1>d
  <2>4. planRun'.status = planRun.status /\ me.pc = "create"
    BY <1>7, <1>0 DEF CreateItemFails, TypeOK, PlanRun, me
  <2> QED
    BY <1>7, <2>3, <2>4, <1>g DEF CreateItemFails, Over
<1>8. CASE CheckItem(x)
  <2>0. me.pc = "check"
    BY <1>8 DEF CheckItem, me
  <2>1. new = LeaveStopped(me) \/ new = [me EXCEPT !.pc = "start", !.snap = Now]
    BY <1>8, <1>b DEF CheckItem, me
  <2>2. Walked(LeaveStopped(me)) /\ LeaveStopped(me).pc # "decide"
    BY <1>h, <1>e, StoppedWalked DEF LeaveStopped, Executor
  <2>3. ASSUME new = [me EXCEPT !.pc = "start", !.snap = Now]
        PROVE  Walked(new) /\ new.pc # "decide"
    <3>1. /\ new.pc = "start" /\ new.round = me.round /\ new.batch = me.batch
          /\ new.launching = me.launching /\ new.todo = me.todo /\ new.failed = me.failed
          /\ new.stopped = me.stopped /\ new.roundLost = me.roundLost /\ new.snap = Now
      BY <2>3, <1>h DEF Executor
    <3> QED
      BY <3>1, <2>0, <1>e, <1>a, SameWalked DEF InBatch, AtWork, Over, Bad
  <2>4. \A k \in Runs : run'[k] = "succeeded" => run[k] = "succeeded"
    <3>1. PICK i \in me.launching :
             run' = [run EXCEPT ![Key(x, i, 0)] = "stopped"] \/ run' = run
      BY <1>8 DEF CheckItem, me
    <3> QED
      BY <3>1, <1>0 DEF TypeOK
  <2> QED
    BY <1>8, <2>0, <2>1, <2>2, <2>3, <2>4, <1>a, <1>f DEF CheckItem, Over
<1>9. CASE StartItem(x)
  <2> DEFINE m(i) == [me EXCEPT !.launching = @ \ {i}, !.todo = @ \cup {i}]
  <2>1. PICK i \in me.launching : new = NextItem(m(i))
    BY <1>9, <1>b DEF StartItem, me
  <2>2. /\ m(i) \in Executor
        /\ m(i).round = me.round /\ m(i).batch = me.batch /\ m(i).failed = me.failed
        /\ m(i).stopped = me.stopped /\ m(i).roundLost = me.roundLost /\ m(i).snap = me.snap
        /\ m(i).launching = me.launching \ {i} /\ m(i).todo = me.todo \cup {i}
    BY <1>h DEF Executor
  <2> HIDE DEF m
  <2>3. me.pc = "start" /\ (Good(me) => WonLeft(me))
    BY <1>9, <1>e DEF StartItem, me, Walked, InBatch, AtWork
  <2>4. m(i).launching \cup m(i).todo = me.launching \cup me.todo
    BY <2>2
  <2>5. Honest(m(i)) /\ (Good(m(i)) => WonLeft(m(i)))
    BY <2>2, <2>3, <2>4, <1>e DEF Honest, Good, WonLeft, Left, Before
  <2>6. Walked(new) /\ new.pc # "decide"
    BY <2>1, <2>2, <2>5, <1>h, <1>d, NextItemWalked
  <2>7. UNCHANGED <<planRun, run, won>>
    BY <1>9 DEF StartItem
  <2> QED
    BY <2>3, <2>6, <2>7, <1>a, <1>f DEF Over
<1>10. CASE EnterWait(x)
  <2>1. new = [me EXCEPT !.pc = "wait", !.snap = Seen(x)] /\ me.pc = "enter"
    BY <1>10, <1>b DEF EnterWait, me
  <2>2. /\ new.pc = "wait" /\ new.round = me.round /\ new.batch = me.batch
        /\ new.launching = me.launching /\ new.todo = me.todo /\ new.failed = me.failed
        /\ new.stopped = me.stopped /\ new.roundLost = me.roundLost /\ new.snap = Seen(x)
    BY <2>1, <1>h DEF Executor
  <2>3. Walked(new)
    BY <2>1, <2>2, <1>e, <1>a, SameWalked DEF InBatch, AtWork, Over, Bad
  <2> QED
    BY <1>10, <2>1, <2>2, <2>3, <1>g DEF EnterWait, Over
<1>11. CASE Wait(x)
  <2>1. PICK i \in me.todo, result \in RunEnded :
           /\ FirstOf(i, me.todo)
           /\ result = "succeeded" => run[Key(x, i, me.attempt)] = "succeeded"
           /\ new = [me EXCEPT !.pc = "decide", !.result = result]
    BY <1>11, <1>b DEF Wait, RunEnded, me
  <2>2. /\ new.pc = "decide" /\ new.round = me.round /\ new.batch = me.batch
        /\ new.launching = me.launching /\ new.todo = me.todo /\ new.failed = me.failed
        /\ new.stopped = me.stopped /\ new.roundLost = me.roundLost /\ new.snap = me.snap
        /\ new.attempt = me.attempt /\ new.result = result
    BY <2>1, <1>h DEF Executor
  <2>3. me.pc = "wait" /\ me.snap.status \notin {"failed", "succeeded"}
    BY <1>11, <1>e DEF Wait, me, Honest
  <2>4. Walked(new)
    BY <2>2, <2>3, <1>e, SameWalked DEF InBatch, AtWork
  <2>5. result = "succeeded" => Key(x, i, me.attempt) \in won
    BY <2>1, <1>0, <1>h, KeyType DEF EarnedInv
  <2>6. \A j \in Items : FirstOf(j, me.todo) => j = i
    BY <2>1, <1>h DEF FirstOf, Items
  <2>7. ResultTrue(x)'
    BY <2>2, <2>5, <2>6, <1>11 DEF ResultTrue, Key, new, me, Wait
  <2>8. Walked(ex[x])'
    BY <2>4, <1>11 DEF Walked, WonBefore, WonLeft, AllItemsWon, ItemWon, new, Wait
  <2>9. planRun.status \notin {"failed", "succeeded"}
    BY <2>3, <1>a DEF Over, Bad
  <2> QED
    BY <2>7, <2>8, <2>9, <1>0, <1>11 DEF EarnedInv, Wait
<1>12. CASE DecideSucceeded(x)
  <2> DEFINE m(i) == [me EXCEPT !.todo = @ \ {i}, !.attempt = 0, !.result = "none",
                                !.snap = NoSnapshot]
  <2>1. PICK i \in me.todo : FirstOf(i, me.todo) /\ new = NextItem(m(i))
    BY <1>12, <1>b DEF DecideSucceeded, me
  <2>2. /\ m(i) \in Executor
        /\ m(i).round = me.round /\ m(i).batch = me.batch /\ m(i).failed = me.failed
        /\ m(i).stopped = me.stopped /\ m(i).roundLost = me.roundLost
        /\ m(i).snap = NoSnapshot
        /\ m(i).launching = me.launching /\ m(i).todo = me.todo \ {i}
    BY <1>h, <1>s DEF Executor
  <2> HIDE DEF m
  <2>3. me.pc = "decide" /\ me.result = "succeeded" /\ (Good(me) => WonLeft(me))
    BY <1>12, <1>e DEF DecideSucceeded, me, Walked, InBatch, AtWork
  <2>4. ItemWon(me.round, i)
    BY <2>1, <2>3, <1>e, <1>h DEF ResultTrue, Key, me, ItemWon
  <2>5. Honest(m(i)) /\ (Good(m(i)) => Good(me))
    BY <2>2, <1>n, <1>e DEF Honest, Good, Bad
  <2>6. Good(m(i)) => WonLeft(m(i))
    BY <2>2, <2>3, <2>4, <2>5 DEF WonLeft, Left, Before
  <2>7. Walked(new) /\ new.pc # "decide"
    BY <2>1, <2>2, <2>5, <2>6, <1>h, <1>d, NextItemWalked
  <2> QED
    BY <1>12, <2>3, <2>7, <1>g DEF DecideSucceeded, Over
<1>13. CASE DecideFailed(x)
  <2>1. PICK i \in me.todo : new = GiveUpOrRetry(me, i)
    BY <1>13, <1>b DEF DecideFailed, me
  <2>2. me.pc = "decide"
    BY <1>13 DEF DecideFailed, me
  <2>3. Walked(new) /\ new.pc # "decide"
    BY <2>1, <2>2, <1>h, <1>e, <1>d, GiveUpOrRetryWalked
  <2> QED
    BY <1>13, <2>2, <2>3, <1>g DEF DecideFailed, Over
<1>14. CASE DecideStopped(x)
  <2> DEFINE looked == [me EXCEPT !.snap = Seen(x)]
             fresh == [me EXCEPT !.snap = NoSnapshot]
  <2>0. me.pc = "decide"
    BY <1>14 DEF DecideStopped, me
  <2>1. /\ looked \in Executor /\ Walked(looked) /\ looked.pc = "decide"
        /\ fresh \in Executor /\ Walked(fresh)
    BY <2>0, <1>l, <1>q DEF Over
  <2>2. \/ UNCHANGED <<planRun, late>> /\ new = LeaveStopped(looked)
        \/ /\ UNCHANGED <<planRun, late>>
           /\ \E i \in me.todo : new = GiveUpOrRetry(looked, i)
        \/ SetStatus("stopped", "none") /\ new = LeaveStopped(fresh)
    BY <1>14, <1>b DEF DecideStopped, StopFromChildRun, me
  <2> HIDE DEF looked, fresh
  <2>3. Walked(new) /\ new.pc # "decide"
    <3>1. /\ Walked(LeaveStopped(looked)) /\ LeaveStopped(looked).pc # "decide"
          /\ Walked(LeaveStopped(fresh)) /\ LeaveStopped(fresh).pc # "decide"
      BY <2>1, StoppedWalked DEF Walked, LeaveStopped, Executor
    <3>2. \A i \in Items : /\ Walked(GiveUpOrRetry(looked, i))
                           /\ GiveUpOrRetry(looked, i).pc # "decide"
      BY <2>1, <1>d, GiveUpOrRetryWalked
    <3> QED
      BY <3>1, <3>2, <2>2, <1>h
  <2>4. CASE UNCHANGED <<planRun, late>>
    BY <1>14, <2>0, <2>3, <2>4, <1>g DEF DecideStopped, Over
  <2>5. CASE SetStatus("stopped", "none")
    BY <1>14, <2>3, <2>5, <1>w DEF DecideStopped, Bad
  <2> QED
    BY <2>2, <2>4, <2>5
<1>15. CASE RetryItem(x)
  <2> DEFINE k(i) == Key(x, i, me.attempt + 1)
  <2>1. PICK i \in me.todo :
           /\ run' = CreatedRun(k(i))
           /\ planRun' = SavedIds(x, me.ids \cup {k(i)})
           /\ new = [me EXCEPT !.pc = "enter", !.ids = me.ids \cup {k(i)},
                               !.attempt = @ + 1, !.snap = NoSnapshot]
    BY <1>15, <1>b DEF RetryItem, me
  <2> HIDE DEF k
  <2>2. me.pc = "recreate"
    BY <1>15 DEF RetryItem, me
  <2>3. /\ new.pc = "enter" /\ new.round = me.round /\ new.batch = me.batch
        /\ new.launching = me.launching /\ new.todo = me.todo /\ new.failed = me.failed
        /\ new.stopped = me.stopped /\ new.roundLost = me.roundLost /\ new.snap = NoSnapshot
    BY <2>1, <1>h DEF Executor
  <2>4. Walked(new)
    BY <2>2, <2>3, <1>e, <1>n, SameWalked DEF InBatch, AtWork, Bad
  <2>5. planRun'.status = planRun.status
    BY <2>1, <1>0 DEF SavedIds, TypeOK, PlanRun
  <2>6. \A r \in Runs : run'[r] = "succeeded" => run[r] = "succeeded"
    BY <2>1, <1>0 DEF CreatedRun, TypeOK
  <2> QED
    BY <1>15, <2>2, <2>3, <2>4, <2>5, <2>6, <1>a, <1>f DEF RetryItem, Over
<1>16. CASE RetryItemFails(x)
  <2>1. PICK i \in me.todo : new = NextItem(Fails(me, i))
    BY <1>16, <1>b DEF RetryItemFails, me
  <2>2. me.pc = "recreate"
    BY <1>16 DEF RetryItemFails, me
  <2>3. Walked(new) /\ new.pc # "decide"
    BY <2>1, <1>h, <1>e, FailsWalked, FailsType, <1>d
  <2> QED
    BY <1>16, <2>2, <2>3, <1>g DEF RetryItemFails, Over
<1>17. CASE Finish(x)
  <2> DEFINE stopped == IF SeesEnd(x) THEN Seen(x).status = "stopped" ELSE me.stopped
  <2>0. me.pc = "finish"
    BY <1>17 DEF Finish, me
  <2>1. PICK pc \in {"recover", "fail", "succeed"} :
           /\ pc = "succeed" => ~stopped /\ me.failed = {}
           /\ new = [me EXCEPT !.stopped = stopped, !.snap = Seen(x), !.pc = pc]
    BY <1>17, <1>b DEF Finish, me
  <2>2. /\ new.pc = pc /\ new.failed = me.failed /\ new.roundLost = me.roundLost
        /\ new.snap = Seen(x)
    BY <2>1, <1>h DEF Executor
  <2>3. Honest(new)
    BY <2>0, <2>2, <1>e, <1>a DEF Honest, Over, Bad
  <2>4. pc = "succeed" => AllItemsWon
    <3> SUFFICES ASSUME pc = "succeed" PROVE AllItemsWon
      OBVIOUS
    <3>1. ~SeesEnd(x) /\ ~me.stopped /\ me.failed = {}
      \* the only end to be seen is a stop
      BY <2>0, <2>1, <1>a DEF SeesEnd, Terminal, Over, Bad
    <3> QED
      BY <3>1, <2>0, <1>e DEF Good, Walked
  <2>5. Walked(new)
    BY <2>2, <2>3, <2>4 DEF Walked, InBatch, AtWork
  <2> QED
    BY <1>17, <2>0, <2>2, <2>5, <1>g DEF Finish, Over
<1>18. CASE Fail(x) \/ Succeed(x)
  <2>1. new = [me EXCEPT !.pc = "recover"]
        \/ new = [me EXCEPT !.pc = "recover", !.snap = NoSnapshot]
    BY <1>18, <1>b DEF Fail, Succeed, me
  <2>2. new.pc = "recover" /\ Honest(new)
    BY <2>1, <1>h, <1>e, <1>n DEF Honest, Executor, Bad
  <2>3. Walked(new)
    BY <2>2 DEF Walked, InBatch, AtWork
  <2> QED
    BY <1>18, <2>2, <2>3, <1>f, <1>w DEF Fail, Succeed, Over
<1>19. CASE Recover(x) \/ Crash(x) \/ NotSent(x)
  <2>1. PICK label \in {"done", "lost"} : new = Gone(label)
    BY <1>19, <1>b DEF Recover, Crash, NotSent
  <2>2. Walked(new) /\ new.pc \in Over /\ new.pc # "decide"
    BY <2>1, GoneWalked DEF Gone, NewExecutor, Over
  <2> QED
    BY <1>19, <2>2, <1>f, <1>w DEF Recover, Crash, NotSent, Over
<1>20. CASE Raise(x)
  <2>1. new = [me EXCEPT !.pc = "fail", !.raised = TRUE, !.launching = {},
                         !.todo = {}, !.attempt = 0, !.result = "none"]
    BY <1>20, <1>b DEF Raise, me
  <2>2. new.pc = "fail" /\ Honest(new)
    BY <2>1, <1>h, <1>e DEF Honest, Executor
  <2>3. Walked(new)
    BY <2>2 DEF Walked, InBatch, AtWork
  <2>4. me.pc \notin Over
    BY <1>20 DEF Raise, me, AtWork, Over
  <2> QED
    BY <1>20, <2>2, <2>3, <2>4, <1>g DEF Raise
<1> QED
  BY <1>1, <1>2, <1>3, <1>4, <1>5, <1>6, <1>7, <1>8, <1>9, <1>10, <1>11, <1>12, <1>13,
     <1>14, <1>15, <1>16, <1>17, <1>18, <1>19, <1>20
     DEF Execute

LEMMA EarnedNext ==
    ASSUME Executors = {First}, Readers = {}
    PROVE  EarnedInv /\ [Next]_vars => EarnedInv'
<1> SUFFICES ASSUME EarnedInv, [Next]_vars PROVE EarnedInv'
  OBVIOUS
<1> USE DEF runs, others
<1>0. TypeInv /\ TypeInv'
  BY NextType DEF EarnedInv
\* Steps of others: the executor stays as it is, and nothing won is lost.
<1>f. ASSUME ex' = ex, won \subseteq won',
             planRun'.status \in {"failed", "succeeded"} => planRun'.status = planRun.status,
             \A k \in Runs : run'[k] = "succeeded" => run[k] = "succeeded" \/ k \in won'
      PROVE  EarnedInv'
  <2>1. ASSUME NEW x \in Executors
        PROVE  Walked(ex[x])' /\ ResultTrue(x)'
    <3>1. Walked(ex[x]) /\ ResultTrue(x)
      BY DEF EarnedInv
    <3>2. \A r, i : ItemWon(r, i) => ItemWon(r, i)'
      BY <1>f DEF ItemWon
    <3> QED
      BY <3>1, <3>2, <1>f
         DEF Walked, Honest, WonBefore, WonLeft, AllItemsWon, ResultTrue, Key, FirstOf,
             Before, Left, Good
  <2> QED
    BY <2>1, <1>f, <1>0 DEF EarnedInv
<1>1. CASE UNCHANGED vars
  BY <1>1, <1>f DEF vars, EarnedInv
<1>2. CASE \E k \in Runs : RunEnds(k)
  <2>1. PICK k \in Runs, s \in RunEnded :
           /\ run' = [run EXCEPT ![k] = s]
           /\ won' = IF s = "succeeded" THEN won \cup {k} ELSE won
    BY <1>2 DEF RunEnds
  <2>2. \A j \in Runs : run'[j] = "succeeded" => run[j] = "succeeded" \/ j \in won'
    BY <2>1, <1>0 DEF TypeInv, TypeOK
  <2> QED
    BY <1>2, <2>1, <2>2, <1>f DEF RunEnds
<1>3. CASE \E c \in Closers : Close(c)
  <2>1. PICK c \in Closers : Close(c)
    BY <1>3
  <2>2. \A k \in Runs : run'[k] = "succeeded" => run[k] = "succeeded"
    BY <2>1, <1>0 DEF Close, CloserLoads, CloserStopsRun, CloserStopRaises, CloserWrites,
                      CloserReleases, TypeInv, TypeOK
  <2>3. planRun'.status \in {"failed", "succeeded"} => planRun'.status = planRun.status
    BY <2>1, <1>0 DEF Close, CloserLoads, CloserStopsRun, CloserStopRaises, CloserWrites,
                      CloserReleases, SetStatus, TypeInv, TypeOK, PlanRun
  <2>4. UNCHANGED <<ex, won>>
    BY <2>1 DEF Close, CloserLoads, CloserStopsRun, CloserStopRaises, CloserWrites,
                CloserReleases
  <2> QED
    BY <2>2, <2>3, <2>4, <1>f
<1>4. CASE GetsOverdue \/ Terminated
  BY <1>4, <1>f DEF GetsOverdue, Terminated, vars
<1> QED
  BY <1>1, <1>2, <1>3, <1>4, EarnedExecute DEF Next

\* An executor declares the plan run succeeded only after every item of every round has had
\* a run that succeeded - whatever users and the watchdog stop, however runs fail, time out,
\* are retried or have their ends corrected, and whatever older rows its transactions see.
THEOREM SuccessEarned ==
    ASSUME Executors = {First}, Readers = {}
    PROVE  Spec => []SuccessIsEarned
<1>1. Init => EarnedInv
  <2> SUFFICES ASSUME Init PROVE EarnedInv
    OBVIOUS
  <2>1. Walked(NewExecutor)
    BY DEF NewExecutor, NoSnapshot, Walked, Honest, InBatch, AtWork
  <2>2. NewExecutor.pc = "queued"
    BY DEF NewExecutor
  <2> QED
    BY <2>1, <2>2, InitType DEF Init, EarnedInv, ResultTrue
<1>2. EarnedInv => SuccessIsEarned
  BY DEF EarnedInv, SuccessIsEarned, Walked
<1> QED
  BY <1>1, <1>2, EarnedNext, PTL DEF Spec

-----------------------------------------------------------------------------
(* What an executor's local state keeps when it walks on or leaves the loops *)

\* Walking on keeps what was noted of a stop, and the snapshot or none.
Follows(me, new) ==
    /\ new \in Executor
    /\ new.stopped = me.stopped
    /\ new.snap \in {me.snap, NoSnapshot}

LEMMA NextBatchFollows ==
    ASSUME NEW me \in Executor
    PROVE  /\ Follows(me, NextBatch(me))
           /\ NextBatch(me).pc \in {"batch", "finish"}
<1>1. NextBatch(me) \in Executor
  BY NextBatchType DEF Proper
<1> QED
  BY <1>1 DEF NextBatch, Follows, Executor

LEMMA NextItemFollows ==
    ASSUME NEW me \in Executor
    PROVE  /\ Follows(me, NextItem(me))
           /\ NextItem(me).pc \in {"guard", "enter", "batch", "finish"}
<1>1. NextItem(me) \in Executor
  BY NextItemType DEF Proper
<1>2. CASE me.launching # {} \/ me.todo # {}
  BY <1>1, <1>2 DEF NextItem, Follows, Executor
<1>3. CASE me.launching = {} /\ me.todo = {}
  BY <1>3, NextBatchFollows DEF NextItem
<1> QED
  BY <1>2, <1>3

LEMMA FailsFollows ==
    ASSUME NEW me \in Executor, NEW i \in Items
    PROVE  /\ Follows(me, Fails(me, i)) /\ Fails(me, i).snap = me.snap
           /\ Fails(me, i).pc = me.pc
<1>1. Fails(me, i) \in Executor
  BY FailsType
<1>2. /\ Fails(me, i).pc = me.pc /\ Fails(me, i).stopped = me.stopped
      /\ Fails(me, i).snap = me.snap
  BY DEF Fails, Executor
<1> QED
  BY <1>1, <1>2 DEF Follows

LEMMA GiveUpOrRetryFollows ==
    ASSUME NEW me \in Executor, NEW i \in Items
    PROVE  /\ Follows(me, GiveUpOrRetry(me, i))
           /\ GiveUpOrRetry(me, i).pc \in {"retry", "guard", "enter", "batch", "finish"}
<1>1. GiveUpOrRetry(me, i) \in Executor
  BY GiveUpOrRetryType DEF Proper
<1>2. CASE me.attempt < Retries(i)
  BY <1>1, <1>2 DEF GiveUpOrRetry, Follows, Executor
<1>3. CASE ~(me.attempt < Retries(i))
  BY <1>3, FailsFollows, NextItemFollows DEF GiveUpOrRetry, Follows
<1> QED
  BY <1>2, <1>3

LEMMA LeaveStoppedFields ==
    ASSUME NEW me \in Executor
    PROVE  /\ LeaveStopped(me) \in Executor /\ LeaveStopped(me).stopped
           /\ LeaveStopped(me).pc = "finish" /\ LeaveStopped(me).snap = me.snap
<1>1. LeaveStopped(me) \in Executor
  BY LeaveStoppedType DEF Proper
<1> QED
  BY <1>1 DEF LeaveStopped, Executor

-----------------------------------------------------------------------------
(* The plan of an ended plan run is given back                               *)
(*                                                                           *)
(* Plan.status is written by executors that know nothing of each other.  The *)
(* invariant names one that still answers for it: while the plan is marked   *)
(* running, some executor will look at the plan run again and find it ended, *)
(* or has died.  Revival makes a new one answer for it.                      *)

Working == AtWork \cup {"fail", "succeed"}

\* x will write Plan.status back if the plan run ends, or has ended, or has died.
Answers(x) ==
    \/ ex[x].pc \in {"begin", "lost"}
    \/ ~Ended /\ ex[x].pc \in Working /\ ~ex[x].stopped /\ ~SeesEnd(x)
    \/ Ended /\ ex[x].pc \in Working /\ (ex[x].stopped => SeesEnd(x))
    \/ Ended /\ ex[x].pc = "recover" /\ SeesEnd(x)

\* An executor starts without a snapshot, and a commit ends the one before the check.
Fresh(me) ==
    /\ me.pc \in {"queued", "mark", "begin"} => ~me.stopped /\ me.snap = NoSnapshot
    /\ me.pc = "check" => me.snap = NoSnapshot

ReleaseInv ==
    /\ TypeInv
    /\ \A x \in Executors : Fresh(ex[x])
    /\ planStatus = "running" => \E x \in Executors : Answers(x)

\* What the session sees of the plan run's status.
LEMMA SeenStatus ==
    ASSUME TypeOK, NEW x \in Executors
    PROVE  /\ Seen(x).status = IF SnapshotReads /\ ex[x].snap # NoSnapshot
                               THEN ex[x].snap.status ELSE planRun.status
           /\ Now # NoSnapshot
           /\ SnapshotReads => Seen(x) # NoSnapshot
<1>1. Now.status = planRun.status /\ planRun.status # "none"
  BY DEF Now, TypeOK, PlanRun, PlanRunStatus, Terminal
<1>2. NoSnapshot.status = "none"
  BY DEF NoSnapshot
<1> QED
  BY <1>1, <1>2 DEF Seen

\* A look, or a commit, changes what the session sees only to what is so.
LEMMA LooksSame ==
    ASSUME TypeInv, TypeInv', NEW x \in Executors, planRun'.status = planRun.status,
           ex'[x].snap \in {ex[x].snap, Seen(x), NoSnapshot, Now}
    PROVE  /\ ~Ended /\ ~SeesEnd(x) => ~SeesEnd(x)'
           /\ Ended /\ SeesEnd(x) => SeesEnd(x)'
<1>1. TypeOK /\ TypeOK'
  BY DEF TypeInv
<1>2. Seen(x).status = IF SnapshotReads /\ ex[x].snap # NoSnapshot
                       THEN ex[x].snap.status ELSE planRun.status
  BY <1>1, SeenStatus
<1>3. Seen(x)'.status = IF SnapshotReads /\ ex'[x].snap # NoSnapshot
                        THEN ex'[x].snap.status ELSE planRun'.status
  BY <1>1 DEF Seen, Now
<1>4. Now.status = planRun.status
  BY DEF Now
<1> QED
  BY <1>2, <1>3, <1>4 DEF SeesEnd, Ended

\* Others' steps leave an executor answering, as long as they do not revive the plan run.
LEMMA AnswersStay ==
    ASSUME TypeInv, TypeInv', NEW x \in Executors, Answers(x), ex'[x] = ex[x],
           Ended => Ended'
    PROVE  Answers(x)'
<1>1. TypeOK /\ TypeOK'
  BY DEF TypeInv
<1>2. Seen(x).status = IF SnapshotReads /\ ex[x].snap # NoSnapshot
                       THEN ex[x].snap.status ELSE planRun.status
  BY <1>1, SeenStatus
<1>3. Seen(x)'.status = IF SnapshotReads /\ ex'[x].snap # NoSnapshot
                        THEN ex'[x].snap.status ELSE planRun'.status
  BY <1>1 DEF Seen, Now
<1> QED
  BY <1>2, <1>3 DEF Answers, SeesEnd, Ended

\* Of the executor's steps only its entry revives the plan run.
LEMMA RevivalStep ==
    ASSUME TypeInv, NEW x \in Executors, Execute(x), ~Begin(x)
    PROVE  Ended => Ended'
<1> SUFFICES ASSUME Ended PROVE Ended'
  OBVIOUS
<1>1. ASSUME NEW status \in Terminal, NEW cause, SetStatus(status, cause)
      PROVE  Ended'
  BY <1>1 DEF SetStatus, TypeInv, TypeOK, PlanRun, Ended
<1>2. ASSUME NEW ids, planRun' = SavedIds(x, ids)
      PROVE  Ended'
  BY <1>2 DEF SavedIds, TypeInv, TypeOK, PlanRun, Ended
<1>3. ASSUME planRun' = [planRun EXCEPT !.cause = "launch_failed"]
      PROVE  Ended'
  BY <1>3 DEF TypeInv, TypeOK, PlanRun, Ended
<1>4. planRun' = planRun => Ended'
  BY DEF Ended
<1> QED
  BY <1>1, <1>2, <1>3, <1>4
     DEF Execute, Enter, MarkPlan, OpenBatch, GuardItem, CreateItem, CreateItemFails,
         CheckItem, StartItem, EnterWait, Wait, DecideSucceeded, DecideFailed,
         DecideStopped, StopFromChildRun, GuardRetry, RetryItem, RetryItemFails,
         Finish, Fail, Succeed, Recover, NotSent, Raise, Crash, Terminal

\* Every step of an executor leaves it fresh where it should be, and answering if it was:
\* unless it gives the plan back.
LEMMA AnswersStep ==
    ASSUME ReleaseInv, TypeInv', NEW x \in Executors, Execute(x), ~Begin(x)
    PROVE  Fresh(ex'[x]) /\ (Answers(x) => planStatus' = "ready" \/ Answers(x)')
<1> USE DEF runs, others
<1> DEFINE me == ex[x]
           new == ex'[x]
           Snaps == {me.snap, Seen(x), NoSnapshot, Now}
           Goal == Fresh(new) /\ (Answers(x) => planStatus' = "ready" \/ Answers(x)')
<1>0. TypeInv /\ TypeOK /\ TypeOK' /\ Fresh(me)
  BY DEF ReleaseInv, TypeInv
<1>s. Seen(x) \in Snapshot /\ Now \in Snapshot /\ NoSnapshot \in Snapshot
  BY <1>0, SeenType
<1>h. /\ me \in Executor
      /\ me.launching \subseteq Items /\ me.todo \subseteq Items
      /\ me.attempt \in 0..MaxRetries /\ 0 \in 0..MaxRetries
  BY <1>0, AtHand
<1>u. /\ [me EXCEPT !.snap = Seen(x)] \in Executor
      /\ [me EXCEPT !.snap = NoSnapshot] \in Executor
      /\ [me EXCEPT !.snap = Seen(x)].stopped = me.stopped
      /\ [me EXCEPT !.snap = Seen(x)].snap = Seen(x)
      /\ [me EXCEPT !.snap = NoSnapshot].stopped = me.stopped
      /\ [me EXCEPT !.snap = NoSnapshot].snap = NoSnapshot
  BY <1>0, <1>s, <1>h, LooksType DEF Executor
<1>b. ASSUME NEW state, Become(x, state)
      PROVE  new = state
  BY <1>b, <1>0 DEF Become, TypeOK
<1>v. /\ Seen(x).status = IF SnapshotReads /\ me.snap # NoSnapshot
                          THEN me.snap.status ELSE planRun.status
      /\ Seen(x)'.status = IF SnapshotReads /\ new.snap # NoSnapshot
                           THEN new.snap.status ELSE planRun'.status
  <2>1. Seen(x)'.status = IF SnapshotReads /\ new.snap # NoSnapshot
                          THEN new.snap.status ELSE planRun'.status
    BY <1>0 DEF Seen, Now
  <2> QED
    BY <2>1, <1>0, SeenStatus
<1>w. ASSUME NEW status, NEW cause, SetStatus(status, cause)
      PROVE  planRun'.status = status
  BY <1>w, <1>0 DEF SetStatus, TypeOK, PlanRun
<1> HIDE DEF me, new, Goal, Snaps
<1> SUFFICES Goal
  BY DEF Goal, new
\* It walks on.
<1>k. ASSUME new.pc \in Working, new.pc # "check" \/ new.snap = NoSnapshot,
             me.pc \in Working, new.stopped = me.stopped,
             new.snap \in Snaps, planRun'.status = planRun.status
      PROVE  Goal
  <2>1. Fresh(new)
    BY <1>k DEF Fresh, Working, AtWork
  <2>2. /\ ~Ended /\ ~SeesEnd(x) => ~SeesEnd(x)'
        /\ Ended /\ SeesEnd(x) => SeesEnd(x)'
    BY <1>k, <1>0, LooksSame DEF ReleaseInv, me, new, Snaps
  <2>3. Ended' = Ended
    BY <1>k DEF Ended
  <2>4. Answers(x) => Answers(x)'
    BY <1>k, <2>2, <2>3 DEF Answers, me, new, Working, AtWork
  <2> QED
    BY <2>1, <2>4 DEF Goal
\* It leaves the loops because the plan run has ended, as far as it sees.
<1>l. ASSUME new.pc \in {"finish", "recover"}, Ended' => SeesEnd(x)', 
             Answers(x) => Ended'
      PROVE  Goal
  <2>1. Fresh(new)
    BY <1>l DEF Fresh
  <2>2. Answers(x) => Answers(x)'
    BY <1>l DEF Answers, new, Working, AtWork
  <2> QED
    BY <2>1, <2>2 DEF Goal
\* It was not answering, and is not at an entry.
<1>n. ASSUME ~Answers(x), new.pc \notin {"queued", "mark", "begin", "check"}
      PROVE  Goal
  BY <1>n DEF Fresh, Goal
<1>1. CASE Enter(x)
  <2>1. me.pc = "queued"
    BY <1>1 DEF Enter, me
  <2>2. ~Answers(x)
    BY <2>1 DEF Answers, me, Working, AtWork
  <2>3. new = Gone("done") \/ new = [me EXCEPT !.pc = "mark"]
    BY <1>1, <1>b DEF Enter, me
  <2>4. Gone("done").pc = "done"
    BY DEF Gone, NewExecutor
  <2>5. Fresh([me EXCEPT !.pc = "mark"])
    BY <1>0, <1>h, <2>1 DEF Fresh, Executor
  <2>6. Fresh(Gone("done"))
    BY <2>4 DEF Fresh
  <2> QED
    BY <2>2, <2>3, <2>5, <2>6 DEF Goal
<1>2. CASE MarkPlan(x)
  <2>1. me.pc = "mark" /\ new = [me EXCEPT !.pc = "begin"]
    BY <1>2, <1>b DEF MarkPlan, me
  <2>2. Fresh(new) /\ new.pc = "begin"
    BY <1>0, <1>h, <2>1 DEF Fresh, Executor
  <2> QED
    BY <2>2 DEF Goal, Answers, new
<1>3. CASE NotSent(x)
  <2>1. me.pc = "queued" /\ new = Gone("done")
    BY <1>3, <1>b DEF NotSent, me
  <2>2. ~Answers(x) /\ new.pc = "done"
    BY <2>1 DEF Answers, me, Working, AtWork, Gone, NewExecutor
  <2> QED
    BY <2>2, <1>n
<1>4. CASE OpenBatch(x)
  <2> DEFINE m == [me EXCEPT !.snap = NoSnapshot]
             batch == Batches[me.batch]
             opened == [me EXCEPT !.pc = "guard", !.launching = batch]
  <2>0. me.pc = "batch" /\ planRun' = planRun
    BY <1>4 DEF OpenBatch, me
  <2>1. \/ Ended /\ new = LeaveStopped(m)
        \/ new = NextBatch(m)
        \/ new = opened
    BY <1>4, <1>b DEF OpenBatch, me
  <2>2. ASSUME Ended, new = LeaveStopped(m)
        PROVE  Goal
    <3>1. new.pc = "finish" /\ new.snap = NoSnapshot
      BY <2>2, <1>u, LeaveStoppedFields
    <3> QED
      BY <3>1, <2>0, <2>2, <1>l, <1>v DEF SeesEnd, Ended
  <2>3. ASSUME new = NextBatch(m)
        PROVE  Goal
    <3>1. new.pc \in {"batch", "finish"} /\ new.stopped = me.stopped
          /\ new.snap = NoSnapshot
      BY <2>3, <1>u, NextBatchFollows DEF Follows
    <3> QED
      BY <3>1, <2>0, <1>k DEF Working, AtWork, Snaps
  <2>4. ASSUME new = opened
        PROVE  Goal
    <3>1. new.pc = "guard" /\ new.stopped = me.stopped /\ new.snap = me.snap
      BY <2>4, <1>h DEF Executor
    <3> QED
      BY <3>1, <2>0, <1>k DEF Working, AtWork, Snaps
  <2> QED
    BY <2>1, <2>2, <2>3, <2>4
\* A look through the session's snapshot that goes on or leaves.
<1>5. ASSUME NEW next, me.pc \in AtWork, next \in AtWork \ {"check"}, planRun' = planRun,
             new = IF SeesEnd(x) THEN LeaveStopped([me EXCEPT !.snap = Seen(x)])
                                 ELSE [me EXCEPT !.pc = next, !.snap = Seen(x)]
      PROVE  Goal
  <2>1. CASE SeesEnd(x)
    <3>1. new.pc = "finish" /\ new.snap = Seen(x)
      BY <1>5, <2>1, <1>u, LeaveStoppedFields
    <3>2. Ended' = Ended
      BY <1>5 DEF Ended
    <3>3. Ended => SeesEnd(x)'
      BY <3>1, <1>5, <1>0, <2>1, LooksSame DEF ReleaseInv, me, new, SeesEnd
    <3>4. Answers(x) => Ended
      BY <1>5, <2>1 DEF Answers, me, AtWork, Working
    <3> QED
      BY <3>1, <3>2, <3>3, <3>4, <1>l
  <2>2. CASE ~SeesEnd(x)
    <3>1. new.pc = next /\ new.stopped = me.stopped /\ new.snap = Seen(x)
      BY <1>5, <2>2, <1>h, <1>s DEF Executor
    <3> QED
      BY <3>1, <1>5, <1>k DEF Working, Snaps
  <2> QED
    BY <2>1, <2>2
<1>6. CASE GuardItem(x)
  <2>1. /\ me.pc = "guard" /\ planRun' = planRun
        /\ new = IF SeesEnd(x) THEN LeaveStopped([me EXCEPT !.snap = Seen(x)])
                 ELSE [me EXCEPT !.pc = "create", !.snap = Seen(x)]
    BY <1>6, <1>b DEF GuardItem, me
  <2> QED
    BY <2>1, <1>5 DEF AtWork
<1>7. CASE GuardRetry(x)
  <2>1. /\ me.pc = "retry" /\ planRun' = planRun
        /\ new = IF SeesEnd(x) THEN LeaveStopped([me EXCEPT !.snap = Seen(x)])
                 ELSE [me EXCEPT !.pc = "recreate", !.snap = Seen(x)]
    BY <1>7, <1>b DEF GuardRetry, me
  <2> QED
    BY <2>1, <1>5 DEF AtWork
<1>8. CASE CreateItem(x)
  <2>1. PICK i \in me.launching :
           /\ planRun' = SavedIds(x, me.ids \cup {Key(x, i, 0)})
           /\ new = [me EXCEPT !.pc = "check", !.ids = me.ids \cup {Key(x, i, 0)},
                               !.snap = NoSnapshot]
    BY <1>8, <1>b DEF CreateItem, me
  <2>2. new.pc = "check" /\ new.stopped = me.stopped /\ new.snap = NoSnapshot
    BY <2>1, <1>h DEF Executor
  <2>3. me.pc = "create" /\ planRun'.status = planRun.status
    BY <1>8, <2>1, <1>0 DEF CreateItem, me, SavedIds, TypeOK, PlanRun
  <2> QED
    BY <2>2, <2>3, <1>k DEF Working, AtWork, Snaps
<1>9. CASE CreateItemFails(x)
  <2>1. PICK i \in me.launching : new = NextItem(Fails([me EXCEPT !.snap = NoSnapshot], i))
    BY <1>9, <1>b DEF CreateItemFails, me
  <2>2. /\ new.pc \in {"guard", "enter", "batch", "finish"}
        /\ new.stopped = me.stopped /\ new.snap = NoSnapshot
    <3> DEFINE m == Fails([me EXCEPT !.snap = NoSnapshot], i)
    <3>1. m \in Executor /\ m.stopped = me.stopped /\ m.snap = NoSnapshot
      BY <1>u, <1>h, FailsFollows DEF Follows
    <3> HIDE DEF m
    <3> QED
      BY <2>1, <3>1, NextItemFollows DEF Follows, m
  <2>3. me.pc = "create" /\ planRun'.status = planRun.status
    BY <1>9, <1>0 DEF CreateItemFails, me, TypeOK, PlanRun
  <2> QED
    BY <2>2, <2>3, <1>k DEF Working, AtWork, Snaps
<1>10. CASE CheckItem(x)
  <2>0. me.pc = "check" /\ planRun' = planRun /\ me.snap = NoSnapshot
    BY <1>10, <1>0 DEF CheckItem, me, Fresh
  <2>1. \/ Ended /\ new = LeaveStopped(me)
        \/ new = [me EXCEPT !.pc = "start", !.snap = Now]
    BY <1>10, <1>b DEF CheckItem, me
  <2>2. ASSUME Ended, new = LeaveStopped(me)
        PROVE  Goal
    <3>1. new.pc = "finish" /\ new.snap = NoSnapshot
      BY <2>0, <2>2, <1>h, LeaveStoppedFields
    <3> QED
      BY <3>1, <2>0, <2>2, <1>l, <1>v DEF SeesEnd, Ended
  <2>3. ASSUME new = [me EXCEPT !.pc = "start", !.snap = Now]
        PROVE  Goal
    <3>1. new.pc = "start" /\ new.stopped = me.stopped /\ new.snap = Now
      BY <2>3, <1>h, <1>s DEF Executor
    <3> QED
      BY <3>1, <2>0, <1>k DEF Working, AtWork, Snaps
  <2> QED
    BY <2>1, <2>2, <2>3
<1>11. CASE StartItem(x)
  <2>1. PICK i \in me.launching :
           new = NextItem([me EXCEPT !.launching = @ \ {i}, !.todo = @ \cup {i}])
    BY <1>11, <1>b DEF StartItem, me
  <2> DEFINE m == [me EXCEPT !.launching = @ \ {i}, !.todo = @ \cup {i}]
  <2>2. m \in Executor /\ m.stopped = me.stopped /\ m.snap = me.snap
    BY <1>h DEF Executor
  <2>3. /\ new.pc \in {"guard", "enter", "batch", "finish"}
        /\ new.stopped = me.stopped /\ new.snap \in {me.snap, NoSnapshot}
    BY <2>1, <2>2, NextItemFollows DEF Follows
  <2>4. me.pc = "start" /\ planRun' = planRun
    BY <1>11 DEF StartItem, me
  <2> QED
    BY <2>3, <2>4, <1>k DEF Working, AtWork, Snaps
<1>12. CASE EnterWait(x)
  <2>1. new = [me EXCEPT !.pc = "wait", !.snap = Seen(x)] /\ me.pc = "enter"
        /\ planRun' = planRun
    BY <1>12, <1>b DEF EnterWait, me
  <2>2. new.pc = "wait" /\ new.stopped = me.stopped /\ new.snap = Seen(x)
    BY <2>1, <1>h, <1>s DEF Executor
  <2> QED
    BY <2>1, <2>2, <1>k DEF Working, AtWork, Snaps
<1>13. CASE Wait(x)
  <2>1. PICK result : new = [me EXCEPT !.pc = "decide", !.result = result]
    BY <1>13, <1>b DEF Wait, me
  <2>2. new.pc = "decide" /\ new.stopped = me.stopped /\ new.snap = me.snap
    BY <2>1, <1>h DEF Executor
  <2>3. me.pc = "wait" /\ planRun' = planRun
    BY <1>13 DEF Wait, me
  <2> QED
    BY <2>2, <2>3, <1>k DEF Working, AtWork, Snaps
<1>14. CASE DecideSucceeded(x)
  <2>1. PICK i \in me.todo :
           new = NextItem([me EXCEPT !.todo = @ \ {i}, !.attempt = 0,
                                     !.result = "none", !.snap = NoSnapshot])
    BY <1>14, <1>b DEF DecideSucceeded, me
  <2> DEFINE m == [me EXCEPT !.todo = @ \ {i}, !.attempt = 0,
                             !.result = "none", !.snap = NoSnapshot]
  <2>2. m \in Executor /\ m.stopped = me.stopped /\ m.snap = NoSnapshot
    BY <1>h, <1>s DEF Executor
  <2>3. /\ new.pc \in {"guard", "enter", "batch", "finish"}
        /\ new.stopped = me.stopped /\ new.snap = NoSnapshot
    BY <2>1, <2>2, NextItemFollows DEF Follows
  <2>4. me.pc = "decide" /\ planRun' = planRun
    BY <1>14 DEF DecideSucceeded, me
  <2> QED
    BY <2>3, <2>4, <1>k DEF Working, AtWork, Snaps
<1>15. CASE DecideFailed(x)
  <2>1. PICK i \in me.todo : new = GiveUpOrRetry(me, i)
    BY <1>15, <1>b DEF DecideFailed, me
  <2>2. /\ new.pc \in {"retry", "guard", "enter", "batch", "finish"}
        /\ new.stopped = me.stopped /\ new.snap \in {me.snap, NoSnapshot}
    BY <2>1, <1>h, GiveUpOrRetryFollows DEF Follows
  <2>3. me.pc = "decide" /\ planRun' = planRun
    BY <1>15 DEF DecideFailed, me
  <2> QED
    BY <2>2, <2>3, <1>k DEF Working, AtWork, Snaps
<1>16. CASE DecideStopped(x)
  <2>0. me.pc = "decide"
    BY <1>16 DEF DecideStopped, me
  <2>1. PICK i \in me.todo :
           \/ /\ SeesEnd(x) /\ UNCHANGED planRun
              /\ new = LeaveStopped([me EXCEPT !.snap = Seen(x)])
           \/ /\ UNCHANGED planRun
              /\ new = GiveUpOrRetry([me EXCEPT !.snap = Seen(x)], i)
           \/ /\ SetStatus("stopped", "none")
              /\ new = LeaveStopped([me EXCEPT !.snap = NoSnapshot])
    BY <1>16, <1>b DEF DecideStopped, StopFromChildRun, me
  <2>2. CASE /\ SeesEnd(x) /\ UNCHANGED planRun
             /\ new = LeaveStopped([me EXCEPT !.snap = Seen(x)])
    BY <2>0, <2>2, <1>5 DEF AtWork
  <2>3. CASE /\ UNCHANGED planRun
             /\ new = GiveUpOrRetry([me EXCEPT !.snap = Seen(x)], i)
    <3>1. /\ new.pc \in {"retry", "guard", "enter", "batch", "finish"}
          /\ new.stopped = me.stopped /\ new.snap \in {Seen(x), NoSnapshot}
      BY <2>3, <1>u, <1>h, GiveUpOrRetryFollows DEF Follows
    <3> QED
      BY <3>1, <2>0, <2>3, <1>k DEF Working, AtWork, Snaps
  <2>4. CASE /\ SetStatus("stopped", "none")
             /\ new = LeaveStopped([me EXCEPT !.snap = NoSnapshot])
    <3>1. new.pc = "finish" /\ new.snap = NoSnapshot
      BY <2>4, <1>u, LeaveStoppedFields
    <3>2. planRun'.status = "stopped"
      BY <2>4, <1>w
    <3> QED
      BY <3>1, <3>2, <1>l, <1>v DEF SeesEnd, Ended, Terminal
  <2> QED
    BY <2>1, <2>2, <2>3, <2>4
<1>17. CASE RetryItem(x)
  <2>1. PICK i \in me.todo :
           LET ids == me.ids \cup {Key(x, i, me.attempt + 1)}
           IN  /\ planRun' = SavedIds(x, ids)
               /\ new = [me EXCEPT !.pc = "enter", !.ids = ids,
                                   !.attempt = @ + 1, !.snap = NoSnapshot]
    BY <1>17, <1>b DEF RetryItem, me
  <2>2. new.pc = "enter" /\ new.stopped = me.stopped /\ new.snap = NoSnapshot
    BY <2>1, <1>h DEF Executor
  <2>3. me.pc = "recreate" /\ planRun'.status = planRun.status
    BY <1>17, <2>1, <1>0 DEF RetryItem, me, SavedIds, TypeOK, PlanRun
  <2> QED
    BY <2>2, <2>3, <1>k DEF Working, AtWork, Snaps
<1>18. CASE RetryItemFails(x)
  <2>1. PICK i \in me.todo : new = NextItem(Fails(me, i))
    BY <1>18, <1>b DEF RetryItemFails, me
  <2>2. /\ new.pc \in {"guard", "enter", "batch", "finish"}
        /\ new.stopped = me.stopped /\ new.snap \in {me.snap, NoSnapshot}
    BY <2>1, <1>h, FailsFollows, NextItemFollows DEF Follows
  <2>3. me.pc = "recreate" /\ planRun' = planRun
    BY <1>18 DEF RetryItemFails, me
  <2> QED
    BY <2>2, <2>3, <1>k DEF Working, AtWork, Snaps
<1>19. CASE Finish(x)
  <2> DEFINE stopped == IF SeesEnd(x) THEN Seen(x).status = "stopped" ELSE me.stopped
             pc == IF stopped THEN "recover"
                   ELSE IF me.aborted \/ me.failed # {} \/ ~AllLaunched(me.ids)
                        THEN "fail" ELSE "succeed"
  <2>0. me.pc = "finish" /\ planRun' = planRun
    BY <1>19 DEF Finish, me
  <2>1. new = [me EXCEPT !.stopped = stopped, !.snap = Seen(x), !.pc = pc]
    BY <1>19, <1>b DEF Finish, me
  <2>2. new.stopped = stopped /\ new.snap = Seen(x) /\ new.pc = pc
    <3> HIDE DEF stopped, pc
    <3> QED
      BY <2>1, <1>h DEF Executor
  <2>3. /\ ~Ended /\ ~SeesEnd(x) => ~SeesEnd(x)'
        /\ Ended /\ SeesEnd(x) => SeesEnd(x)'
    BY <2>0, <2>2, <1>0, LooksSame DEF ReleaseInv, new
  <2>4. Fresh(new)
    BY <2>2 DEF Fresh
  <2>5. Ended' = Ended
    BY <2>0 DEF Ended
  <2>6. ASSUME Answers(x)
        PROVE  Answers(x)'
    <3>1. CASE ~Ended
      <4>1. ~me.stopped /\ ~SeesEnd(x)
        BY <3>1, <2>6, <2>0 DEF Answers, me
      <4> QED
        BY <4>1, <2>2, <2>3, <2>5, <3>1 DEF Answers, new, Working
    <3>2. CASE Ended /\ SeesEnd(x)
      BY <3>2, <2>2, <2>3, <2>5 DEF Answers, new, Working
    <3>3. CASE Ended /\ ~SeesEnd(x)
      <4>1. ~me.stopped
        BY <3>3, <2>6, <2>0 DEF Answers, me
      <4> QED
        BY <4>1, <2>2, <2>5, <3>3 DEF Answers, new, Working
    <3> QED
      BY <3>1, <3>2, <3>3
  <2> QED
    BY <2>4, <2>6 DEF Goal
<1>20. CASE Fail(x)
  <2>0. me.pc = "fail"
    BY <1>20 DEF Fail, me
  <2>1. CASE SeesEnd(x)
    <3>1. new = [me EXCEPT !.pc = "recover"] /\ planRun' = planRun
      BY <1>20, <2>1, <1>b DEF Fail, me
    <3>2. new.pc = "recover" /\ new.snap = me.snap
      BY <3>1, <1>h DEF Executor
    <3>3. Ended /\ SeesEnd(x) => SeesEnd(x)'
      BY <3>1, <3>2, <1>0, LooksSame DEF ReleaseInv, me, new
    <3> QED
      BY <3>1, <3>2, <3>3, <2>0, <2>1, <1>l DEF Answers, me, Ended
  <2>2. CASE ~SeesEnd(x)
    <3>1. /\ \E cause : SetStatus("failed", cause)
          /\ new = [me EXCEPT !.pc = "recover", !.snap = NoSnapshot]
      BY <1>20, <2>2, <1>b DEF Fail, me
    <3>2. new.pc = "recover" /\ new.snap = NoSnapshot
      BY <3>1, <1>h DEF Executor
    <3>3. planRun'.status = "failed"
      BY <3>1, <1>w
    <3> QED
      BY <3>2, <3>3, <1>l, <1>v DEF SeesEnd, Ended, Terminal
  <2> QED
    BY <2>1, <2>2
<1>21. CASE Succeed(x)
  <2>0. me.pc = "succeed"
    BY <1>21 DEF Succeed, me
  <2>1. new = [me EXCEPT !.pc = "recover", !.snap = NoSnapshot]
    BY <1>21, <1>b DEF Succeed, me
  <2>2. new.pc = "recover" /\ new.snap = NoSnapshot
    BY <2>1, <1>h DEF Executor
  <2>3. Ended' => SeesEnd(x)'
    BY <2>2, <1>v DEF SeesEnd, Ended
  <2>4. CASE SetStatus("succeeded", "none")
    <3>1. planRun'.status = "succeeded"
      BY <2>4, <1>w
    <3> QED
      BY <3>1, <2>2, <2>3, <1>l DEF Ended, Terminal
  <2>5. CASE Seen(x).status = "succeeded" /\ planRun' = planRun
    <3>1. SeesEnd(x)
      BY <2>5 DEF SeesEnd, Terminal
    <3>2. Answers(x) => Ended'
      BY <2>0, <2>5, <3>1 DEF Answers, me, Ended
    <3> QED
      BY <3>2, <2>2, <2>3, <1>l
  <2> QED
    BY <1>21, <2>4, <2>5 DEF Succeed
<1>22. CASE Recover(x)
  <2>1. me.pc = "recover" /\ new = Gone("done")
    BY <1>22, <1>b DEF Recover, me
  <2>2. Answers(x) => planStatus' = "ready"
    BY <1>22, <2>1 DEF Recover, Answers, me, Working, AtWork
  <2>3. new.pc = "done"
    BY <2>1 DEF Gone, NewExecutor
  <2> QED
    BY <2>2, <2>3 DEF Fresh, Goal
<1>23. CASE Raise(x)
  <2>1. me.pc \in AtWork /\ planRun' = planRun
        /\ new = [me EXCEPT !.pc = "fail", !.raised = TRUE, !.launching = {},
                            !.todo = {}, !.attempt = 0, !.result = "none"]
    BY <1>23, <1>b DEF Raise, me
  <2>2. new.pc = "fail" /\ new.stopped = me.stopped /\ new.snap = me.snap
    BY <2>1, <1>h DEF Executor
  <2> QED
    BY <2>1, <2>2, <1>k DEF Working, Snaps
<1>24. CASE Crash(x)
  <2>1. new = Gone("lost")
    BY <1>24, <1>b DEF Crash
  <2>2. new.pc = "lost"
    BY <2>1 DEF Gone, NewExecutor
  <2> QED
    BY <2>2 DEF Fresh, Goal, Answers, new
<1> QED
  BY <1>1, <1>2, <1>3, <1>4, <1>6, <1>7, <1>8, <1>9, <1>10, <1>11, <1>12, <1>13, <1>14,
     <1>15, <1>16, <1>17, <1>18, <1>19, <1>20, <1>21, <1>22, <1>23, <1>24
     DEF Execute

\* The steps of closers and readers, and of an executor that revives the plan run, keep an
\* executor answering as well.
LEMMA ReleaseNext == ReleaseInv /\ [Next]_vars => ReleaseInv'
<1> SUFFICES ASSUME ReleaseInv, [Next]_vars PROVE ReleaseInv'
  OBVIOUS
<1> USE DEF runs, others
<1>0. TypeInv /\ TypeInv' /\ TypeOK
  BY NextType DEF ReleaseInv, TypeInv
\* Nobody's step but an executor's entry revives the plan run.
<1>f. ASSUME ex' = ex, planStatus' = planStatus \/ planStatus' = "ready", Ended => Ended'
      PROVE  ReleaseInv'
  <2>1. \A x \in Executors : Fresh(ex'[x])
    BY <1>f DEF ReleaseInv
  <2>2. ASSUME planStatus' = "running"
        PROVE  \E x \in Executors : Answers(x)'
    <3>1. PICK x \in Executors : Answers(x)
      BY <2>2, <1>f DEF ReleaseInv
    <3>2. Answers(x)'
      BY <3>1, <1>f, <1>0, AnswersStay
    <3> QED
      BY <3>2
  <2> QED
    BY <2>1, <2>2, <1>0 DEF ReleaseInv
<1>w. ASSUME NEW status \in Terminal, NEW cause, SetStatus(status, cause)
      PROVE  Ended'
  BY <1>w, <1>0 DEF SetStatus, Ended, TypeOK, PlanRun
<1>1. ASSUME NEW x \in Executors, Execute(x), ~Begin(x)
      PROVE  ReleaseInv'
  <2>1. Fresh(ex'[x]) /\ (Answers(x) => planStatus' = "ready" \/ Answers(x)')
    BY <1>1, <1>0, AnswersStep
  <2>2. \A y \in Executors \ {x} : ex'[y] = ex[y]
    BY <1>1, <1>0
       DEF Execute, Enter, MarkPlan, OpenBatch, GuardItem, CreateItem, CreateItemFails,
           CheckItem, StartItem, EnterWait, Wait, DecideSucceeded, DecideFailed,
           DecideStopped, StopFromChildRun, GuardRetry, RetryItem, RetryItemFails,
           Finish, Fail, Succeed, Recover, NotSent, Raise, Crash, Become, TypeOK
  <2>3. Ended => Ended'
    BY <1>1, <1>0, RevivalStep
  <2>4. \A y \in Executors : Fresh(ex'[y])
    BY <2>1, <2>2 DEF ReleaseInv
  <2>5. ASSUME planStatus' = "running"
        PROVE  \E y \in Executors : Answers(y)'
    <3>1. CASE planStatus = "running"
      <4>1. PICK y \in Executors : Answers(y)
        BY <3>1 DEF ReleaseInv
      <4>2. CASE y = x
        BY <4>1, <4>2, <2>1, <2>5
      <4>3. CASE y # x
        BY <4>1, <4>3, <2>2, <2>3, <1>0, AnswersStay
      <4> QED
        BY <4>2, <4>3
    <3>2. CASE planStatus # "running"
      <4>1. MarkPlan(x)
        BY <1>1, <2>5, <3>2
           DEF Execute, Enter, OpenBatch, GuardItem, CreateItem, CreateItemFails,
               CheckItem, StartItem, EnterWait, Wait, DecideSucceeded, DecideFailed,
               DecideStopped, GuardRetry, RetryItem, RetryItemFails,
               Finish, Fail, Succeed, Recover, NotSent, Raise, Crash
      <4>2. ex'[x].pc = "begin"
        BY <4>1, <1>0 DEF MarkPlan, Become, TypeOK, Executor
      <4> QED
        BY <4>2 DEF Answers
    <3> QED
      BY <3>1, <3>2
  <2> QED
    BY <2>4, <2>5, <1>0 DEF ReleaseInv
<1>2. ASSUME NEW x \in Executors, Begin(x)
      PROVE  ReleaseInv'
  <2>1. /\ ex[x].pc = "begin" /\ ex[x] \in Executor
        /\ ex' = [ex EXCEPT ![x] = [ex[x] EXCEPT !.pc = "batch"]]
        /\ planStatus' = planStatus /\ planRun'.status = "running"
    BY <1>2, <1>0 DEF Begin, Become, SetStatus, TypeOK, PlanRun
  <2>2. ex'[x].pc = "batch" /\ ~ex'[x].stopped /\ ex'[x].snap = NoSnapshot
    BY <2>1, <1>0 DEF ReleaseInv, Fresh, TypeOK, Executor
  <2>3. ~Ended' /\ ~SeesEnd(x)'
    BY <2>1, <2>2 DEF Ended, SeesEnd, Seen, Now, Terminal
  <2>4. Answers(x)'
    BY <2>2, <2>3 DEF Answers, Working, AtWork
  <2>5. \A y \in Executors : Fresh(ex'[y])
    BY <2>1, <2>2, <1>0 DEF ReleaseInv, Fresh, TypeOK
  <2> QED
    BY <2>4, <2>5, <1>0 DEF ReleaseInv
<1>3. ASSUME NEW c \in Closers, Close(c)
      PROVE  ReleaseInv'
  <2>1. ex' = ex /\ (planStatus' = planStatus \/ planStatus' = "ready")
    BY <1>3 DEF Close, CloserLoads, CloserStopsRun, CloserStopRaises, CloserWrites,
                CloserReleases
  <2>2. Ended => Ended'
    BY <1>3, <1>w DEF Close, CloserLoads, CloserStopsRun, CloserStopRaises, CloserWrites,
                      CloserReleases, Ended, Terminal
  <2> QED
    BY <2>1, <2>2, <1>f
<1>4. ASSUME NEW r \in Readers, Read(r)
      PROVE  ReleaseInv'
  <2>1. ex' = ex /\ (planStatus' = planStatus \/ planStatus' = "ready")
    BY <1>4 DEF Read, ReaderLoads, ReaderWrites
  <2>2. Ended => Ended'
    BY <1>4, <1>w, <1>0 DEF Read, ReaderLoads, ReaderWrites, Ended, TypeInv
  <2> QED
    BY <2>1, <2>2, <1>f
<1>5. CASE (\E k \in Runs : RunEnds(k)) \/ GetsOverdue \/ Terminated \/ UNCHANGED vars
  <2>1. ex' = ex /\ planStatus' = planStatus /\ planRun' = planRun
    BY <1>5 DEF RunEnds, GetsOverdue, Terminated, vars
  <2> QED
    BY <2>1, <1>f DEF Ended
<1> QED
  BY <1>1, <1>2, <1>3, <1>4, <1>5 DEF Next

\* Once nobody is at work on an ended plan run - however often it was delivered, stopped,
\* timed out, repaired by a reader or revived in between - its plan can be executed again.
THEOREM PlanReleased == Spec => []PlanIsReleased
<1>1. Init => ReleaseInv
  <2> SUFFICES ASSUME Init PROVE ReleaseInv
    OBVIOUS
  <2>1. Fresh(NewExecutor)
    BY DEF Fresh, NewExecutor
  <2> QED
    BY <2>1, InitType DEF Init, ReleaseInv
<1>2. ReleaseInv => PlanIsReleased
  <2> SUFFICES ASSUME ReleaseInv, Ended, \A x \in Executors : ex[x].pc \in {"queued", "done"}
               PROVE  planStatus = "ready"
    BY DEF PlanIsReleased
  <2>1. \A x \in Executors : ~Answers(x)
    BY DEF Answers, Working, AtWork
  <2> QED
    BY <2>1 DEF ReleaseInv, TypeInv, TypeOK
<1> QED
  BY <1>1, <1>2, ReleaseNext, PTL DEF Spec

-----------------------------------------------------------------------------
(* A stop is prompt                                                          *)
(*                                                                           *)
(* The history variable "late" counts over all executors, so the invariant   *)
(* shares it out: every late run is one of the few slots of the executor     *)
(* that started it, and an executor's slots and what it may still start stay *)
(* within its share.                                                         *)

\* The session goes on seeing the plan run as it was before it ended.
Blind(me) == SnapshotReads /\ me.snap # NoSnapshot /\ me.snap.status \notin Terminal

\* How many more runs an executor may start before it sees that the plan run has ended.
Budget(me) ==
    IF me.pc = "start" THEN LatePerExecutor
    ELSE IF me.pc = "recreate" THEN 1
    ELSE IF me.pc \in {"enter", "wait", "decide", "retry"} /\ Blind(me) THEN 1 ELSE 0

Slots == Executors \X (1..LatePerExecutor)
Shares(own) ==
    /\ own \in [late -> Slots]
    /\ \A k, j \in late : own[k] = own[j] => k = j
    /\ \A k \in late : own[k][2] + Budget(ex[own[k][1]]) <= LatePerExecutor

PromptInv ==
    /\ TypeInv
    /\ Ended \/ late = {}
    /\ \E own : Shares(own)

LEMMA BudgetType ==
    ASSUME NEW me
    PROVE  /\ LatePerExecutor \in {1, 2}
           /\ Budget(me) \in 0..LatePerExecutor
           /\ Blind(me) => LatePerExecutor = 2
           /\ me.pc \notin {"start", "recreate", "enter", "wait", "decide", "retry"}
                => Budget(me) = 0
BY DEF LatePerExecutor, Budget, Blind

\* Once the plan run has ended, a step of an executor uses its budget up by what it starts.
LEMMA BudgetStep ==
    ASSUME TypeInv, NEW x \in Executors, Execute(x), Ended, Ended'
    PROVE  \/ late' = late /\ Budget(ex'[x]) <= Budget(ex[x])
           \/ \E k \in Runs : late' = late \cup {k} /\ Budget(ex'[x]) + 1 <= Budget(ex[x])
<1> USE DEF runs, others
<1> DEFINE me == ex[x]
           new == ex'[x]
           Step == \/ late' = late /\ Budget(new) <= Budget(me)
                   \/ \E k \in Runs : late' = late \cup {k} /\ Budget(new) + 1 <= Budget(me)
<1>0. TypeOK
  BY DEF TypeInv
<1>s. Seen(x) \in Snapshot /\ NoSnapshot \in Snapshot
  BY <1>0, SeenType
<1>h. /\ me \in Executor
      /\ me.launching \subseteq Items /\ me.todo \subseteq Items
      /\ me.attempt \in 0..MaxRetries /\ 0 \in 0..MaxRetries
      /\ me.pc \in {"retry", "recreate"} => me.attempt < MaxRetries
  BY <1>0, AtHand DEF RetryLeft
<1>u. /\ [me EXCEPT !.snap = Seen(x)] \in Executor
      /\ [me EXCEPT !.snap = NoSnapshot] \in Executor
      /\ [me EXCEPT !.snap = Seen(x)].snap = Seen(x)
      /\ [me EXCEPT !.snap = NoSnapshot].snap = NoSnapshot
  BY <1>s, <1>h, LooksType DEF Executor
<1>b. ASSUME NEW state, Become(x, state)
      PROVE  new = state
  BY <1>b, <1>0 DEF Become, TypeOK
\* What the session sees is blind only if its snapshot is.
<1>v. SeesEnd(x) <=> ~Blind(me)
  <2>1. Seen(x).status = IF SnapshotReads /\ me.snap # NoSnapshot
                         THEN me.snap.status ELSE planRun.status
    BY <1>0, SeenStatus
  <2> QED
    BY <2>1 DEF SeesEnd, Ended, Blind
<1>r. ASSUME NEW m, m.snap \in {me.snap, Seen(x), NoSnapshot}
      PROVE  Blind(m) => Blind(me)
  <2>1. /\ Seen(x).status = IF SnapshotReads /\ me.snap # NoSnapshot
                            THEN me.snap.status ELSE planRun.status
    BY <1>0, SeenStatus
  <2> QED
    BY <2>1, <1>r DEF Ended, Blind
<1>t. ASSUME NEW status \in Terminal, NEW cause, SetStatus(status, cause)
      PROVE  late' = late
  BY <1>t DEF SetStatus
<1> HIDE DEF me, new, Step
<1> SUFFICES Step
  BY DEF Step, me, new
\* It goes where there is no more to start.
<1>n. ASSUME late' = late,
             new.pc \notin {"start", "recreate", "enter", "wait", "decide", "retry"}
      PROVE  Step
  BY <1>n, BudgetType DEF Step
\* It walks on without starting anything.
<1>k. ASSUME late' = late,
             me.pc \in {"enter", "wait", "decide", "retry", "recreate"},
             new.pc \in {"enter", "wait", "decide", "retry", "guard", "batch", "finish"},
             new.snap \in {me.snap, Seen(x), NoSnapshot}
      PROVE  Step
  <2>1. Blind(new) => Blind(me)
    BY <1>k, <1>r
  <2> QED
    BY <2>1, <1>k DEF Step, Budget
<1>1. CASE Enter(x) \/ MarkPlan(x) \/ NotSent(x) \/ Recover(x) \/ Raise(x) \/ Crash(x)
  <2>1. /\ new \in {Gone("done"), Gone("lost"), [me EXCEPT !.pc = "mark"],
                    [me EXCEPT !.pc = "begin"],
                    [me EXCEPT !.pc = "fail", !.raised = TRUE, !.launching = {},
                                !.todo = {}, !.attempt = 0, !.result = "none"]}
        /\ late' = late
    BY <1>1, <1>b, <1>t
       DEF Enter, MarkPlan, NotSent, Recover, Raise, Crash, me, Terminal
  <2>2. new.pc \in {"done", "lost", "mark", "begin", "fail"}
    BY <2>1, <1>h DEF Gone, NewExecutor, Executor
  <2> QED
    BY <2>1, <2>2, <1>n
<1>2. CASE Begin(x)
  <2>1. planRun'.status = "running"
    BY <1>2, <1>0 DEF Begin, SetStatus, TypeOK, PlanRun
  <2> QED
    BY <2>1 DEF Ended, Terminal
<1>3. CASE OpenBatch(x)
  <2> DEFINE batch == Batches[me.batch]
             opened == [me EXCEPT !.pc = "guard", !.launching = batch]
             m == [me EXCEPT !.snap = NoSnapshot]
  <2>1. late' = late /\ new \in {LeaveStopped(m), NextBatch(m), opened}
    BY <1>3, <1>b DEF OpenBatch, me
  <2>2. opened.pc = "guard"
    BY <1>h DEF Executor
  <2> HIDE DEF batch
  <2>3. new.pc \in {"finish", "batch", "guard"}
    BY <2>1, <2>2, <1>u, LeaveStoppedFields, NextBatchFollows
  <2> QED
    BY <2>1, <2>3, <1>n
<1>4. CASE GuardItem(x)
  <2>1. /\ late' = late
        /\ new \in {LeaveStopped([me EXCEPT !.snap = Seen(x)]),
                    [me EXCEPT !.pc = "create", !.snap = Seen(x)]}
    BY <1>4, <1>b DEF GuardItem, me
  <2>2. new.pc \in {"finish", "create"}
    <3>1. [me EXCEPT !.pc = "create", !.snap = Seen(x)].pc = "create"
      BY <1>h DEF Executor
    <3> QED
      BY <2>1, <3>1, <1>u, LeaveStoppedFields
  <2> QED
    BY <2>1, <2>2, <1>n
<1>5. CASE CreateItem(x)
  <2>1. PICK ids : late' = late /\ new = [me EXCEPT !.pc = "check", !.ids = ids,
                                                    !.snap = NoSnapshot]
    BY <1>5, <1>b DEF CreateItem, me
  <2>2. new.pc = "check"
    BY <2>1, <1>h DEF Executor
  <2> QED
    BY <2>1, <2>2, <1>n
<1>6. CASE CreateItemFails(x)
  <2>1. PICK i \in me.launching : new = NextItem(Fails([me EXCEPT !.snap = NoSnapshot], i))
    BY <1>6, <1>b DEF CreateItemFails, me
  <2>2. late' = late
    BY <1>6 DEF CreateItemFails
  <2> DEFINE m == Fails([me EXCEPT !.snap = NoSnapshot], i)
  <2>3. m \in Executor /\ m.snap = NoSnapshot
    BY <1>u, <1>h, FailsFollows DEF Follows
  <2> HIDE DEF m
  <2>4. new.pc \in {"guard", "enter", "batch", "finish"} /\ new.snap = NoSnapshot
    BY <2>1, <2>3, NextItemFollows DEF Follows, m
  <2>5. Budget(new) = 0
    BY <2>4 DEF Budget, Blind
  <2> QED
    BY <2>2, <2>5, BudgetType DEF Step
<1>7. CASE CheckItem(x)
  <2>1. late' = late /\ new = LeaveStopped(me)
    BY <1>7, <1>b DEF CheckItem, me
  <2>2. new.pc = "finish"
    BY <2>1, <1>h, LeaveStoppedFields
  <2> QED
    BY <2>1, <2>2, <1>n
<1>8. CASE StartItem(x)
  <2>1. PICK i \in me.launching :
           /\ Start(Key(x, i, 0))
           /\ new = NextItem([me EXCEPT !.launching = @ \ {i}, !.todo = @ \cup {i}])
    BY <1>8, <1>b DEF StartItem, me
  <2> DEFINE m == [me EXCEPT !.launching = @ \ {i}, !.todo = @ \cup {i}]
  <2>2. m \in Executor /\ m.snap = me.snap
    BY <1>h DEF Executor
  <2>3. new.pc \in {"guard", "enter", "batch", "finish"} /\ new.snap \in {me.snap, NoSnapshot}
    BY <2>1, <2>2, NextItemFollows DEF Follows
  <2>4. Blind(new) => Blind(me)
    BY <2>3, <1>r
  <2>5. me.pc = "start"
    BY <1>8 DEF StartItem, me
  <2>6. Budget(me) = LatePerExecutor /\ Budget(new) + 1 <= Budget(me)
    BY <2>3, <2>4, <2>5, BudgetType DEF Budget, LatePerExecutor, Blind
  <2>7. Key(x, i, 0) \in Runs
    BY <1>0, <1>h, KeyType
  <2>8. late' \in {late, late \cup {Key(x, i, 0)}}
    BY <2>1 DEF Start
  <2> QED
    BY <2>6, <2>7, <2>8, BudgetType DEF Step
<1>9. CASE EnterWait(x)
  <2>1. late' = late /\ me.pc = "enter" /\ new = [me EXCEPT !.pc = "wait", !.snap = Seen(x)]
    BY <1>9, <1>b DEF EnterWait, me
  <2>2. new.pc = "wait" /\ new.snap = Seen(x)
    BY <2>1, <1>h DEF Executor
  <2> QED
    BY <2>1, <2>2, <1>k
<1>10. CASE Wait(x)
  <2>1. PICK result : new = [me EXCEPT !.pc = "decide", !.result = result]
    BY <1>10, <1>b DEF Wait, me
  <2>2. late' = late /\ me.pc = "wait" /\ new.pc = "decide" /\ new.snap = me.snap
    BY <1>10, <2>1, <1>h DEF Wait, me, Executor
  <2> QED
    BY <2>2, <1>k
<1>11. CASE DecideSucceeded(x)
  <2>1. PICK i \in me.todo :
           new = NextItem([me EXCEPT !.todo = @ \ {i}, !.attempt = 0,
                                     !.result = "none", !.snap = NoSnapshot])
    BY <1>11, <1>b DEF DecideSucceeded, me
  <2> DEFINE m == [me EXCEPT !.todo = @ \ {i}, !.attempt = 0,
                             !.result = "none", !.snap = NoSnapshot]
  <2>2. m \in Executor /\ m.snap = NoSnapshot
    BY <1>h, <1>s DEF Executor
  <2>3. new.pc \in {"guard", "enter", "batch", "finish"} /\ new.snap = NoSnapshot
    BY <2>1, <2>2, NextItemFollows DEF Follows
  <2>4. late' = late /\ me.pc = "decide"
    BY <1>11 DEF DecideSucceeded, me
  <2> QED
    BY <2>3, <2>4, <1>k
<1>12. CASE DecideFailed(x)
  <2>1. PICK i \in me.todo : new = GiveUpOrRetry(me, i)
    BY <1>12, <1>b DEF DecideFailed, me
  <2>2. /\ new.pc \in {"retry", "guard", "enter", "batch", "finish"}
        /\ new.snap \in {me.snap, NoSnapshot}
    BY <2>1, <1>h, GiveUpOrRetryFollows DEF Follows
  <2>3. late' = late /\ me.pc = "decide"
    BY <1>12 DEF DecideFailed, me
  <2> QED
    BY <2>2, <2>3, <1>k
<1>13. CASE DecideStopped(x)
  <2>0. me.pc = "decide" /\ late' = late
    BY <1>13, <1>t DEF DecideStopped, StopFromChildRun, me, Terminal
  <2>1. PICK i \in me.todo :
           \/ new = LeaveStopped([me EXCEPT !.snap = Seen(x)])
           \/ new = GiveUpOrRetry([me EXCEPT !.snap = Seen(x)], i)
           \/ new = LeaveStopped([me EXCEPT !.snap = NoSnapshot])
    BY <1>13, <1>b DEF DecideStopped, StopFromChildRun, me
  <2>2. /\ new.pc \in {"retry", "guard", "enter", "batch", "finish"}
        /\ new.snap \in {Seen(x), NoSnapshot}
    <3>1. CASE new = GiveUpOrRetry([me EXCEPT !.snap = Seen(x)], i)
      BY <3>1, <1>u, <1>h, GiveUpOrRetryFollows DEF Follows
    <3> QED
      BY <2>1, <3>1, <1>u, LeaveStoppedFields
  <2> QED
    BY <2>0, <2>2, <1>k
<1>14. CASE GuardRetry(x)
  <2>1. late' = late /\ me.pc = "retry"
    BY <1>14 DEF GuardRetry, me
  <2>2. CASE SeesEnd(x)
    <3>1. new = LeaveStopped([me EXCEPT !.snap = Seen(x)])
      BY <1>14, <2>2, <1>b DEF GuardRetry, me
    <3>2. new.pc = "finish"
      BY <3>1, <1>u, LeaveStoppedFields
    <3> QED
      BY <2>1, <3>2, <1>n
  <2>3. CASE ~SeesEnd(x)
    <3>1. new = [me EXCEPT !.pc = "recreate", !.snap = Seen(x)]
      BY <1>14, <2>3, <1>b DEF GuardRetry, me
    <3>2. new.pc = "recreate"
      BY <3>1, <1>h DEF Executor
    <3>3. Budget(me) = 1 /\ Budget(new) = 1
      BY <2>1, <2>3, <3>2, <1>v DEF Budget
    <3> QED
      BY <2>1, <3>3 DEF Step
  <2> QED
    BY <2>2, <2>3
<1>15. CASE RetryItem(x)
  <2>1. PICK i \in me.todo :
           LET k == Key(x, i, me.attempt + 1)
           IN  /\ late' \in {late, late \cup {k}}
               /\ new = [me EXCEPT !.pc = "enter", !.ids = me.ids \cup {k},
                                   !.attempt = @ + 1, !.snap = NoSnapshot]
    BY <1>15, <1>b DEF RetryItem, me
  <2>2. me.pc = "recreate"
    BY <1>15 DEF RetryItem, me
  <2>3. new.pc = "enter" /\ new.snap = NoSnapshot
    BY <2>1, <1>h DEF Executor
  <2>4. Budget(me) = 1 /\ Budget(new) = 0
    BY <2>2, <2>3 DEF Budget, Blind
  <2>5. Key(x, i, me.attempt + 1) \in Runs
    <3>1. me.attempt + 1 \in 0..MaxRetries
      BY <2>2, <1>h, PlanAssumption
    <3> QED
      BY <3>1, <1>0, <1>h, KeyType
  <2> QED
    BY <2>1, <2>4, <2>5 DEF Step
<1>16. CASE RetryItemFails(x)
  <2>1. PICK i \in me.todo : new = NextItem(Fails(me, i))
    BY <1>16, <1>b DEF RetryItemFails, me
  <2>2. /\ new.pc \in {"guard", "enter", "batch", "finish"}
        /\ new.snap \in {me.snap, NoSnapshot}
    BY <2>1, <1>h, FailsFollows, NextItemFollows DEF Follows
  <2>3. late' = late /\ me.pc = "recreate"
    BY <1>16 DEF RetryItemFails, me
  <2> QED
    BY <2>2, <2>3, <1>k
<1>17. CASE Finish(x)
  <2> DEFINE stopped == IF SeesEnd(x) THEN Seen(x).status = "stopped" ELSE me.stopped
             pc == IF stopped THEN "recover"
                   ELSE IF me.aborted \/ me.failed # {} \/ ~AllLaunched(me.ids)
                        THEN "fail" ELSE "succeed"
  <2>1. /\ new = [me EXCEPT !.stopped = stopped, !.snap = Seen(x), !.pc = pc]
        /\ pc \in {"recover", "fail", "succeed"}
    BY <1>17, <1>b DEF Finish, me
  <2> HIDE DEF stopped, pc
  <2>2. late' = late
    BY <1>17 DEF Finish
  <2>3. new.pc \in {"recover", "fail", "succeed"}
    BY <2>1, <1>h DEF Executor
  <2> QED
    BY <2>2, <2>3, <1>n
<1>18. CASE Fail(x) \/ Succeed(x)
  <2>1. late' = late
    BY <1>18, <1>t DEF Fail, Succeed, Terminal
  <2>2. new \in {[me EXCEPT !.pc = "recover"],
                 [me EXCEPT !.pc = "recover", !.snap = NoSnapshot]}
    BY <1>18, <1>b DEF Fail, Succeed, me
  <2>3. new.pc = "recover"
    BY <2>2, <1>h DEF Executor
  <2> QED
    BY <2>1, <2>3, <1>n
<1> QED
  BY <1>1, <1>2, <1>3, <1>4, <1>5, <1>6, <1>7, <1>8, <1>9, <1>10, <1>11, <1>12, <1>13,
     <1>14, <1>15, <1>16, <1>17, <1>18
     DEF Execute

LEMMA PromptNext == PromptInv /\ [Next]_vars => PromptInv'
<1> SUFFICES ASSUME PromptInv, [Next]_vars PROVE PromptInv'
  OBVIOUS
<1> USE DEF runs, others
<1>0. TypeInv /\ TypeInv' /\ TypeOK /\ TypeOK'
  BY NextType DEF PromptInv, TypeInv
<1>1. PICK own : Shares(own)
  BY DEF PromptInv
\* A plan run that is active has no late runs, nor has one that ends with this step.
<1>e. ASSUME late' = {}
      PROVE  PromptInv'
  <2>1. Shares([k \in {} |-> 0])'
    BY <1>e DEF Shares
  <2> QED
    BY <2>1, <1>e, <1>0 DEF PromptInv
\* Nothing that counts has changed.
<1>f. ASSUME late' = late, Ended => Ended',
             \A x \in Executors : Budget(ex'[x]) <= Budget(ex[x])
      PROVE  PromptInv'
  <2>1. \A k \in late : own[k] \in Slots /\ own[k][1] \in Executors /\ own[k][2] \in Nat
    BY <1>1 DEF Shares, Slots, LatePerExecutor
  <2>2. \A k \in late : own[k][2] + Budget(ex'[own[k][1]]) <= LatePerExecutor
    BY <2>1, <1>1, <1>f, BudgetType DEF Shares
  <2>3. Shares(own)'
    BY <2>2, <1>1, <1>f DEF Shares, Slots, LatePerExecutor, Budget, Blind
  <2> QED
    BY <2>3, <1>f, <1>0 DEF PromptInv
<1>g. ASSUME ex' = ex, late' = late \/ late' = {}, Ended => Ended' \/ late' = {}
      PROVE  PromptInv'
  <2>1. \A x \in Executors : Budget(ex'[x]) <= Budget(ex[x])
    BY <1>g, BudgetType
  <2> QED
    BY <2>1, <1>g, <1>e, <1>f DEF PromptInv
<1>s. ASSUME NEW status, NEW cause, SetStatus(status, cause)
      PROVE  (Ended' /\ late' = late) \/ late' = {}
  BY <1>s, <1>0 DEF SetStatus, Ended, TypeOK, PlanRun
<1>2. ASSUME NEW x \in Executors, Execute(x)
      PROVE  PromptInv'
  <2>1. CASE ~Ended
    <3>1. late = {}
      BY <2>1 DEF PromptInv
    <3>2. late' = {}
      BY <1>2, <2>1, <3>1
         DEF Execute, Enter, MarkPlan, Begin, OpenBatch, GuardItem, CreateItem,
             CreateItemFails, CheckItem, StartItem, Start, EnterWait, Wait,
             DecideSucceeded, DecideFailed, DecideStopped, StopFromChildRun, GuardRetry,
             RetryItem, RetryItemFails, Finish, Fail, Succeed, Recover, NotSent, Raise,
             Crash, SetStatus
    <3> QED
      BY <3>2, <1>e
  <2>2. CASE Ended /\ Begin(x)
    <3>1. late' = {}
      BY <2>2 DEF Begin, SetStatus, Terminal
    <3> QED
      BY <3>1, <1>e
  <2>3. CASE Ended /\ ~Begin(x)
    <3>1. Ended'
      BY <1>2, <2>3, <1>0, RevivalStep
    <3>2. \A y \in Executors \ {x} : ex'[y] = ex[y]
      BY <1>2, <1>0
         DEF Execute, Enter, MarkPlan, Begin, OpenBatch, GuardItem, CreateItem,
             CreateItemFails, CheckItem, StartItem, EnterWait, Wait, DecideSucceeded,
             DecideFailed, DecideStopped, StopFromChildRun, GuardRetry, RetryItem,
             RetryItemFails, Finish, Fail, Succeed, Recover, NotSent, Raise, Crash,
             Become, TypeOK
    <3>3. CASE late' = late /\ Budget(ex'[x]) <= Budget(ex[x])
      <4>1. \A y \in Executors : Budget(ex'[y]) <= Budget(ex[y])
        BY <3>2, <3>3, BudgetType
      <4> QED
        BY <4>1, <3>1, <3>3, <1>f
    <3>4. CASE \E k \in Runs : late' = late \cup {k} /\ Budget(ex'[x]) + 1 <= Budget(ex[x])
      <4>1. PICK k \in Runs : late' = late \cup {k} /\ Budget(ex'[x]) + 1 <= Budget(ex[x])
        BY <3>4
      <4>2. CASE k \in late
        <5>1. \A y \in Executors : Budget(ex'[y]) <= Budget(ex[y])
          BY <3>2, <4>1, BudgetType
        <5>2. late' = late
          BY <4>1, <4>2
        <5> QED
          BY <5>1, <5>2, <3>1, <1>f
      <4>3. CASE k \notin late
        <5> DEFINE slot == LatePerExecutor - Budget(ex[x]) + 1
        <5>0. PICK new : new = [j \in late' |-> IF j = k THEN <<x, slot>> ELSE own[j]]
          OBVIOUS
        <5>1. /\ Budget(ex[x]) \in 1..LatePerExecutor /\ LatePerExecutor \in {1, 2}
              /\ Budget(ex'[x]) \in 0..LatePerExecutor
          BY <4>1, BudgetType
        <5>2. slot \in 1..LatePerExecutor /\ slot + Budget(ex'[x]) <= LatePerExecutor
          BY <5>1, <4>1
        <5>3. /\ \A j \in late : own[j] \in Slots /\ own[j][2] \in 1..LatePerExecutor
              /\ \A j \in late : own[j][1] \in Executors
          BY <1>1 DEF Shares, Slots
        <5>4. \A j \in late : own[j] # <<x, slot>>
          <6>1. SUFFICES ASSUME NEW j \in late, own[j] = <<x, slot>> PROVE FALSE
            OBVIOUS
          <6>2. own[j][2] + Budget(ex[own[j][1]]) <= LatePerExecutor
            BY <1>1 DEF Shares
          <6>3. own[j][1] = x /\ own[j][2] = slot
            BY <6>1
          <6> QED
            BY <6>2, <6>3, <5>1
        <5> HIDE DEF slot
        <5>5. new \in [late' -> Slots]
          BY <5>0, <5>2, <5>3, <4>1 DEF Slots
        <5>6. \A i, j \in late' : new[i] = new[j] => i = j
          <6>1. \A i, j \in late : own[i] = own[j] => i = j
            BY <1>1 DEF Shares
          <6>2. \A i \in late : new[i] = own[i]
            BY <5>0, <4>1, <4>3
          <6>3. new[k] = <<x, slot>>
            BY <5>0, <4>1
          <6> QED
            BY <6>1, <6>2, <6>3, <5>4, <4>1
        <5>7. \A j \in late' : new[j][2] + Budget(ex'[new[j][1]]) <= LatePerExecutor
          <6>1. SUFFICES ASSUME NEW j \in late'
                         PROVE  new[j][2] + Budget(ex'[new[j][1]]) <= LatePerExecutor
            OBVIOUS
          <6>2. CASE j = k
            <7>1. new[j] = <<x, slot>>
              BY <5>0, <6>1, <6>2
            <7>2. new[j][1] = x /\ new[j][2] = slot
              BY <7>1
            <7> QED
              BY <7>2, <5>2
          <6>3. CASE j # k
            <7>1. j \in late /\ new[j] = own[j]
              BY <5>0, <6>1, <6>3, <4>1
            <7>2. own[j][2] + Budget(ex[own[j][1]]) <= LatePerExecutor
              BY <7>1, <1>1 DEF Shares
            <7>3. Budget(ex'[own[j][1]]) <= Budget(ex[own[j][1]])
              BY <7>1, <5>3, <3>2, <4>1, BudgetType
            <7>4. /\ own[j][2] \in Nat /\ Budget(ex[own[j][1]]) \in Nat
                  /\ Budget(ex'[own[j][1]]) \in Nat
              BY <7>1, <5>3, BudgetType
            <7> QED
              BY <7>1, <7>2, <7>3, <7>4, <5>1
          <6> QED
            BY <6>2, <6>3
        <5>8. Shares(new)'
          BY <5>5, <5>6, <5>7 DEF Shares, Slots, LatePerExecutor, Budget, Blind
        <5> QED
          BY <5>8, <3>1, <1>0 DEF PromptInv
      <4> QED
        BY <4>2, <4>3
    <3> QED
      BY <3>3, <3>4, <3>1, <1>2, <1>0, <2>3, BudgetStep
  <2> QED
    BY <2>1, <2>2, <2>3
<1>3. ASSUME NEW c \in Closers, Close(c)
      PROVE  PromptInv'
  <2>1. ex' = ex
    BY <1>3 DEF Close, CloserLoads, CloserStopsRun, CloserStopRaises, CloserWrites,
                CloserReleases
  <2>2. (late' = late /\ (Ended => Ended')) \/ late' = {}
    BY <1>3, <1>s DEF Close, CloserLoads, CloserStopsRun, CloserStopRaises, CloserWrites,
                      CloserReleases, Ended
  <2> QED
    BY <2>1, <2>2, <1>g
<1>4. ASSUME NEW r \in Readers, Read(r)
      PROVE  PromptInv'
  <2>1. ex' = ex
    BY <1>4 DEF Read, ReaderLoads, ReaderWrites
  <2>2. (late' = late /\ (Ended => Ended')) \/ late' = {}
    BY <1>4, <1>s DEF Read, ReaderLoads, ReaderWrites, Ended
  <2> QED
    BY <2>1, <2>2, <1>g
<1>5. CASE (\E k \in Runs : RunEnds(k)) \/ GetsOverdue \/ Terminated \/ UNCHANGED vars
  <2>1. ex' = ex /\ late' = late /\ planRun' = planRun
    BY <1>5 DEF RunEnds, GetsOverdue, Terminated, vars
  <2> QED
    BY <2>1, <1>g DEF Ended
<1> QED
  BY <1>2, <1>3, <1>4, <1>5 DEF Next

\* However many deliveries are at work, whoever ends the plan run, and however often it is
\* revived and ended again: since its last end no executor has started more than the one run
\* it had looked before starting, and the one retry an older transaction let through.
THEOREM StopPrompt ==
    ASSUME IsFiniteSet(Executors)
    PROVE  Spec => []StopIsPrompt
<1>1. Init => PromptInv
  <2> SUFFICES ASSUME Init PROVE PromptInv
    OBVIOUS
  <2>1. late = {}
    BY DEF Init
  <2>2. Shares([k \in {} |-> 0])
    BY <2>1 DEF Shares
  <2> QED
    BY <2>1, <2>2, InitType DEF PromptInv
<1>2. PromptInv => StopIsPrompt
  <2> SUFFICES ASSUME PromptInv PROVE StopIsPrompt
    OBVIOUS
  <2>1. PICK own : Shares(own)
    BY DEF PromptInv
  <2>2. /\ IsFiniteSet(1..LatePerExecutor)
        /\ Cardinality(1..LatePerExecutor) = LatePerExecutor
    BY FS_Interval DEF LatePerExecutor
  <2>3. /\ IsFiniteSet(Slots)
        /\ Cardinality(Slots) = Cardinality(Executors) * LatePerExecutor
    BY <2>2, FS_Product DEF Slots
  <2>4. own \in Injection(late, Slots)
    BY <2>1 DEF Shares, Injection, IsInjective
  <2>5. Cardinality(late) <= Cardinality(Slots)
    BY <2>3, <2>4, FS_Injection
  <2>6. Cardinality(Executors) \in Nat /\ LatePerExecutor \in {1, 2}
    BY FS_CardinalityType, BudgetType
  <2>7. Cardinality(Executors) * LatePerExecutor = LatePerExecutor * Cardinality(Executors)
    BY <2>6
  <2> QED
    BY <2>3, <2>5, <2>7 DEF StopIsPrompt
<1> QED
  BY <1>1, <1>2, PromptNext, PTL DEF Spec

-----------------------------------------------------------------------------
(* An item that must not fail ends its round                                 *)
(*                                                                           *)
(* The invariant says where the runs of a plan are while its executor walks  *)
(* it: nothing is launched ahead of the current batch, and an ABORT item     *)
(* that failed in this round is one of the current batch, which is lost.  It *)
(* holds of an executor that is alone: a second delivery walks the same      *)
(* rounds for itself.  The runs are a parameter, as they change beside it.   *)

\* All runs are of earlier rounds, or of this one up to the current batch.
NoneAhead(f, me) ==
    \A r \in Rounds, j \in Items, a \in 0..MaxRetries : f[<<r, j, a>>] # "none" =>
       r < me.round \/ (r = me.round /\ \E c \in 1..me.batch : j \in Batches[c])

\* The items at hand are the current batch's.
AtHandOnly(me) ==
    /\ me.launching \subseteq Batches[me.batch] /\ me.todo \subseteq Batches[me.batch]
    /\ me.pc \in {"queued", "mark", "begin", "batch"} => me.launching = {} /\ me.todo = {}

\* No item of a batch after b was launched in round r.
NoneAfter(f, r, b) ==
    \A c \in 1..Len(Batches), a \in 0..MaxRetries : \A j \in Batches[c] :
       b < c => f[<<r, j, a>>] = "none"
FailuresKnown(f, me) ==
    \A r \in Rounds, b \in 1..Len(Batches) : \A i \in Batches[b] \cap AbortItems :
       <<r, i>> \in me.failed =>
          \/ r < me.round /\ NoneAfter(f, r, b)
          \/ r = me.round /\ b = me.batch /\ me.roundLost

InRound(f, me) == NoneAhead(f, me) /\ AtHandOnly(me) /\ FailuresKnown(f, me)

AbortInv ==
    /\ TypeInv
    /\ \A x \in Executors : IF ex[x].pc \in {"done", "lost"} THEN ex[x].failed = {}
                                                          ELSE InRound(run, ex[x])

\* A state that differs in nothing of this, and no more runs.
LEMMA SameRound ==
    ASSUME NEW f, NEW g, NEW me, NEW new, InRound(f, me),
           \A k \in Runs : g[k] # "none" => f[k] # "none",
           new.round = me.round, new.batch = me.batch, new.failed = me.failed,
           new.roundLost = me.roundLost,
           new.launching \subseteq Batches[me.batch], new.todo \subseteq Batches[me.batch],
           new.pc \in {"queued", "mark", "begin", "batch"}
             => new.launching = {} /\ new.todo = {}
    PROVE  InRound(g, new)
<1>1. \A r \in Rounds, j \in Items, a \in 0..MaxRetries :
         g[<<r, j, a>>] # "none" => f[<<r, j, a>>] # "none"
  BY DEF Runs
<1>2. NoneAhead(g, new)
  BY <1>1 DEF InRound, NoneAhead
<1>3. \A r \in Rounds, b \in 1..Len(Batches) : NoneAfter(f, r, b) => NoneAfter(g, r, b)
  BY <1>1, PlanAssumption DEF NoneAfter
<1>4. FailuresKnown(g, new)
  BY <1>3 DEF InRound, FailuresKnown
<1>5. AtHandOnly(new)
  BY DEF AtHandOnly
<1> QED
  BY <1>2, <1>4, <1>5 DEF InRound

\* An item belongs to one batch.
LEMMA OneBatchOnly ==
    ASSUME NEW b \in 1..Len(Batches), NEW c \in 1..Len(Batches),
           NEW i \in Batches[b], i \in Batches[c]
    PROVE  b = c
BY PlanAssumption

LEMMA NextBatchInRound ==
    ASSUME NEW f, NEW me \in Executor, InRound(f, me), me.launching = {}, me.todo = {}
    PROVE  InRound(f, NextBatch(me))
<1>1. /\ TotalRounds \in Nat \ {0} /\ Len(Batches) \in Nat \ {0}
      /\ me.round \in Rounds /\ me.batch \in 1..Len(Batches) /\ me.round \in Nat
  BY PlanAssumption DEF Executor, Rounds
<1> DEFINE new == NextBatch(me)
<1>2. CASE ~me.roundLost /\ me.batch < Len(Batches)
  <2>1. /\ new.round = me.round /\ new.batch = me.batch + 1 /\ new.failed = me.failed
        /\ new.roundLost = me.roundLost /\ new.launching = {} /\ new.todo = {}
    BY <1>2 DEF NextBatch, Executor
  <2> HIDE DEF new
  <2>2. NoneAhead(f, new)
    BY <2>1, <1>1 DEF InRound, NoneAhead
  <2>3. FailuresKnown(f, new)
    BY <2>1, <1>2 DEF InRound, FailuresKnown
  <2>4. AtHandOnly(new)
    BY <2>1 DEF AtHandOnly
  <2> QED
    BY <2>2, <2>3, <2>4 DEF InRound, new
<1>3. CASE /\ me.roundLost \/ ~(me.batch < Len(Batches))
           /\ me.round < TotalRounds
  <2>1. /\ new.round = me.round + 1 /\ new.batch = 1 /\ new.failed = me.failed
        /\ new.launching = {} /\ new.todo = {}
    BY <1>1, <1>3 DEF NextBatch, Executor
  <2> HIDE DEF new
  <2>2. NoneAhead(f, new)
    BY <2>1, <1>1 DEF InRound, NoneAhead, Rounds
  <2>3. NoneAfter(f, me.round, me.batch)
    <3>1. SUFFICES ASSUME NEW c \in 1..Len(Batches), NEW a \in 0..MaxRetries,
                          NEW j \in Batches[c], me.batch < c, f[<<me.round, j, a>>] # "none"
                   PROVE  FALSE
      BY DEF NoneAfter
    <3>2. j \in Items
      BY <3>1, PlanAssumption
    <3>3. PICK d \in 1..me.batch : j \in Batches[d]
      BY <3>1, <3>2, <1>1 DEF InRound, NoneAhead
    <3>4. d \in 1..Len(Batches)
      BY <1>1
    <3> QED
      BY <3>1, <3>3, <3>4, <1>1, OneBatchOnly
  <2>4. FailuresKnown(f, new)
    BY <2>1, <2>3, <1>1 DEF InRound, FailuresKnown, Rounds
  <2>5. AtHandOnly(new)
    BY <2>1 DEF AtHandOnly
  <2> QED
    BY <2>2, <2>4, <2>5 DEF InRound, new
<1>4. CASE me.roundLost /\ me.round = TotalRounds
  <2>1. /\ new.round = me.round /\ new.batch = me.batch /\ new.failed = me.failed
        /\ new.roundLost = me.roundLost /\ new.launching = {} /\ new.todo = {}
    BY <1>4 DEF NextBatch, Executor
  <2> HIDE DEF new
  <2> QED
    BY <2>1, SameRound DEF new
<1>5. CASE ~me.roundLost /\ ~(me.batch < Len(Batches)) /\ ~(me.round < TotalRounds)
  <2>1. /\ new.round = me.round /\ new.batch = me.batch /\ new.failed = me.failed
        /\ new.roundLost = me.roundLost /\ new.launching = {} /\ new.todo = {}
    BY <1>5 DEF NextBatch, Executor
  <2> HIDE DEF new
  <2> QED
    BY <2>1, SameRound DEF new
<1> QED
  BY <1>1, <1>2, <1>3, <1>4, <1>5 DEF Rounds

LEMMA NextItemInRound ==
    ASSUME NEW f, NEW me \in Executor, InRound(f, me)
    PROVE  InRound(f, NextItem(me))
<1>1. CASE me.launching # {} \/ me.todo # {}
  <2> DEFINE new == NextItem(me)
  <2>1. /\ new.round = me.round /\ new.batch = me.batch /\ new.failed = me.failed
        /\ new.roundLost = me.roundLost /\ new.launching = me.launching
        /\ new.todo = me.todo /\ new.pc \in {"guard", "enter"}
    BY <1>1 DEF NextItem, Executor
  <2> HIDE DEF new
  <2>2. InRound(f, new)
    BY <2>1, SameRound DEF InRound, AtHandOnly
  <2> QED
    BY <2>2 DEF new
<1>2. CASE me.launching = {} /\ me.todo = {}
  BY <1>2, NextBatchInRound DEF NextItem
<1> QED
  BY <1>1, <1>2

LEMMA LeaveStoppedInRound ==
    ASSUME NEW f, NEW me \in Executor, InRound(f, me)
    PROVE  InRound(f, LeaveStopped(me))
<1> DEFINE new == LeaveStopped(me)
<1>1. /\ new.round = me.round /\ new.batch = me.batch /\ new.failed = me.failed
      /\ new.roundLost = me.roundLost /\ new.launching = {} /\ new.todo = {}
  BY DEF LeaveStopped, Executor
<1> HIDE DEF new
<1>2. InRound(f, new)
  BY <1>1, SameRound
<1> QED
  BY <1>2 DEF new

LEMMA FailsInRound ==
    ASSUME NEW f, NEW me \in Executor, InRound(f, me), NEW i \in me.launching \cup me.todo
    PROVE  InRound(f, Fails(me, i))
<1> DEFINE new == Fails(me, i)
<1>1. /\ new.round = me.round /\ new.batch = me.batch
      /\ new.failed = me.failed \cup {<<me.round, i>>}
      /\ new.roundLost <=> (me.roundLost \/ i \in AbortItems)
      /\ new.launching = me.launching \ {i} /\ new.todo = me.todo \ {i} /\ new.pc = me.pc
  BY DEF Fails, Executor
<1>2. me.batch \in 1..Len(Batches) /\ i \in Batches[me.batch]
  BY DEF InRound, AtHandOnly, Executor
<1> HIDE DEF new
<1>3. NoneAhead(f, new)
  BY <1>1 DEF InRound, NoneAhead
<1>4. AtHandOnly(new)
  BY <1>1 DEF InRound, AtHandOnly
<1>5. FailuresKnown(f, new)
  <2>1. SUFFICES ASSUME NEW r \in Rounds, NEW b \in 1..Len(Batches),
                        NEW j \in Batches[b] \cap AbortItems, <<r, j>> \in new.failed
                 PROVE  \/ r < new.round /\ NoneAfter(f, r, b)
                        \/ r = new.round /\ b = new.batch /\ new.roundLost
    BY DEF FailuresKnown
  <2>2. CASE <<r, j>> \in me.failed
    BY <2>2, <1>1 DEF InRound, FailuresKnown
  <2>3. CASE r = me.round /\ j = i
    BY <2>1, <2>3, <1>1, <1>2, OneBatchOnly
  <2> QED
    BY <2>1, <2>2, <2>3, <1>1
<1> QED
  BY <1>3, <1>4, <1>5 DEF InRound, new

LEMMA GiveUpOrRetryInRound ==
    ASSUME NEW f, NEW me \in Executor, InRound(f, me), NEW i \in me.todo
    PROVE  InRound(f, GiveUpOrRetry(me, i))
<1>1. i \in Items
  BY DEF Executor
<1>2. CASE me.attempt < Retries(i)
  <2> DEFINE new == GiveUpOrRetry(me, i)
  <2>1. /\ new.round = me.round /\ new.batch = me.batch /\ new.failed = me.failed
        /\ new.roundLost = me.roundLost /\ new.launching = me.launching
        /\ new.todo = me.todo /\ new.pc = "retry"
    BY <1>2 DEF GiveUpOrRetry, Executor
  <2> HIDE DEF new
  <2>2. InRound(f, new)
    BY <2>1, SameRound DEF InRound, AtHandOnly
  <2> QED
    BY <2>2 DEF new
<1>3. CASE ~(me.attempt < Retries(i))
  BY <1>1, <1>3, FailsType, FailsInRound, NextItemInRound DEF GiveUpOrRetry
<1> QED
  BY <1>2, <1>3

LEMMA AbortExecute ==
    ASSUME AbortInv, Executors = {First}, Execute(First)
    PROVE  AbortInv'
<1> USE DEF runs, others
<1> DEFINE x == First
           me == ex[x]
           new == ex'[x]
           Held == IF new.pc \in {"done", "lost"} THEN new.failed = {} ELSE InRound(run', new)
<1>0. TypeInv /\ TypeInv' /\ TypeOK /\ x \in Executors
  BY ExecuteType DEF AbortInv, TypeInv
<1>s. Seen(x) \in Snapshot /\ Now \in Snapshot /\ NoSnapshot \in Snapshot
  BY <1>0, SeenType
<1>h. /\ me \in Executor
      /\ me.launching \subseteq Items /\ me.todo \subseteq Items
      /\ me.attempt \in 0..MaxRetries /\ 0 \in 0..MaxRetries
      /\ me.pc \in {"retry", "recreate"} => me.attempt < MaxRetries
  BY <1>0, AtHand DEF RetryLeft
<1>i. me.pc \notin {"done", "lost"} => InRound(run, me)
  BY <1>0 DEF AbortInv
<1>b. ASSUME NEW state, Become(x, state)
      PROVE  new = state
  BY <1>b, <1>0 DEF Become, TypeOK
<1>q. Held => AbortInv'
  BY <1>0 DEF AbortInv, InRound, NoneAhead, FailuresKnown, NoneAfter
<1> HIDE DEF x, me, new, Held
<1> SUFFICES Held
  BY <1>q
<1>r. ASSUME InRound(run', new), new.pc \notin {"done", "lost"}
      PROVE  Held
  BY <1>r DEF Held
<1>g. ASSUME NEW label \in {"done", "lost"}, new = Gone(label)
      PROVE  Held
  <2>1. new.pc \in {"done", "lost"} /\ new.failed = {}
    BY <1>g DEF Gone, NewExecutor
  <2> QED
    BY <2>1 DEF Held
\* It moves on within the batch, and no run is new.
<1>e. ASSUME me.pc \notin {"done", "lost"}, new.pc \notin {"done", "lost", "batch"},
             new.pc \in {"queued", "mark", "begin"} => me.pc \in {"queued", "mark", "begin"},
             \A k \in Runs : run'[k] # "none" => run[k] # "none",
             new.round = me.round, new.batch = me.batch, new.failed = me.failed,
             new.roundLost = me.roundLost,
             new.launching \subseteq me.launching, new.todo \subseteq me.todo
      PROVE  Held
  <2>1. InRound(run', new)
    BY <1>e, <1>i, SameRound DEF InRound, AtHandOnly
  <2> QED
    BY <2>1, <1>e, <1>r
<1>u. ASSUME NEW snap \in Snapshot, me.pc \notin {"done", "lost"}
      PROVE  /\ [me EXCEPT !.snap = snap] \in Executor
             /\ InRound(run, [me EXCEPT !.snap = snap])
             /\ [me EXCEPT !.snap = snap].launching = me.launching
             /\ [me EXCEPT !.snap = snap].todo = me.todo
  <2> DEFINE m == [me EXCEPT !.snap = snap]
  <2>1. /\ m.round = me.round /\ m.batch = me.batch /\ m.failed = me.failed
        /\ m.roundLost = me.roundLost /\ m.launching = me.launching
        /\ m.todo = me.todo /\ m.pc = me.pc /\ m \in Executor
    BY <1>h DEF Executor
  <2> HIDE DEF m
  <2>2. InRound(run, m)
    BY <2>1, <1>u, <1>i, SameRound DEF InRound, AtHandOnly
  <2> QED
    BY <2>1, <2>2 DEF m
\* A new run of the batch at hand.
<1>c. ASSUME me.pc \notin {"done", "lost"}, NEW i \in Batches[me.batch], i \in Items,
             NEW a \in 0..MaxRetries, run' = CreatedRun(<<me.round, i, a>>),
             new.pc \notin {"done", "lost", "batch", "queued", "mark", "begin"},
             new.round = me.round, new.batch = me.batch, new.failed = me.failed,
             new.roundLost = me.roundLost,
             new.launching = me.launching, new.todo = me.todo
      PROVE  Held
  <2>1. me.batch \in 1..Len(Batches) /\ me.round \in Rounds /\ me.round \in Int
    BY <1>h DEF Executor, Rounds
  <2>2. Len(Batches) \in Nat
    BY PlanAssumption
  <2>3. \A k \in Runs : run'[k] # "none" => run[k] # "none" \/ k = <<me.round, i, a>>
    BY <1>c, <1>0 DEF CreatedRun, TypeOK
  <2>4. NoneAhead(run', new)
    <3>1. SUFFICES ASSUME NEW r \in Rounds, NEW j \in Items, NEW b \in 0..MaxRetries,
                          run'[<<r, j, b>>] # "none"
                   PROVE  r < me.round \/ (r = me.round /\ \E c \in 1..me.batch : j \in Batches[c])
      BY <1>c DEF NoneAhead
    <3>2. CASE run[<<r, j, b>>] # "none"
      BY <3>2, <1>i, <1>c DEF InRound, NoneAhead
    <3>3. CASE <<r, j, b>> = <<me.round, i, a>>
      <4>1. r = me.round /\ j = i /\ me.batch \in 1..me.batch
        BY <3>3, <2>1, <2>2
      <4> QED
        BY <4>1
    <3>4. <<r, j, b>> \in Runs
      BY DEF Runs
    <3> QED
      BY <3>1, <3>2, <3>3, <3>4, <2>3
  <2>5. FailuresKnown(run', new)
    <3>1. SUFFICES ASSUME NEW r \in Rounds, NEW b \in 1..Len(Batches),
                          NEW j \in Batches[b] \cap AbortItems, <<r, j>> \in me.failed
                   PROVE  \/ r < me.round /\ NoneAfter(run', r, b)
                          \/ r = me.round /\ b = me.batch /\ me.roundLost
      BY <1>c DEF FailuresKnown
    <3>2. CASE r < me.round
      <4>1. NoneAfter(run, r, b)
        BY <3>1, <3>2, <1>c, <1>i, <2>1 DEF InRound, FailuresKnown
      <4>2. ASSUME NEW c \in 1..Len(Batches), NEW d \in 0..MaxRetries, NEW l \in Batches[c]
            PROVE  run[<<r, l, d>>] = "none" => run'[<<r, l, d>>] = "none"
        <5>1. l \in Items
          BY PlanAssumption
        <5>2. <<r, l, d>> \in Runs /\ <<r, l, d>> # <<me.round, i, a>>
          BY <5>1, <3>2, <2>1 DEF Runs
        <5> QED
          BY <5>2, <2>3
      <4>3. NoneAfter(run', r, b)
        BY <4>1, <4>2 DEF NoneAfter
      <4> QED
        BY <4>3, <3>2
    <3>3. CASE ~(r < me.round)
      BY <3>1, <3>3, <1>c, <1>i DEF InRound, FailuresKnown
    <3> QED
      BY <3>2, <3>3
  <2>6. AtHandOnly(new)
    BY <1>c, <1>i DEF InRound, AtHandOnly
  <2> QED
    BY <2>4, <2>5, <2>6, <1>c, <1>r DEF InRound
<1>1. CASE Enter(x) \/ NotSent(x) \/ MarkPlan(x) \/ Recover(x) \/ Crash(x)
  <2>1. /\ new \in {Gone("done"), Gone("lost"), [me EXCEPT !.pc = "mark"],
                    [me EXCEPT !.pc = "begin"]}
        /\ new \in {[me EXCEPT !.pc = "mark"], [me EXCEPT !.pc = "begin"]}
             => me.pc \in {"queued", "mark"} \/ new = Gone("done") \/ new = Gone("lost")
        /\ run' = run
    BY <1>1, <1>b DEF Enter, NotSent, MarkPlan, Recover, Crash, me
  <2>2. CASE new \in {Gone("done"), Gone("lost")}
    BY <2>2, <1>g
  <2>3. CASE new \in {[me EXCEPT !.pc = "mark"], [me EXCEPT !.pc = "begin"]}
             /\ me.pc \in {"queued", "mark"}
    BY <2>1, <2>3, <1>h, <1>e DEF Executor
  <2> QED
    BY <2>1, <2>2, <2>3
<1>2. CASE Begin(x) \/ OpenBatch(x)
  <2>0. me.pc \in {"begin", "batch"} /\ run' = run
    BY <1>2 DEF Begin, OpenBatch, me
  <2>9. InRound(run, me) /\ me.launching = {} /\ me.todo = {} /\ me.pc \notin {"done", "lost"}
    BY <2>0, <1>i DEF InRound, AtHandOnly
  <2> DEFINE batch == Batches[me.batch]
             opened == [me EXCEPT !.pc = "guard", !.launching = batch]
             begun == [me EXCEPT !.pc = "batch"]
             m == [me EXCEPT !.snap = NoSnapshot]
  <2>1. new \in {LeaveStopped(m), NextBatch(m), opened, begun}
    BY <1>2, <1>b DEF Begin, OpenBatch, me
  <2>2. m \in Executor /\ InRound(run, m) /\ m.launching = {} /\ m.todo = {}
    BY <2>9, <1>u, <1>s
  <2>3. CASE new = begun
    <3>1. /\ new.round = me.round /\ new.batch = me.batch /\ new.failed = me.failed
          /\ new.roundLost = me.roundLost /\ new.launching = {} /\ new.todo = {}
          /\ new.pc = "batch"
      BY <2>3, <2>9, <1>h DEF Executor
    <3>2. InRound(run', new)
      BY <3>1, <2>0, <2>9, SameRound
    <3> QED
      BY <3>1, <3>2, <1>r
  <2>4. CASE new = opened
    <3>1. /\ new.round = me.round /\ new.batch = me.batch /\ new.failed = me.failed
          /\ new.roundLost = me.roundLost /\ new.launching = batch /\ new.todo = {}
          /\ new.pc = "guard"
      <4> HIDE DEF batch
      <4> QED
        BY <2>4, <2>9, <1>h DEF Executor
    <3>2. InRound(run', new)
      BY <3>1, <2>0, <2>9, SameRound
    <3> QED
      BY <3>1, <3>2, <1>r
  <2> HIDE DEF m
  <2>5. CASE new = NextBatch(m)
    <3>1. InRound(run, new) /\ new.pc \in {"batch", "finish"}
      BY <2>2, <2>5, NextBatchInRound, NextBatchFollows
    <3> QED
      BY <3>1, <2>0, <1>r
  <2>6. CASE new = LeaveStopped(m)
    <3>1. InRound(run, new) /\ new.pc = "finish"
      BY <2>2, <2>6, LeaveStoppedInRound, LeaveStoppedFields
    <3> QED
      BY <3>1, <2>0, <1>r
  <2> QED
    BY <2>1, <2>3, <2>4, <2>5, <2>6
\* The looks, which leave or move on within the batch.
<1>3. CASE GuardItem(x) \/ GuardRetry(x) \/ EnterWait(x) \/ CheckItem(x)
  <2>0. /\ me.pc \in {"guard", "retry", "enter", "check"}
        /\ \A k \in Runs : run'[k] # "none" => run[k] # "none"
    BY <1>3, <1>0 DEF GuardItem, GuardRetry, EnterWait, CheckItem, Active, me, TypeOK
  <2> DEFINE moved(pc, snap) == [me EXCEPT !.pc = pc, !.snap = snap]
  <2>1. \/ \E snap \in {Seen(x), me.snap} : new = LeaveStopped([me EXCEPT !.snap = snap])
        \/ \E pc \in {"create", "recreate", "wait", "start"}, snap \in {Seen(x), Now} :
              new = moved(pc, snap)
    <3>1. me = [me EXCEPT !.snap = me.snap]
      BY <1>h DEF Executor
    <3>2. CASE CheckItem(x)
      <4>1. new = LeaveStopped(me) \/ new = moved("start", Now)
        BY <3>2, <1>b DEF CheckItem, me
      <4> QED
        BY <3>1, <4>1
    <3>3. CASE GuardItem(x) \/ GuardRetry(x) \/ EnterWait(x)
      <4>1. \/ new = LeaveStopped([me EXCEPT !.snap = Seen(x)])
            \/ new = moved("create", Seen(x)) \/ new = moved("recreate", Seen(x))
            \/ new = moved("wait", Seen(x))
        BY <3>3, <1>b DEF GuardItem, GuardRetry, EnterWait, me
      <4> HIDE DEF moved
      <4> QED
        BY <4>1
    <3> QED
      BY <1>3, <3>2, <3>3
  <2>2. ASSUME NEW snap \in {Seen(x), me.snap}, new = LeaveStopped([me EXCEPT !.snap = snap])
        PROVE  Held
    <3>1. snap \in Snapshot
      BY <2>2, <1>s, <1>h DEF Executor
    <3>2. /\ new.round = me.round /\ new.batch = me.batch /\ new.failed = me.failed
          /\ new.roundLost = me.roundLost /\ new.launching = {} /\ new.todo = {}
          /\ new.pc = "finish"
      BY <2>2, <3>1, <1>h DEF LeaveStopped, Executor
    <3> QED
      BY <3>2, <2>0, <1>e
  <2>3. ASSUME NEW pc \in {"create", "recreate", "wait", "start"}, NEW snap, new = moved(pc, snap)
        PROVE  Held
    <3>1. /\ new.round = me.round /\ new.batch = me.batch /\ new.failed = me.failed
          /\ new.roundLost = me.roundLost /\ new.launching = me.launching
          /\ new.todo = me.todo /\ new.pc = pc
      BY <2>3, <1>h DEF Executor
    <3> QED
      BY <3>1, <2>0, <1>e
  <2> QED
    BY <2>1, <2>2, <2>3
<1>4. CASE CreateItem(x)
  <2>1. PICK i \in me.launching :
           /\ run' = CreatedRun(<<me.round, i, 0>>)
           /\ new = [me EXCEPT !.pc = "check", !.ids = me.ids \cup {Key(x, i, 0)},
                               !.snap = NoSnapshot]
    BY <1>4, <1>b DEF CreateItem, Key, me
  <2>2. me.pc = "create"
    BY <1>4 DEF CreateItem, me
  <2>3. i \in Batches[me.batch] /\ i \in Items
    BY <2>1, <2>2, <1>i, <1>h DEF InRound, AtHandOnly
  <2>4. /\ new.round = me.round /\ new.batch = me.batch /\ new.failed = me.failed
        /\ new.roundLost = me.roundLost /\ new.launching = me.launching
        /\ new.todo = me.todo /\ new.pc = "check"
    BY <2>1, <1>h DEF Executor
  <2> QED
    BY <2>1, <2>2, <2>3, <2>4, <1>h, <1>c
<1>5. CASE RetryItem(x)
  <2>1. PICK i \in me.todo :
           LET ids == me.ids \cup {Key(x, i, me.attempt + 1)}
           IN  /\ run' = CreatedRun(<<me.round, i, me.attempt + 1>>)
               /\ new = [me EXCEPT !.pc = "enter", !.ids = ids,
                                   !.attempt = @ + 1, !.snap = NoSnapshot]
    BY <1>5, <1>b DEF RetryItem, Key, me
  <2>2. me.pc = "recreate"
    BY <1>5 DEF RetryItem, me
  <2>3. i \in Batches[me.batch] /\ i \in Items
    BY <2>1, <2>2, <1>i, <1>h DEF InRound, AtHandOnly
  <2>4. /\ new.round = me.round /\ new.batch = me.batch /\ new.failed = me.failed
        /\ new.roundLost = me.roundLost /\ new.launching = me.launching
        /\ new.todo = me.todo /\ new.pc = "enter"
    BY <2>1, <1>h DEF Executor
  <2>5. me.attempt + 1 \in 0..MaxRetries
    BY <2>2, <1>h, PlanAssumption
  <2> QED
    BY <2>1, <2>2, <2>3, <2>4, <2>5, <1>c
<1>6. CASE CreateItemFails(x) \/ RetryItemFails(x)
  <2>0. me.pc \in {"create", "recreate"} /\ run' = run
    BY <1>6 DEF CreateItemFails, RetryItemFails, me
  <2>1. PICK i \in me.launching \cup me.todo, snap \in {NoSnapshot, me.snap} :
           new = NextItem(Fails([me EXCEPT !.snap = snap], i))
    <3>1. me = [me EXCEPT !.snap = me.snap]
      BY <1>h DEF Executor
    <3> QED
      BY <3>1, <1>6, <1>b DEF CreateItemFails, RetryItemFails, me
  <2>2. snap \in Snapshot /\ i \in Items
    BY <2>1, <1>s, <1>h DEF Executor
  <2> DEFINE m == [me EXCEPT !.snap = snap]
  <2>3. m \in Executor /\ InRound(run, m) /\ i \in m.launching \cup m.todo
    BY <2>0, <2>1, <2>2, <1>u
  <2> HIDE DEF m
  <2>4. InRound(run, new) /\ new.pc \in {"guard", "enter", "batch", "finish"}
    BY <2>1, <2>2, <2>3, FailsType, FailsInRound, NextItemInRound, NextItemFollows DEF m
  <2> QED
    BY <2>0, <2>4, <1>r
<1>7. CASE StartItem(x) \/ DecideSucceeded(x)
  <2>0. me.pc \in {"start", "decide"} /\ run' = run
    BY <1>7 DEF StartItem, DecideSucceeded, me
  <2>9. InRound(run, me) /\ me.launching \subseteq Batches[me.batch]
        /\ me.todo \subseteq Batches[me.batch]
    BY <2>0, <1>i DEF InRound, AtHandOnly
  <2>1. PICK m : /\ new = NextItem(m) /\ m \in Executor
                 /\ m.round = me.round /\ m.batch = me.batch /\ m.failed = me.failed
                 /\ m.roundLost = me.roundLost /\ m.pc = me.pc
                 /\ m.launching \subseteq me.launching
                 /\ m.todo \subseteq me.launching \cup me.todo
    <3>1. CASE StartItem(x)
      <4>1. PICK i \in me.launching :
               new = NextItem([me EXCEPT !.launching = @ \ {i}, !.todo = @ \cup {i}])
        BY <3>1, <1>b DEF StartItem, me
      <4> WITNESS [me EXCEPT !.launching = @ \ {i}, !.todo = @ \cup {i}]
      <4> QED
        BY <4>1, <1>h DEF Executor
    <3>2. CASE DecideSucceeded(x)
      <4>1. PICK i \in me.todo :
               new = NextItem([me EXCEPT !.todo = @ \ {i}, !.attempt = 0,
                                         !.result = "none", !.snap = NoSnapshot])
        BY <3>2, <1>b DEF DecideSucceeded, me
      <4> WITNESS [me EXCEPT !.todo = @ \ {i}, !.attempt = 0,
                             !.result = "none", !.snap = NoSnapshot]
      <4> QED
        BY <4>1, <1>h, <1>s DEF Executor
    <3> QED
      BY <1>7, <3>1, <3>2
  <2>2. InRound(run, m)
    BY <2>0, <2>1, <2>9, SameRound
  <2>3. InRound(run, new) /\ new.pc \in {"guard", "enter", "batch", "finish"}
    BY <2>1, <2>2, NextItemInRound, NextItemFollows
  <2> QED
    BY <2>0, <2>3, <1>r
<1>8. CASE DecideFailed(x) \/ DecideStopped(x)
  <2>0. me.pc = "decide" /\ run' = run
    BY <1>8 DEF DecideFailed, DecideStopped, me
  <2>1. PICK i \in me.todo, snap \in {NoSnapshot, me.snap, Seen(x)} :
           new \in {GiveUpOrRetry([me EXCEPT !.snap = snap], i),
                    LeaveStopped([me EXCEPT !.snap = snap])}
    <3>1. me = [me EXCEPT !.snap = me.snap]
      BY <1>h DEF Executor
    <3>2. CASE DecideFailed(x)
      BY <3>1, <3>2, <1>b DEF DecideFailed, me
    <3>3. CASE DecideStopped(x)
      <4>1. \E i \in me.todo :
               new \in {LeaveStopped([me EXCEPT !.snap = Seen(x)]),
                        LeaveStopped([me EXCEPT !.snap = NoSnapshot]),
                        GiveUpOrRetry([me EXCEPT !.snap = Seen(x)], i)}
        BY <3>3, <1>b DEF DecideStopped, StopFromChildRun, me
      <4> QED
        BY <4>1
    <3> QED
      BY <1>8, <3>2, <3>3
  <2>2. snap \in Snapshot /\ i \in Items
    BY <2>1, <1>s, <1>h DEF Executor
  <2> DEFINE m == [me EXCEPT !.snap = snap]
  <2>3. m \in Executor /\ InRound(run, m) /\ i \in m.todo
    BY <2>0, <2>1, <2>2, <1>u
  <2> HIDE DEF m
  <2>4. /\ InRound(run, new)
        /\ new.pc \in {"retry", "guard", "enter", "batch", "finish"}
    <3>1. CASE new = GiveUpOrRetry(m, i)
      BY <2>2, <2>3, <3>1, GiveUpOrRetryInRound, GiveUpOrRetryFollows
    <3>2. CASE new = LeaveStopped(m)
      BY <2>3, <3>2, LeaveStoppedInRound, LeaveStoppedFields
    <3> QED
      BY <2>1, <3>1, <3>2 DEF m
  <2> QED
    BY <2>0, <2>4, <1>r
<1>9. CASE Wait(x)
  <2>1. PICK result : new = [me EXCEPT !.pc = "decide", !.result = result]
    BY <1>9, <1>b DEF Wait, me
  <2>2. me.pc = "wait" /\ run' = run
    BY <1>9 DEF Wait, me
  <2>3. /\ new.round = me.round /\ new.batch = me.batch /\ new.failed = me.failed
        /\ new.roundLost = me.roundLost /\ new.launching = me.launching
        /\ new.todo = me.todo /\ new.pc = "decide"
    BY <2>1, <1>h DEF Executor
  <2> QED
    BY <2>2, <2>3, <1>e
<1>10. CASE Finish(x)
  <2> DEFINE stopped == IF SeesEnd(x) THEN Seen(x).status = "stopped" ELSE me.stopped
             pc == IF stopped THEN "recover"
                   ELSE IF me.aborted \/ me.failed # {} \/ ~AllLaunched(me.ids)
                        THEN "fail" ELSE "succeed"
  <2>1. /\ new = [me EXCEPT !.stopped = stopped, !.snap = Seen(x), !.pc = pc]
        /\ pc \in {"recover", "fail", "succeed"}
    BY <1>10, <1>b DEF Finish, me
  <2> HIDE DEF stopped, pc
  <2>2. me.pc = "finish" /\ run' = run
    BY <1>10 DEF Finish, me
  <2>3. /\ new.round = me.round /\ new.batch = me.batch /\ new.failed = me.failed
        /\ new.roundLost = me.roundLost /\ new.launching = me.launching
        /\ new.todo = me.todo /\ new.pc = pc
    BY <2>1, <1>h DEF Executor
  <2> QED
    BY <2>1, <2>2, <2>3, <1>e
<1>11. CASE Fail(x) \/ Succeed(x) \/ Raise(x)
  <2>1. me.pc \in AtWork \cup {"fail", "succeed"} /\ run' = run
    BY <1>11 DEF Fail, Succeed, Raise, me
  <2>2. new \in {[me EXCEPT !.pc = "recover"],
                 [me EXCEPT !.pc = "recover", !.snap = NoSnapshot],
                 [me EXCEPT !.pc = "fail", !.raised = TRUE, !.launching = {},
                             !.todo = {}, !.attempt = 0, !.result = "none"]}
    BY <1>11, <1>b DEF Fail, Succeed, Raise, me
  <2>3. /\ new.round = me.round /\ new.batch = me.batch /\ new.failed = me.failed
        /\ new.roundLost = me.roundLost /\ new.launching \subseteq me.launching
        /\ new.todo \subseteq me.todo /\ new.pc \in {"recover", "fail"}
    BY <2>2, <1>h DEF Executor
  <2> QED
    BY <2>1, <2>3, <1>e DEF AtWork
<1> QED
  BY <1>0, <1>1, <1>2, <1>3, <1>4, <1>5, <1>6, <1>7, <1>8, <1>9, <1>10, <1>11
     DEF Execute, x

\* Runs are created by the executor alone, so others' steps put none ahead.
LEMMA AbortNext ==
    ASSUME Executors = {First}
    PROVE  AbortInv /\ [Next]_vars => AbortInv'
<1> SUFFICES ASSUME AbortInv, [Next]_vars PROVE AbortInv'
  OBVIOUS
<1> USE DEF runs, others
<1>0. TypeInv /\ TypeInv' /\ TypeOK
  BY NextType DEF AbortInv, TypeInv
<1>1. ASSUME ex' = ex, \A k \in Runs : run'[k] # "none" => run[k] # "none"
      PROVE  AbortInv'
  <2>1. ASSUME NEW x \in Executors, ex[x].pc \notin {"done", "lost"}
        PROVE  InRound(run', ex[x])
    <3>1. InRound(run, ex[x])
      BY <2>1 DEF AbortInv
    <3> QED
      BY <3>1, <1>1, SameRound DEF InRound, AtHandOnly
  <2> QED
    BY <2>1, <1>0, <1>1 DEF AbortInv, InRound, NoneAhead, FailuresKnown, NoneAfter
<1>2. ASSUME NEW c \in Closers, Close(c)
      PROVE  AbortInv'
  BY <1>2, <1>0, <1>1 DEF Close, CloserLoads, CloserStopsRun, CloserStopRaises,
                          CloserWrites, CloserReleases, Active, TypeOK
<1>3. ASSUME NEW k \in Runs, RunEnds(k)
      PROVE  AbortInv'
  BY <1>3, <1>0, <1>1 DEF RunEnds, Active, TypeOK
<1>4. ASSUME NEW r \in Readers, Read(r)
      PROVE  AbortInv'
  BY <1>4, <1>1 DEF Read, ReaderLoads, ReaderWrites
<1>5. CASE GetsOverdue \/ Terminated \/ UNCHANGED vars
  BY <1>5, <1>1 DEF GetsOverdue, Terminated, vars
<1> QED
  BY <1>2, <1>3, <1>4, <1>5, AbortExecute DEF Next

\* An item whose failure aborts, once it has failed for good in a round, leaves no later
\* batch of that round launched - through retries, timeouts, stops and revivals.
THEOREM AbortRespected ==
    ASSUME Executors = {First}
    PROVE  Spec => []AbortEndsRound
<1>1. Init => AbortInv
  <2> SUFFICES ASSUME Init PROVE AbortInv
    OBVIOUS
  <2>1. \A r \in Rounds, j \in Items, a \in 0..MaxRetries : <<r, j, a>> \in Runs
    BY DEF Runs
  <2>2. InRound(run, NewExecutor)
    BY <2>1 DEF Init, InRound, NoneAhead, AtHandOnly, FailuresKnown, NewExecutor
  <2>3. NewExecutor.pc = "queued"
    BY DEF NewExecutor
  <2> QED
    BY <2>2, <2>3, InitType DEF Init, AbortInv
<1>2. AbortInv => AbortEndsRound
  <2> SUFFICES ASSUME AbortInv, NEW x \in Executors, NEW r \in Rounds,
                      NEW b \in 1..Len(Batches), NEW c \in 1..Len(Batches),
                      NEW i \in Batches[b] \cap AbortItems, NEW j \in Batches[c],
                      b < c, <<r, i>> \in ex[x].failed, Launched(r, j)
               PROVE  FALSE
    BY DEF AbortEndsRound
  <2>0. PICK a \in 0..MaxRetries : run[<<r, j, a>>] # "none"
    BY DEF Launched
  <2>1. InRound(run, ex[x])
    BY DEF AbortInv
  <2>2. ~NoneAfter(run, r, b)
    BY <2>0 DEF NoneAfter
  <2>3. r = ex[x].round /\ b = ex[x].batch
    BY <2>1, <2>2 DEF InRound, FailuresKnown
  <2>4. j \in Items /\ r \in Int /\ Len(Batches) \in Nat
    BY PlanAssumption DEF Rounds
  <2>5. PICK d \in 1..b : j \in Batches[d]
    BY <2>0, <2>1, <2>3, <2>4 DEF InRound, NoneAhead
  <2>6. d \in 1..Len(Batches)
    BY <2>4
  <2> QED
    BY <2>5, <2>6, OneBatchOnly
<1> QED
  BY <1>1, <1>2, AbortNext, PTL DEF Spec
=============================================================================
