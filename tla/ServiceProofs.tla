--------------------------- MODULE ServiceProofs ---------------------------
(***************************************************************************)
(* Proofs about the services around a run: each component on its own, and  *)
(* then in the module that is checked, where a behaviour is about one of   *)
(* them.  Sources: backend/ptp-admin/app/services/notification_service.py, *)
(* script_service.py, report_service.py, task_asset_service.py,            *)
(* run_service.py, plan_service.py.                                        *)
(***************************************************************************)
EXTENDS MCServices, FoldProofs

-----------------------------------------------------------------------------
(* Webhooks *)

Rounds == [step : {"off", "told", "looking", "sending", "storing", "done", "broken"},
           event : Events \cup {"none"}, left : SUBSET Hooks, loaded : SUBSET Hooks,
           allowed : Nat, attempts : Nat, result : {"none", "success", "failed"},
           spoilt : SUBSET Hooks]
HookRecords == [status : {"none", "pending", "success", "failed"}, attempts : Nat]
HookTypes ==
    /\ ended \in {"active", "succeeded", "failed", "stopped"}
    /\ hook \in [Hooks -> HookRows \cup {NoHook}] /\ changes \in Nat
    /\ round \in Rounds /\ record \in [Hooks -> HookRecords] /\ received \in [Hooks -> Nat]

InTheAir == round.step \in {"sending", "storing"}
\* A hook that the loop has not reached has neither record nor message.
UntoldYet ==
    /\ round.step \in {"off", "told"} => \A h \in Hooks : record[h] = NoRecord /\ received[h] = 0
    /\ \A h \in round.left :
          (InTheAir /\ AtHook(h)) \/ (record[h] = NoRecord /\ received[h] = 0)
\* The hook that is being told: what has been sent of what is allowed.
BeingTold ==
    InTheAir => \E h \in Hooks :
        /\ AtHook(h) /\ record[h].status = "pending" /\ received[h] <= round.attempts
        /\ changes = 0 => round.allowed = AttemptsOf(hook[h])
        /\ round.step = "sending" => round.attempts < round.allowed
        /\ round.step = "storing" =>
              \/ round.result = "success" /\ received[h] > 0
              \/ round.result = "failed" /\ round.attempts = round.allowed
\* The hooks that the loop has left behind.
ToldAlready ==
    changes = 0 =>
        \A h \in round.loaded \ (round.left \cup round.spoilt) :
            round.event \in hook[h].wants => record[h].status \in {"success", "failed"}
\* What the loop has left is behind every hook whose record could not be written.
SpoiltFirst == \A h \in round.left, g \in round.spoilt : g < h
HookInv ==
    /\ SpoiltFirst
    /\ HookTypes /\ UntoldYet /\ BeingTold /\ ToldAlready /\ RecordsTell
    /\ round.step # "off" => ended # "active"
    /\ round.step = "off" => round.left = {} /\ round.loaded = {}
    /\ round.step = "told" => round.left = {} /\ round.loaded = {}
    /\ round.step \in {"off", "told"} => round.spoilt = {}
    /\ round.step = "done" => round.left = {}

LEMMA HookAlone ==
    ASSUME HookInv, NEW h \in Hooks, NEW g \in Hooks, AtHook(h), AtHook(g)
    PROVE  h = g
  BY HookAssumption DEF AtHook

LEMMA HooksBegin == HookInit => HookInv
<1> SUFFICES ASSUME HookInit PROVE HookInv
  OBVIOUS
<1>1. HookTypes
  BY DEF HookInit, HookTypes, NoRound, Rounds, NoRecord, HookRecords
<1> QED
  BY <1>1
     DEF HookInit, HookInv, SpoiltFirst, UntoldYet, BeingTold, ToldAlready, RecordsTell, NoRound, NoRecord,
         InTheAir

LEMMA AttemptsCount ==
    ASSUME HookTypes, NEW h \in Hooks
    PROVE  AttemptsOf(hook[h]) \in Nat \ {0}
  BY HookAssumption DEF HookTypes, HookRows, NoHook, AttemptsOf

LEMMA HooksUserStops == ASSUME HookInv, UserStops PROVE HookInv'
<1>1. HookTypes'
  BY DEF HookInv, HookTypes, UserStops
<1> QED
  BY <1>1
     DEF HookInv, SpoiltFirst, HookTypes, UserStops, UntoldYet, BeingTold, ToldAlready, RecordsTell, InTheAir,
         AtHook, AttemptsOf

LEMMA HooksCloseAndTell == ASSUME HookInv, CloseAndTell PROVE HookInv'
<1>1. /\ round' \in Rounds /\ round'.left = {} /\ round'.loaded = {} /\ round'.step = "told"
      /\ round'.spoilt = {}
  BY DEF HookInv, HookTypes, CloseAndTell, Rounds
<1>2. HookTypes' /\ ended' # "active"
  BY <1>1 DEF HookInv, HookTypes, CloseAndTell
<1>3. UntoldYet' /\ BeingTold' /\ ToldAlready' /\ RecordsTell'
  BY <1>1, <1>2
     DEF HookInv, HookTypes, CloseAndTell, UntoldYet, BeingTold, ToldAlready, RecordsTell, InTheAir,
         NoRecord
<1> QED
  BY <1>1, <1>2, <1>3 DEF HookInv, SpoiltFirst

LEMMA HooksLoad == ASSUME HookInv, Load PROVE HookInv'
<1>1. /\ round' \in Rounds /\ round'.left = round'.loaded /\ round'.step = "looking"
      /\ round'.left \subseteq Hooks /\ round'.spoilt = {}
  <2> DEFINE on == {h \in Hooks : hook[h].on}
             event == EventOf(ended)
  <2>1. on \subseteq Hooks /\ event \in Events \cup {"none"}
    BY DEF EventOf, Events
  <2>2. /\ round' = [round EXCEPT !.step = "looking", !.event = event, !.loaded = on, !.left = on]
        /\ round \in Rounds /\ round.spoilt = {}
    BY DEF HookInv, HookTypes, Load
  <2> HIDE DEF on, event
  <2> QED
    BY <2>1, <2>2 DEF Rounds
<1>2. HookTypes' /\ ended' # "active"
  BY <1>1 DEF HookInv, HookTypes, Load
<1>3. UntoldYet' /\ BeingTold' /\ ToldAlready' /\ RecordsTell'
  BY <1>1, <1>2
     DEF HookInv, HookTypes, Load, UntoldYet, BeingTold, ToldAlready, RecordsTell, InTheAir, NoRecord
<1> QED
  BY <1>1, <1>2, <1>3 DEF HookInv, SpoiltFirst

LEMMA HooksFinish == ASSUME HookInv, Finish PROVE HookInv'
<1>1. /\ round' \in Rounds /\ round'.left = {} /\ round'.step = "done"
      /\ round'.loaded = round.loaded /\ round'.spoilt = round.spoilt /\ round'.event = round.event
  BY DEF HookInv, HookTypes, Finish, Rounds
<1>2. HookTypes' /\ ended' # "active"
  BY <1>1 DEF HookInv, HookTypes, Finish
<1>3. UntoldYet' /\ BeingTold' /\ ToldAlready' /\ RecordsTell'
  BY <1>1, <1>2
     DEF HookInv, HookTypes, Finish, UntoldYet, BeingTold, ToldAlready, RecordsTell, InTheAir, NoRecord
<1> QED
  BY <1>1, <1>2, <1>3 DEF HookInv, SpoiltFirst

LEMMA HooksPassOver == ASSUME HookInv, NEW h \in Hooks, PassOver(h) PROVE HookInv'
<1>1. /\ round' \in Rounds /\ round'.left = round.left \ {h} /\ round'.step = "looking"
      /\ round'.loaded = round.loaded /\ round'.spoilt = round.spoilt /\ round'.event = round.event
  BY DEF HookInv, HookTypes, PassOver, Rounds
<1>2. HookTypes' /\ ended' # "active"
  BY <1>1 DEF HookInv, HookTypes, PassOver
<1>3. UntoldYet' /\ BeingTold' /\ ToldAlready' /\ RecordsTell'
  BY <1>1, <1>2
     DEF HookInv, HookTypes, PassOver, UntoldYet, BeingTold, ToldAlready, RecordsTell, InTheAir,
         NoRecord
<1> QED
  BY <1>1, <1>2, <1>3 DEF HookInv, SpoiltFirst

LEMMA HooksEditHook == ASSUME HookInv, NEW h \in Hooks, EditHook(h) PROVE HookInv'
<1>1. PICK entry \in HookRows : hook' = [hook EXCEPT ![h] = entry]
  BY DEF EditHook
<1>2. HookTypes' /\ changes' # 0
  BY <1>1 DEF HookInv, HookTypes, EditHook
<1> QED
  BY <1>2
     DEF HookInv, SpoiltFirst, HookTypes, EditHook, UntoldYet, BeingTold, ToldAlready, RecordsTell, InTheAir,
         AtHook

LEMMA HooksExcept ==
    ASSUME HookInv, NEW h \in Hooks, AtHook(h), Excepts(h)
    PROVE  /\ round' \in Rounds /\ round'.left = round.left \ {h}
           /\ round'.step \in {"looking", "broken"} /\ round'.loaded = round.loaded
           /\ round'.spoilt = round.spoilt \cup {h} /\ round'.event = round.event
           /\ SpoiltFirst'
<1>1. /\ round' \in Rounds /\ round'.left = round.left \ {h}
      /\ round'.step \in {"looking", "broken"} /\ round'.loaded = round.loaded
      /\ round'.spoilt = round.spoilt \cup {h} /\ round'.event = round.event
  <2>1. round \in Rounds
    BY DEF HookInv, HookTypes
  <2>2. CASE round' = GoesOn(h)
    BY <2>1, <2>2 DEF Rounds, GoesOn
  <2>3. CASE round' = Breaks(h)
    BY <2>1, <2>3 DEF Rounds, Breaks
  <2> QED
    BY <2>2, <2>3 DEF Excepts
<1>2. SpoiltFirst'
  <2> SUFFICES ASSUME NEW k \in round.left \ {h}, NEW g \in round.spoilt \cup {h} PROVE g < k
    BY <1>1 DEF SpoiltFirst
  <2>1. k \in Nat /\ h \in Nat /\ h <= k /\ h # k
    BY HookAssumption DEF HookInv, HookTypes, Rounds, AtHook
  <2>2. g \in round.spoilt => g < k
    BY DEF HookInv, SpoiltFirst
  <2> QED
    BY <2>1, <2>2
<1> QED
  BY <1>1, <1>2

LEMMA HooksBeginRecord == ASSUME HookInv, NEW h \in Hooks, BeginRecord(h) PROVE HookInv'
<1>1. /\ round.step = "looking" /\ AtHook(h) /\ h \in round.left /\ round.event \in hook[h].wants
      /\ record[h] = NoRecord /\ received[h] = 0 /\ ended # "active"
  BY DEF BeginRecord, AtHook, HookInv, UntoldYet, InTheAir
<1>2. CASE /\ record' = [record EXCEPT ![h] = [status |-> "pending", attempts |-> 0]]
           /\ round' = [round EXCEPT !.step = "sending", !.attempts = 0,
                                     !.allowed = AttemptsOf(hook[h])]
  <2>1. /\ round' \in Rounds /\ round'.left = round.left /\ round'.step = "sending"
        /\ round'.loaded = round.loaded /\ round'.spoilt = round.spoilt
        /\ round'.event = round.event /\ round'.attempts = 0
        /\ round'.allowed = AttemptsOf(hook[h]) /\ round'.allowed \in Nat \ {0}
    BY <1>2, AttemptsCount DEF HookInv, HookTypes, Rounds
  <2>2. HookTypes'
    BY <2>1, <1>2 DEF HookInv, HookTypes, BeginRecord, HookRecords
  <2>3. AtHook(h)'
    BY <2>1, <1>1 DEF AtHook
  <2>4. UntoldYet'
    BY <2>1, <2>2, <2>3, <1>1, <1>2 DEF HookInv, HookTypes, UntoldYet, BeginRecord, InTheAir, AtHook
  <2>5. BeingTold' /\ RecordsTell'
    BY <2>1, <2>3, <1>1, <1>2
       DEF HookInv, HookTypes, BeingTold, RecordsTell, BeginRecord, NoRecord, InTheAir, AttemptsOf
  <2>6. ToldAlready'
    BY <2>1, <1>1, <1>2 DEF HookInv, HookTypes, ToldAlready, BeginRecord
  <2> QED
    BY <2>1, <2>2, <2>4, <2>5, <2>6, <1>1 DEF HookInv, SpoiltFirst, BeginRecord
<1>3. CASE /\ record' \in {record, [record EXCEPT ![h] = [status |-> "pending", attempts |-> 0]]}
           /\ Excepts(h)
  <2>1. /\ round' \in Rounds /\ round'.left = round.left \ {h}
        /\ round'.step \in {"looking", "broken"}
        /\ round'.loaded = round.loaded /\ round'.spoilt = round.spoilt \cup {h}
        /\ round'.event = round.event /\ SpoiltFirst'
    BY <1>3, HooksExcept, <1>1 DEF HookInv
  <2>2. /\ HookTypes' /\ \A g \in Hooks \ {h} : record'[g] = record[g]
        /\ record'[h] \in {NoRecord, [status |-> "pending", attempts |-> 0]}
    BY <2>1, <1>1, <1>3 DEF HookInv, HookTypes, BeginRecord, HookRecords, NoRecord
  <2>3. UntoldYet' /\ BeingTold' /\ ToldAlready' /\ RecordsTell'
    BY <2>1, <2>2, <1>1
       DEF HookInv, HookTypes, BeginRecord, UntoldYet, BeingTold, ToldAlready, RecordsTell, InTheAir,
           NoRecord, AttemptsOf, Rounds
  <2> QED
    BY <2>1, <2>2, <2>3, <1>1 DEF HookInv, BeginRecord
<1> QED
  BY <1>2, <1>3 DEF BeginRecord

LEMMA HooksAttempt == ASSUME HookInv, NEW h \in Hooks, Attempt(h) PROVE HookInv'
<1>1. PICK arrives, ok \in BOOLEAN :
        /\ ok => arrives
        /\ round' = [round EXCEPT
              !.attempts = @ + 1, !.result = IF ok THEN "success" ELSE "failed",
              !.step = IF ok \/ round.attempts + 1 = round.allowed THEN "storing" ELSE @]
        /\ received' = [received EXCEPT ![h] = @ + IF arrives THEN 1 ELSE 0]
  BY DEF Attempt
<1>2. /\ round.step = "sending" /\ AtHook(h) /\ h \in round.left
      /\ record[h].status = "pending" /\ received[h] <= round.attempts
      /\ changes = 0 => round.allowed = AttemptsOf(hook[h])
      /\ round.attempts < round.allowed /\ ended # "active"
  <2>1. round.step = "sending" /\ AtHook(h) /\ h \in round.left
    BY DEF Attempt, AtHook
  <2>2. PICK g \in Hooks :
          /\ AtHook(g) /\ record[g].status = "pending" /\ received[g] <= round.attempts
          /\ changes = 0 => round.allowed = AttemptsOf(hook[g])
          /\ round.step = "sending" => round.attempts < round.allowed
    BY <2>1 DEF HookInv, BeingTold, InTheAir
  <2> QED
    BY <2>1, <2>2, HookAlone DEF HookInv
<1>3. /\ round' \in Rounds /\ round'.left = round.left /\ round'.step \in {"sending", "storing"}
      /\ round'.loaded = round.loaded /\ round'.spoilt = round.spoilt /\ round'.event = round.event
      /\ round'.attempts = round.attempts + 1 /\ round'.allowed = round.allowed
      /\ round'.step = "sending" => ~ok /\ round.attempts + 1 # round.allowed
      /\ round'.step = "storing" =>
            \/ ok /\ round'.result = "success"
            \/ round'.result = "failed" /\ round.attempts + 1 = round.allowed
  <2> DEFINE result == IF ok THEN "success" ELSE "failed"
             step == IF ok \/ round.attempts + 1 = round.allowed THEN "storing" ELSE "sending"
             next == [round EXCEPT !.attempts = round.attempts + 1, !.result = result, !.step = step]
  <2>1. /\ round \in Rounds /\ result \in {"success", "failed"} /\ step \in {"sending", "storing"}
        /\ step = "sending" => ~ok /\ round.attempts + 1 # round.allowed
        /\ step = "storing" =>
              \/ ok /\ result = "success"
              \/ result = "failed" /\ round.attempts + 1 = round.allowed
    BY DEF HookInv, HookTypes
  <2>2. round' = next
    BY <1>1, <1>2, <2>1 DEF Rounds
  <2> HIDE DEF result, step
  <2>3. next \in Rounds
    <3>1. /\ round \in Rounds /\ round.attempts + 1 \in Nat
          /\ result \in {"none", "success", "failed"}
          /\ step \in {"off", "told", "looking", "sending", "storing", "done", "broken"}
      BY <2>1 DEF Rounds
    <3> DEFINE count == round.attempts + 1
    <3> HIDE DEF count
    <3>2. [round EXCEPT !.attempts = count, !.result = result, !.step = step] \in Rounds
      BY <3>1 DEF Rounds, count
    <3> QED
      BY <3>2 DEF count
  <2>4. /\ next.left = round.left /\ next.loaded = round.loaded /\ next.spoilt = round.spoilt
        /\ next.event = round.event /\ next.allowed = round.allowed
    BY <2>1 DEF Rounds
  <2>5. next.attempts = round.attempts + 1 /\ next.result = result /\ next.step = step
    BY <2>1 DEF Rounds
  <2> HIDE DEF next
  <2> QED
    BY <2>1, <2>2, <2>3, <2>4, <2>5
<1>4. /\ received' \in [Hooks -> Nat] /\ received'[h] \in {received[h], received[h] + 1}
      /\ ok => received'[h] > 0
      /\ \A g \in Hooks \ {h} : received'[g] = received[g]
  BY <1>1 DEF HookInv, HookTypes
<1>5. HookTypes'
  BY <1>3, <1>4 DEF HookInv, HookTypes, Attempt
<1>6. AtHook(h)'
  BY <1>2, <1>3 DEF AtHook
<1>7. UntoldYet'
  BY <1>2, <1>3, <1>4, <1>6 DEF HookInv, UntoldYet, InTheAir, AtHook, Attempt
<1>8. BeingTold'
  <2>1. received'[h] <= round'.attempts /\ record'[h].status = "pending"
    BY <1>2, <1>3, <1>4 DEF Attempt, HookInv, HookTypes, Rounds
  <2>2. /\ changes' = 0 => round'.allowed = AttemptsOf(hook[h])'
        /\ round'.step = "sending" => round'.attempts < round'.allowed
        /\ round'.step = "storing" =>
              \/ round'.result = "success" /\ received'[h] > 0
              \/ round'.result = "failed" /\ round'.attempts = round'.allowed
    BY <1>2, <1>3, <1>4 DEF Attempt, HookInv, HookTypes, Rounds, AttemptsOf
  <2> QED
    BY <2>1, <2>2, <1>6 DEF BeingTold
<1>9. RecordsTell'
  BY <1>2, <1>3, <1>4 DEF HookInv, HookTypes, RecordsTell, Attempt, NoRecord, AttemptsOf
<1>10. ToldAlready'
  BY <1>3 DEF HookInv, ToldAlready, Attempt
<1> QED
  BY <1>2, <1>3, <1>5, <1>7, <1>8, <1>9, <1>10 DEF HookInv, SpoiltFirst, Attempt

LEMMA HooksStore == ASSUME HookInv, NEW h \in Hooks, Store(h) PROVE HookInv'
<1>1. /\ round.step = "storing" /\ AtHook(h) /\ h \in round.left
      /\ record[h].status = "pending" /\ received[h] <= round.attempts
      /\ changes = 0 => round.allowed = AttemptsOf(hook[h])
      /\ \/ round.result = "success" /\ received[h] > 0
         \/ round.result = "failed" /\ round.attempts = round.allowed
      /\ ended # "active"
  <2>1. round.step = "storing" /\ AtHook(h) /\ h \in round.left
    BY DEF Store, AtHook
  <2>2. PICK g \in Hooks :
          /\ AtHook(g) /\ record[g].status = "pending" /\ received[g] <= round.attempts
          /\ changes = 0 => round.allowed = AttemptsOf(hook[g])
          /\ \/ round.result = "success" /\ received[g] > 0
             \/ round.result = "failed" /\ round.attempts = round.allowed
    BY <2>1 DEF HookInv, BeingTold, InTheAir
  <2> QED
    BY <2>1, <2>2, HookAlone DEF HookInv
<1>2. \A g \in round.left \ {h} : record[g] = NoRecord /\ received[g] = 0
  BY <1>1, HookAlone DEF HookInv, UntoldYet, HookTypes, Rounds
<1>3. /\ round' \in Rounds /\ round'.left = round.left \ {h}
      /\ round'.step \in {"looking", "broken"}
      /\ round'.loaded = round.loaded /\ round'.event = round.event /\ SpoiltFirst'
      /\ round'.spoilt = round.spoilt \/ round'.spoilt = round.spoilt \cup {h}
  <2>1. round \in Rounds /\ SpoiltFirst
    BY DEF HookInv, HookTypes
  <2>2. \/ round' = [round EXCEPT !.step = "looking", !.left = @ \ {h}]
        \/ Excepts(h)
    BY DEF Store
  <2>3. CASE round' = [round EXCEPT !.step = "looking", !.left = @ \ {h}]
    BY <2>1, <2>3 DEF Rounds, SpoiltFirst
  <2>4. CASE Excepts(h)
    BY <2>4, <1>1, HooksExcept
  <2> QED
    BY <2>2, <2>3, <2>4
<1>4. CASE /\ record' = [record EXCEPT ![h] = [status |-> round.result, attempts |-> round.attempts]]
           /\ round' = [round EXCEPT !.step = "looking", !.left = @ \ {h}]
  <2>1. HookTypes' /\ record'[h] = [status |-> round.result, attempts |-> round.attempts]
    BY <1>3, <1>4, <1>1 DEF HookInv, HookTypes, Store, HookRecords, Rounds
  <2>2. UntoldYet' /\ BeingTold' /\ ToldAlready'
    BY <2>1, <1>1, <1>2, <1>3, <1>4
       DEF HookInv, HookTypes, Store, UntoldYet, BeingTold, ToldAlready, InTheAir
  <2>3. RecordsTell'
    BY <2>1, <1>1, <1>4
       DEF HookInv, HookTypes, Rounds, Store, RecordsTell, NoRecord, AttemptsOf
  <2> QED
    BY <2>1, <2>2, <2>3, <1>1, <1>3 DEF HookInv, Store
<1>5. CASE UNCHANGED record /\ Excepts(h)
  <2>1. round'.spoilt = round.spoilt \cup {h}
    BY <1>5, <1>1, HooksExcept
  <2>2. HookTypes'
    BY <1>3, <1>5 DEF HookInv, HookTypes, Store
  <2>3. UntoldYet' /\ BeingTold' /\ ToldAlready' /\ RecordsTell'
    BY <2>1, <1>2, <1>3, <1>5
       DEF HookInv, Store, UntoldYet, BeingTold, ToldAlready, RecordsTell, InTheAir, NoRecord,
           AttemptsOf
  <2> QED
    BY <2>2, <2>3, <1>1, <1>3 DEF HookInv, Store
<1> QED
  BY <1>4, <1>5 DEF Store

LEMMA HooksKept == HookInv /\ [HookNext]_hookVars => HookInv'
<1> SUFFICES ASSUME HookInv, [HookNext]_hookVars PROVE HookInv'
  OBVIOUS
<1>1. CASE UNCHANGED hookVars
  BY <1>1
     DEF hookVars, HookInv, SpoiltFirst, HookTypes, UntoldYet, BeingTold, ToldAlready, RecordsTell, InTheAir,
         AtHook, AttemptsOf
<1>2. CASE HookNext
  BY <1>2, HooksUserStops, HooksCloseAndTell, HooksLoad, HooksFinish, HooksPassOver,
     HooksBeginRecord, HooksAttempt, HooksStore, HooksEditHook
     DEF HookNext
<1> QED
  BY <1>1, <1>2

LEMMA HooksTold == HookInv => HooksAreTold
BY DEF HookInv, HooksAreTold, OthersAreTold, ToldAlready, SpoiltFirst

\* For any hooks, retries and edits: no endpoint hears of an end that has not been committed or
\* without a record, records say what was sent, and one hook's failure keeps no other from
\* being told, unless a statement that the database refuses breaks the round: then the hooks
\* before it have been told.
THEOREM HooksHear == HookSpec => []HooksAreTold
BY HooksBegin, HooksKept, HooksTold, PTL DEF HookSpec

\* The same in the model that is checked, where the hooks are one part among others.
THEOREM HooksHearThere == MCSpec => []HooksHold
<1>1. MCInit => (part = "hooks" => HookInv)
  BY HooksBegin DEF MCInit
<1>2. (part = "hooks" => HookInv) /\ [MCNext]_mcVars => (part = "hooks" => HookInv)'
  BY HooksKept DEF MCNext, mcVars
<1>3. (part = "hooks" => HookInv) => HooksHold
  BY HooksTold DEF HooksHold
<1> QED
  BY <1>1, <1>2, <1>3, PTL DEF MCSpec

-----------------------------------------------------------------------------
(* Scripts *)

EditRequests == [step : {"idle", "insert", "clone", "private", "write"}, task : ScriptTasks \cup {"none"},
             script : Scripts \cup {"none"}, joined : BOOLEAN]
LibraryTypes ==
    /\ uses \in [ScriptTasks -> Scripts \cup {"none", "gone"}]
    /\ content \in [Scripts -> Nat] /\ edits \in Nat /\ doing \in [Users -> EditRequests]

\* Requests and tasks name scripts that exist.
NamesExist ==
    /\ \A t \in ScriptTasks : uses[t] \in Stored \cup {"none", "gone"}
    /\ \A u \in Users : ~At(u, "idle") => doing[u].task \in ScriptTasks /\ doing[u].script \in Stored
\* Who is about to write the script of the task's page has found or made it the task's own; only
\* a task that takes it up since can have it as well.
WritesOwn ==
    \A u \in Users : At(u, "write") /\ ~doing[u].joined /\ uses[doing[u].task] = doing[u].script =>
        UsersOf(doing[u].script) \subseteq {doing[u].task}
LibraryInv == LibraryTypes /\ NamesExist /\ WritesOwn

\* What _ensure_task_private_script counts: a script that is not cloned is the task's alone.
LEMMA LoneUser ==
    ASSUME LibraryTypes, NEW t \in ScriptTasks, NEW s \in Scripts, EditStep(t, s) = "write", uses[t] = s
    PROVE  UsersOf(s) \subseteq {t}
<1>1. IsFiniteSet(UsersOf(s))
  BY LibraryAssumption, FS_Subset DEF UsersOf
<1>2. ~(Cardinality(UsersOf(s)) > 1) /\ Cardinality(UsersOf(s)) \in Nat
  BY <1>1, FS_CardinalityType DEF EditStep
<1>3. SUFFICES ASSUME NEW v \in UsersOf(s), v # t PROVE FALSE
  OBVIOUS
<1>4. IsFiniteSet({t}) /\ Cardinality({t}) = 1
  BY FS_Singleton
<1>5. Cardinality({t} \cup {v}) = 2
  <2>1. v \notin {t}
    BY <1>3
  <2>2. Cardinality({t} \cup {v}) = IF v \in {t} THEN Cardinality({t}) ELSE Cardinality({t}) + 1
    BY <1>4, FS_AddElement
  <2> QED
    BY <1>4, <2>1, <2>2
<1>6. {t} \cup {v} \subseteq UsersOf(s)
  BY <1>3 DEF UsersOf
<1> QED
  BY <1>1, <1>2, <1>5, <1>6, FS_Subset

LEMMA LibraryBegins == ScriptInit => LibraryInv
BY LibraryAssumption
   DEF ScriptInit, LibraryInv, LibraryTypes, NamesExist, WritesOwn, EditRequests, Nobody, At, Stored

\* Stored scripts stay stored.
LEMMA StaysStored ==
    ASSUME LibraryTypes, NEW c \in Scripts, NEW n \in Nat \ {0},
           content' = [content EXCEPT ![c] = n]
    PROVE  /\ content' \in [Scripts -> Nat] /\ Stored' = Stored \cup {c}
  BY DEF LibraryTypes, Stored

LEMMA RequestChange ==
    ASSUME LibraryTypes, NEW u \in Users, NEW e \in EditRequests, doing' = [doing EXCEPT ![u] = e]
    PROVE  /\ doing' \in [Users -> EditRequests] /\ doing'[u] = e
           /\ \A v \in Users \ {u} : doing'[v] = doing[v]
  BY DEF LibraryTypes

LEMMA BeginsKeep ==
    ASSUME LibraryInv, NEW u \in Users, NEW t \in ScriptTasks, NEW s \in Stored,
           NEW step \in {"insert", "clone", "private", "write"}, Begin(u, step, t, s),
           step = "write" => (uses[t] = s => UsersOf(s) \subseteq {t})
    PROVE  LibraryInv'
<1>1. Doing(step, t, s) \in EditRequests
  BY DEF Doing, EditRequests, Stored
<1>2. /\ doing' \in [Users -> EditRequests] /\ doing'[u] = Doing(step, t, s)
      /\ \A v \in Users \ {u} : doing'[v] = doing[v]
  BY <1>1, RequestChange DEF Begin, LibraryInv
<1>3. LibraryTypes' /\ NamesExist'
  BY <1>2 DEF Begin, LibraryInv, LibraryTypes, NamesExist, At, Stored, Doing
<1>4. WritesOwn'
  BY <1>2 DEF Begin, LibraryInv, WritesOwn, At, UsersOf, Doing
<1> QED
  BY <1>3, <1>4 DEF LibraryInv

LEMMA LooksKeep ==
    ASSUME LibraryInv, NEW u \in Users, NEW t \in ScriptTasks,
           \/ \E from \in ScriptTasks : CopyLooks(u, t, from)
           \/ \E s \in Scripts : CreateLooks(u, t, s) \/ UpdateLooks(u, t, s) \/ EditLooks(u, t, s)
    PROVE  LibraryInv'
<1>1. \A s : CloneOrShare(s) \in {"insert", "clone"}
  BY DEF CloneOrShare
<1>2. CASE \E from \in ScriptTasks : CopyLooks(u, t, from)
  <2>1. PICK from \in ScriptTasks : from \in Live /\ Begin(u, CloneOrShare(uses[from]), t, uses[from])
    BY <1>2 DEF CopyLooks
  <2>2. uses[from] \in Stored
    BY <2>1, LibraryAssumption DEF Live, LibraryInv, NamesExist, LibraryTypes
  <2> QED
    BY <1>1, <2>1, <2>2, BeginsKeep
<1>3. CASE \E s \in Scripts : CreateLooks(u, t, s) \/ UpdateLooks(u, t, s)
  <2>1. PICK s \in Stored : Begin(u, CloneOrShare(s), t, s)
    BY <1>3 DEF CreateLooks, UpdateLooks
  <2> QED
    BY <1>1, <2>1, BeginsKeep
<1>4. CASE \E s \in Scripts : EditLooks(u, t, s)
  <2>1. PICK s \in Stored : Begin(u, EditStep(t, s), t, s)
    BY <1>4 DEF EditLooks
  <2>2. EditStep(t, s) \in {"private", "write"} /\ s \in Scripts
    BY DEF EditStep, Stored
  <2>3. EditStep(t, s) = "write" => (uses[t] = s => UsersOf(s) \subseteq {t})
    BY <2>2, LoneUser DEF LibraryInv
  <2> QED
    BY <2>1, <2>2, <2>3, BeginsKeep
<1> QED
  BY <1>2, <1>3, <1>4

\* A copy: of a script that is there, under a number that no task has.
LEMMA NewScript ==
    ASSUME LibraryInv, Unused # {}
    PROVE  LET c == CHOOSE c \in Unused : TRUE
           IN c \in Scripts /\ c \notin Stored /\ UsersOf(c) = {}
<1> DEFINE c == CHOOSE c \in Unused : TRUE
<1>1. c \in Unused
  OBVIOUS
<1> HIDE DEF c
<1>2. c \in Scripts /\ c \notin Stored
  BY <1>1 DEF Unused
<1>3. UsersOf(c) = {}
  BY <1>2, LibraryAssumption DEF LibraryInv, NamesExist, UsersOf
<1> QED
  BY <1>2, <1>3 DEF c

LEMMA CloneKeeps == ASSUME LibraryInv, NEW u \in Users, Clone(u) PROVE LibraryInv'
<1>1. PICK c \in Scripts :
        /\ c \notin Stored /\ UsersOf(c) = {}
        /\ content' = [content EXCEPT ![c] = content[doing[u].script]]
        /\ doing' = [doing EXCEPT ![u] = Doing("insert", doing[u].task, c)]
  BY NewScript DEF Clone, LibraryInv, LibraryTypes
<1>2. /\ doing[u].task \in ScriptTasks /\ doing[u].script \in Stored
      /\ content[doing[u].script] \in Nat \ {0}
  BY DEF Clone, At, LibraryInv, LibraryTypes, NamesExist, Stored
<1>3. /\ Doing("insert", doing[u].task, c) \in EditRequests
      /\ Doing("insert", doing[u].task, c).step = "insert"
      /\ Doing("insert", doing[u].task, c).task = doing[u].task
      /\ Doing("insert", doing[u].task, c).script = c
  BY <1>2 DEF Doing, EditRequests
<1>4. content' \in [Scripts -> Nat] /\ Stored' = Stored \cup {c}
  BY <1>1, <1>2, StaysStored DEF LibraryInv
<1>5. /\ doing' \in [Users -> EditRequests] /\ doing'[u] = Doing("insert", doing[u].task, c)
      /\ \A v \in Users \ {u} : doing'[v] = doing[v]
  BY <1>1, <1>3, RequestChange DEF LibraryInv
<1>6. LibraryTypes' /\ NamesExist'
  BY <1>2, <1>3, <1>4, <1>5 DEF Clone, LibraryInv, LibraryTypes, NamesExist, At
<1>7. WritesOwn'
  BY <1>3, <1>5 DEF Clone, LibraryInv, WritesOwn, At, UsersOf
<1> QED
  BY <1>6, <1>7 DEF LibraryInv

LEMMA PrivateKeeps == ASSUME LibraryInv, NEW u \in Users, MakePrivate(u) PROVE LibraryInv'
<1>1. PICK c \in Scripts :
        /\ c \notin Stored /\ UsersOf(c) = {}
        /\ content' = [content EXCEPT ![c] = content[doing[u].script]]
        /\ uses' = [uses EXCEPT ![doing[u].task] = IF @ = "gone" THEN @ ELSE c]
        /\ doing' = [doing EXCEPT ![u] = Doing("write", doing[u].task, c)]
  BY NewScript DEF MakePrivate, LibraryInv, LibraryTypes
<1>2. /\ doing[u].task \in ScriptTasks /\ doing[u].script \in Stored
      /\ content[doing[u].script] \in Nat \ {0}
  BY DEF MakePrivate, At, LibraryInv, LibraryTypes, NamesExist, Stored
<1> DEFINE e == Doing("write", doing[u].task, c)
<1>3. e \in EditRequests /\ e.step = "write" /\ e.task = doing[u].task /\ e.script = c
  BY <1>2 DEF Doing, EditRequests
<1> HIDE DEF e
<1>4. content' \in [Scripts -> Nat] /\ Stored' = Stored \cup {c}
  BY <1>1, <1>2, StaysStored DEF LibraryInv
<1>5. /\ doing' \in [Users -> EditRequests] /\ doing'[u] = e
      /\ \A v \in Users \ {u} : doing'[v] = doing[v]
  BY <1>1, <1>3, RequestChange DEF LibraryInv, e
<1>6. /\ uses' \in [ScriptTasks -> Scripts \cup {"none", "gone"}]
      /\ uses'[doing[u].task] \in {c, "gone"}
      /\ \A t \in ScriptTasks \ {doing[u].task} : uses'[t] = uses[t]
  BY <1>1, <1>2 DEF LibraryInv, LibraryTypes
<1>7. LibraryTypes' /\ NamesExist'
  BY <1>2, <1>3, <1>4, <1>5, <1>6 DEF MakePrivate, LibraryInv, LibraryTypes, NamesExist, At
<1>8. WritesOwn'
  <2> SUFFICES ASSUME NEW v \in Users, At(v, "write")', ~doing'[v].joined,
                      uses'[doing'[v].task] = doing'[v].script,
                      NEW t \in ScriptTasks, uses'[t] = doing'[v].script, t # doing'[v].task
               PROVE  FALSE
    BY DEF WritesOwn, UsersOf
  <2>1. CASE v = u
    BY <2>1, <1>1, <1>3, <1>5, <1>6 DEF UsersOf
  <2>2. CASE v # u
    <3>1. At(v, "write") /\ doing'[v] = doing[v] /\ doing[v].script \in Stored
          /\ doing[v].task \in ScriptTasks /\ doing[v].script # c
      BY <2>2, <1>1, <1>5 DEF At, LibraryInv, NamesExist
    <3>2. doing[v].script \notin {c, "gone"}
      BY <3>1, LibraryAssumption DEF Stored
    <3>3. uses[doing[v].task] = doing[v].script /\ uses[t] = doing[v].script
      BY <3>1, <3>2, <1>6
    <3> QED
      BY <3>1, <3>3 DEF LibraryInv, WritesOwn, UsersOf
  <2> QED
    BY <2>1, <2>2
<1> QED
  BY <1>7, <1>8 DEF LibraryInv

LEMMA TaskWrittenKeeps == ASSUME LibraryInv, NEW u \in Users, TaskWritten(u) PROVE LibraryInv'
<1>1. doing[u].task \in ScriptTasks /\ doing[u].script \in Stored /\ doing[u].script \in Scripts
  BY DEF TaskWritten, At, LibraryInv, NamesExist, Stored
<1>2. /\ uses' \in [ScriptTasks -> Scripts \cup {"none", "gone"}]
      /\ \A t \in ScriptTasks : uses'[t] = uses[t] \/ uses'[t] = doing[u].script
  BY <1>1 DEF TaskWritten, LibraryInv, LibraryTypes
<1>3. Nobody \in EditRequests /\ Nobody.step = "idle"
  BY DEF Nobody, EditRequests
<1>4. \A v \in Users \ {u} :
        LET e == [doing[v] EXCEPT !.joined = @ \/ doing[v].script = doing[u].script]
        IN /\ e \in EditRequests /\ e.step = doing[v].step /\ e.task = doing[v].task
           /\ e.script = doing[v].script
           /\ ~e.joined => ~doing[v].joined /\ doing[v].script # doing[u].script
  BY DEF LibraryInv, LibraryTypes, EditRequests
<1>5. /\ doing' \in [Users -> EditRequests] /\ doing'[u].step = "idle"
      /\ \A v \in Users \ {u} :
            /\ doing'[v].step = doing[v].step /\ doing'[v].task = doing[v].task
            /\ doing'[v].script = doing[v].script
            /\ ~doing'[v].joined => ~doing[v].joined /\ doing[v].script # doing[u].script
  BY <1>3, <1>4 DEF TaskWritten
<1>6. LibraryTypes' /\ NamesExist'
  BY <1>1, <1>2, <1>5 DEF TaskWritten, LibraryInv, LibraryTypes, NamesExist, At, Stored
<1>7. WritesOwn'
  BY <1>2, <1>5 DEF LibraryInv, NamesExist, WritesOwn, At, UsersOf
<1> QED
  BY <1>6, <1>7 DEF LibraryInv

LEMMA WriteKeeps == ASSUME LibraryInv, NEW u \in Users, WriteContent(u) PROVE LibraryInv'
<1>1. doing[u].script \in Scripts /\ Stored' = Stored /\ content' \in [Scripts -> Nat]
  BY DEF WriteContent, At, LibraryInv, LibraryTypes, NamesExist, Stored
<1>2. Nobody \in EditRequests /\ Nobody.step = "idle"
  BY DEF Nobody, EditRequests
<1>3. /\ doing' \in [Users -> EditRequests] /\ doing'[u] = Nobody
      /\ \A v \in Users \ {u} : doing'[v] = doing[v]
  BY <1>2, RequestChange DEF WriteContent, LibraryInv
<1> QED
  BY <1>1, <1>2, <1>3 DEF WriteContent, LibraryInv, LibraryTypes, NamesExist, WritesOwn, At, UsersOf

LEMMA DeleteRowKeeps == ASSUME LibraryInv, NEW t \in ScriptTasks, DeleteTaskRow(t) PROVE LibraryInv'
<1>1. "gone" \notin Stored
  BY LibraryAssumption DEF Stored
<1> QED
  BY <1>1 DEF DeleteTaskRow, LibraryInv, LibraryTypes, NamesExist, WritesOwn, At, UsersOf, Stored

LEMMA LibraryKept == LibraryInv /\ [ScriptNext]_scriptVars => LibraryInv'
<1> SUFFICES ASSUME LibraryInv, [ScriptNext]_scriptVars PROVE LibraryInv'
  OBVIOUS
<1>1. CASE UNCHANGED scriptVars
  BY <1>1 DEF scriptVars, LibraryInv, LibraryTypes, NamesExist, WritesOwn, At, UsersOf, Stored
<1>2. CASE ScriptNext
  BY <1>2, LooksKeep, CloneKeeps, TaskWrittenKeeps, PrivateKeeps, WriteKeeps, DeleteRowKeeps
     DEF ScriptNext
<1> QED
  BY <1>1, <1>2

\* A write that ends an edit reaches the script of the page alone.
LEMMA WritePrivate ==
    ASSUME LibraryInv, [ScriptNext]_scriptVars, NEW u \in Users, At(u, "write"),
           doing'[u] = Nobody, uses[doing[u].task] = doing[u].script, ~doing[u].joined,
           NEW v \in Live \ {doing[u].task}
    PROVE  content'[uses[v]] = content[uses[v]]
<1>1. v \in ScriptTasks /\ uses[v] \in Scripts
  BY DEF Live
<1>2. uses[v] # doing[u].script
  BY <1>1 DEF LibraryInv, WritesOwn, UsersOf
<1>3. CASE \E w \in Users : WriteContent(w)
  <2>1. PICK w \in Users : WriteContent(w)
    BY <1>3
  <2>2. w = u
    BY <2>1 DEF WriteContent, LibraryInv, LibraryTypes, At, Nobody
  <2> QED
    BY <1>1, <1>2, <2>1, <2>2 DEF WriteContent, LibraryInv, LibraryTypes
<1>4. CASE UNCHANGED content
  BY <1>4
<1>5. \A w \in Users : Clone(w) \/ MakePrivate(w) => doing'[u] # Nobody
  <2> SUFFICES ASSUME NEW w \in Users, Clone(w) \/ MakePrivate(w) PROVE doing'[u] # Nobody
    OBVIOUS
  <2>1. CASE w # u
    BY <2>1 DEF Clone, MakePrivate, LibraryInv, LibraryTypes, At, Nobody
  <2>2. CASE w = u
    BY <2>2 DEF Clone, MakePrivate, At
  <2> QED
    BY <2>1, <2>2
<1> QED
  BY <1>3, <1>4, <1>5
     DEF ScriptNext, scriptVars, Begin, CopyLooks, CreateLooks, UpdateLooks, EditLooks, TaskWritten,
         DeleteTaskRow

\* For any tasks, scripts and users: an edit made from a task's page changes what another task
\* runs only if that task took the script up between the look and the write, or the page showed
\* a script that is not the task's.
THEOREM EditsArePrivate == ScriptSpec => EditStaysPrivate
<1>1. LibraryInv /\ [ScriptNext]_scriptVars =>
        [\A u \in Users :
            LET t == doing[u].task
                s == doing[u].script
            IN At(u, "write") /\ doing'[u] = Nobody /\ uses[t] = s /\ ~doing[u].joined =>
                  \A v \in Live \ {t} : content'[uses[v]] = content[uses[v]]]_scriptVars
  BY WritePrivate
<1> QED
  BY <1>1, LibraryBegins, LibraryKept, PTL DEF ScriptSpec, EditStaysPrivate

\* The same in the model that is checked.
THEOREM EditsArePrivateThere == MCSpec => EditStaysPrivate
<1>1. MCInit => LibraryInv
  <2>1. ScriptRest => LibraryInv
    BY LibraryAssumption
       DEF ScriptRest, LibraryInv, LibraryTypes, NamesExist, WritesOwn, EditRequests, Nobody, At, Stored
  <2> QED
    BY <2>1, LibraryBegins DEF MCInit
<1>2. [MCNext]_mcVars => [ScriptNext]_scriptVars
  BY DEF MCNext, mcVars, Resting, scriptVars
<1>3. LibraryInv /\ [ScriptNext]_scriptVars =>
        [\A u \in Users :
            LET t == doing[u].task
                s == doing[u].script
            IN At(u, "write") /\ doing'[u] = Nobody /\ uses[t] = s /\ ~doing[u].joined =>
                  \A v \in Live \ {t} : content'[uses[v]] = content[uses[v]]]_scriptVars
  BY WritePrivate
<1> QED
  BY <1>1, <1>2, <1>3, LibraryKept, PTL DEF MCSpec, EditStaysPrivate

-----------------------------------------------------------------------------
(* Reports *)

ReportRows == [status : Statuses \cup {"none"}, path : Paths]
Files == HtmlStates \cup {"none"}
MakerRows == [report : ReportIds \cup {0}, by : {"none", "request", "task"},
              step : {"off", "queued", "row", "open", "write", "upload", "complete"},
              tries : Nat, copy : Files]
ViewerRows == [report : ReportIds \cup {0}, path : Paths, data : Files,
               step : {"off", "open", "write", "read"}, done : BOOLEAN, overtaken : BOOLEAN]
ReportTypes ==
    /\ report \in [ReportIds -> ReportRows] /\ html \in [ReportIds -> HtmlStates]
    /\ archive \in [ReportIds -> HtmlStates] /\ cached \in [ReportIds -> HtmlStates]
    /\ maker \in [Makers -> MakerRows] /\ viewer \in [Viewers -> ViewerRows]
    /\ crossed \subseteq ReportIds /\ edited \subseteq ReportIds
    /\ \A m \in Makers :
          /\ maker[m].step # "off" => maker[m].report \in ReportIds
          /\ maker[m].step # "complete" => maker[m].copy = "none"
    /\ \A v \in Viewers :
          /\ viewer[v].step # "off" =>
                viewer[v].report \in ReportIds /\ viewer[v].path \in {"local", "s3"}
          /\ viewer[v].step = "write" => viewer[v].data \in HtmlStates
          /\ viewer[v].step = "open" => viewer[v].data \in HtmlStates

\* No two generations of a report at one time, but of those that are known to have crossed.
OneAtATime ==
    \A m, n \in Makers :
        maker[m].report = maker[n].report /\ maker[m].report \notin crossed
        /\ maker[m].step \notin {"off", "queued"} /\ maker[n].step \notin {"off", "queued"} => m = n
\* While the file is written the row does not say completed; what is uploaded is whole.
NotYetCompleted ==
    \A m \in Makers :
        maker[m].step \in {"open", "write", "upload", "complete"} /\ maker[m].report \notin crossed =>
            /\ maker[m].report \notin edited => report[maker[m].report].status # "completed"
            /\ maker[m].step \in {"upload", "complete"} => html[maker[m].report] = "whole"
            /\ maker[m].step = "complete" => maker[m].copy \in {"none", "whole"}
\* A row says completed of a whole file only.
CompletedIsWhole ==
    \A r \in ReportIds \ (crossed \cup edited) :
        report[r].status = "completed" /\ report[r].path = "local" => html[r] \notin {"cut", "marked"}
\* Once there is a whole object there stays one, and copies with markers are of such objects.
ObjectsAreWhole ==
    \A r \in ReportIds \ crossed :
        /\ archive[r] \in {"absent", "old", "whole"}
        /\ Current(cached[r]) => archive[r] = "whole"
        /\ \A v \in Viewers :
              viewer[v].report = r /\ Current(viewer[v].data) => archive[r] = "whole"
\* Until a new generation opens the file, nobody writes what a viewer looks at.
NobodyWrites ==
    \A v \in Viewers :
        /\ viewer[v].report \in ReportIds \ (crossed \cup edited)
        /\ viewer[v].done /\ viewer[v].path # "s3" /\ ~viewer[v].overtaken
        => /\ html[viewer[v].report] \notin {"cut", "marked"}
           /\ \A m \in Makers : maker[m].report = viewer[v].report => maker[m].step # "write"
ReportInv ==
    /\ ReportTypes /\ OneAtATime /\ NotYetCompleted
    /\ CompletedIsWhole /\ ObjectsAreWhole /\ NobodyWrites

LEMMA ReportsBegin == ReportInit => ReportInv
<1> SUFFICES ASSUME ReportInit PROVE ReportInv
  OBVIOUS
<1>1. /\ NoMaker \in MakerRows /\ NoMaker.step = "off" /\ NoMaker.copy = "none"
      /\ NoViewer \in ViewerRows /\ NoViewer.step = "off" /\ NoViewer.done = FALSE
      /\ ~Current(NoViewer.data)
      /\ NoReport \in ReportRows
  BY DEF NoMaker, NoViewer, NoReport, MakerRows, ViewerRows, ReportRows, Statuses, Paths, Files,
         HtmlStates, Current
<1>2. /\ maker = [m \in Makers |-> NoMaker] /\ viewer = [v \in Viewers |-> NoViewer]
      /\ crossed = {} /\ edited = {} /\ cached = [r \in ReportIds |-> "absent"]
  BY DEF ReportInit
<1>3. PICK older \in SUBSET ReportIds, path \in {"local", "s3"} :
        /\ report = [r \in ReportIds |->
              IF r \in older THEN [status |-> "completed", path |-> path] ELSE NoReport]
        /\ html = [r \in ReportIds |-> IF r \in older THEN "old" ELSE "absent"]
        /\ archive = [r \in ReportIds |-> IF r \in older /\ path = "s3" THEN "old" ELSE "absent"]
  BY DEF ReportInit
<1>4. [status |-> "completed", path |-> path] \in ReportRows
  BY DEF ReportRows, Statuses, Paths
<1>5. ReportTypes
  BY <1>1, <1>2, <1>3, <1>4 DEF ReportTypes, HtmlStates
<1>6. OneAtATime /\ NotYetCompleted /\ NobodyWrites
  BY <1>1, <1>2 DEF OneAtATime, NotYetCompleted, NobodyWrites
<1>7. CompletedIsWhole
  BY <1>3 DEF CompletedIsWhole
<1>8. ObjectsAreWhole
  BY <1>1, <1>2, <1>3 DEF ObjectsAreWhole, Current
<1> QED
  BY <1>5, <1>6, <1>7, <1>8 DEF ReportInv

LEMMA ReadyWhole == ReportInv => ReadyIsWhole
<1> SUFFICES ASSUME ReportInv, NEW v \in Viewers, viewer[v].step = "read", viewer[v].done,
                    Current(Sees(v)), viewer[v].report \notin crossed \cup edited,
                    ~(viewer[v].path = "local" /\ viewer[v].overtaken)
             PROVE  Meant(v) = "whole"
  BY DEF ReadyIsWhole
<1> DEFINE r == viewer[v].report
<1>1. r \in ReportIds /\ viewer[v].path \in {"local", "s3"} /\ html[r] \in HtmlStates
  BY DEF ReportInv, ReportTypes
<1>2. CASE viewer[v].path = "s3"
  BY <1>1, <1>2 DEF Sees, Meant, ReportInv, ObjectsAreWhole
<1>3. CASE viewer[v].path = "local"
  BY <1>1, <1>3 DEF Sees, Meant, ReportInv, NobodyWrites, Current
<1> QED
  BY <1>1, <1>2, <1>3

LEMMA NewIdIsNew ==
    ASSUME ReportIds \ Present # {}
    PROVE  NewId \in ReportIds \ Present
<1> DEFINE S == ReportIds \ Present
<1>1. S \in SUBSET Nat /\ S # {}
  BY ReportAssumption
<1>2. \E r \in S : \A q \in S : r <= q
  <2> HIDE DEF S
  <2> QED
    BY <1>1, HasLeast
<1> QED
  BY <1>2 DEF NewId

\* A row that does not come to say completed, or is known to be edited, disturbs nothing.
LEMMA RowWritten ==
    ASSUME ReportInv, NEW r \in ReportIds, NEW e \in ReportRows, report' = [report EXCEPT ![r] = e],
           e.status # "completed" \/ r \in edited',
           edited \subseteq edited', edited' \subseteq ReportIds,
           UNCHANGED <<html, archive, cached, viewer, maker, crossed>>
    PROVE  ReportInv'
<1>1. /\ report' \in [ReportIds -> ReportRows] /\ report'[r] = e
      /\ \A q \in ReportIds \ {r} : report'[q] = report[q]
  BY DEF ReportInv, ReportTypes
<1>2. ReportTypes'
  BY <1>1 DEF ReportInv, ReportTypes
<1>3. OneAtATime' /\ ObjectsAreWhole'
  BY DEF ReportInv, OneAtATime, ObjectsAreWhole
<1>4. NotYetCompleted'
  BY <1>1 DEF ReportInv, ReportTypes, NotYetCompleted
<1>5. CompletedIsWhole'
  BY <1>1 DEF ReportInv, CompletedIsWhole
<1>6. NobodyWrites'
  BY DEF ReportInv, NobodyWrites
<1> QED
  BY <1>2, <1>3, <1>4, <1>5, <1>6 DEF ReportInv

LEMMA RequestsKeep ==
    ASSUME ReportInv, SubmitFails \/ \E r \in ReportIds : DeleteReport(r) \/ EditReport(r)
    PROVE  ReportInv'
<1>1. UNCHANGED <<html, archive, cached, viewer, maker, crossed>>
  BY DEF SubmitFails, DeleteReport, EditReport, viewVars, makerVars
<1>2. CASE SubmitFails
  <2> DEFINE e == [status |-> "failed", path |-> "none"]
  <2>1. NewId \in ReportIds /\ e \in ReportRows
    BY <1>2, NewIdIsNew DEF SubmitFails, ReportRows, Statuses, Paths
  <2>2. report' = [report EXCEPT ![NewId] = e] /\ UNCHANGED edited /\ e.status = "failed"
    BY <1>2 DEF SubmitFails
  <2> QED
    BY <1>1, <2>1, <2>2, RowWritten DEF ReportInv, ReportTypes
<1>3. ASSUME NEW r \in ReportIds, DeleteReport(r) \/ EditReport(r) PROVE ReportInv'
  <2>1. CASE \E status \in Statuses : status # "completed" /\ UNCHANGED edited
                                      /\ report' = [report EXCEPT ![r].status = status]
    <3>1. PICK status \in Statuses : status # "completed" /\ UNCHANGED edited
                                     /\ report' = [report EXCEPT ![r].status = status]
      BY <2>1
    <3> DEFINE e == [report[r] EXCEPT !.status = status]
    <3>2. e \in ReportRows /\ e.status # "completed"
      BY <3>1 DEF ReportInv, ReportTypes, ReportRows
    <3>3. report' = [report EXCEPT ![r] = e]
      BY <3>1
    <3> HIDE DEF e
    <3> QED
      BY <1>1, <3>1, <3>2, <3>3, RowWritten DEF ReportInv, ReportTypes
  <2>2. CASE EditReport(r) /\ ~UNCHANGED edited
    <3>1. PICK status \in Statuses, path \in Paths :
            /\ report' = [report EXCEPT ![r] = [status |-> status, path |-> path]]
            /\ edited' = edited \cup {r}
      BY <2>2 DEF EditReport
    <3>2. [status |-> status, path |-> path] \in ReportRows
      BY DEF ReportRows
    <3> QED
      BY <1>1, <3>1, <3>2, RowWritten DEF ReportInv, ReportTypes
  <2>3. CASE EditReport(r) /\ UNCHANGED edited /\ ~\E status \in Statuses :
               status # "completed" /\ report' = [report EXCEPT ![r].status = status]
    <3>1. PICK status \in Statuses, path \in Paths :
            /\ report' = [report EXCEPT ![r] = [status |-> status, path |-> path]]
            /\ edited' = edited \cup {r}
      BY <2>3 DEF EditReport
    <3>2. [status |-> status, path |-> path] \in ReportRows
      BY DEF ReportRows
    <3> QED
      BY <1>1, <3>1, <3>2, RowWritten DEF ReportInv, ReportTypes
  <2>4. CASE DeleteReport(r)
    BY <2>1, <2>4 DEF DeleteReport, Statuses
  <2> QED
    BY <1>3, <2>1, <2>2, <2>3, <2>4
<1> QED
  BY <1>2, <1>3
-----------------------------------------------------------------------------
\* A generation that starts, or is delivered, crosses the one that is at work.
LEMMA StartsAlone ==
    ASSUME ReportTypes, NEW m \in Makers, NEW r \in ReportIds, NEW by \in {"request", "task"},
           NEW step \in {"queued", "row"}, Starts(m, r, by, step)
    PROVE  /\ maker' \in [Makers -> MakerRows] /\ crossed' \subseteq ReportIds
           /\ crossed \subseteq crossed'
           /\ maker'[m].report = r /\ maker'[m].step = step /\ maker'[m].copy = "none"
           /\ \A n \in Makers \ {m} : maker'[n] = maker[n]
           /\ step = "row" /\ r \notin crossed' =>
                 \A n \in Makers : maker[n].report = r => maker[n].step \in {"off", "queued"}
<1> DEFINE e == [NoMaker EXCEPT !.report = r, !.by = by, !.step = step]
<1>1. e \in MakerRows /\ e.report = r /\ e.step = step /\ e.copy = "none"
  BY DEF MakerRows, NoMaker, Files
<1>2. maker' = [maker EXCEPT ![m] = e]
  BY DEF Starts
<1> HIDE DEF e
<1> QED
  BY <1>1, <1>2 DEF Starts, ReportTypes, AtWorkOn

\* What holds after a step of a maker that leaves the files and the viewers alone, starts no
\* writing, and does not complete the row.
LEMMA MakerMoves ==
    ASSUME ReportInv, NEW m \in Makers, NEW r \in ReportIds,
           maker' \in [Makers -> MakerRows], \A n \in Makers \ {m} : maker'[n] = maker[n],
           maker'[m].step # "off" => maker'[m].report = r,
           maker'[m].step # "complete" => maker'[m].copy = "none",
           maker'[m].step \notin {"write", "upload"},
           maker'[m].step = "open" /\ r \notin crossed' \cup edited =>
              report'[r].status # "completed",
           maker'[m].step = "complete" /\ r \notin crossed' =>
              /\ r \notin edited => report'[r].status # "completed"
              /\ html[r] = "whole" /\ maker'[m].copy \in {"none", "whole"},
           maker'[m].step \in {"off", "queued"} \/ r \in crossed' \/
              \A n \in Makers \ {m} : maker[n].report = r => maker[n].step \in {"off", "queued"},
           crossed \subseteq crossed', crossed' \subseteq ReportIds, UNCHANGED edited,
           report' \in [ReportIds -> ReportRows],
           \A q \in ReportIds : report'[q] = report[q] \/ report'[q].status # "completed",
           UNCHANGED <<html, archive, cached, viewer>>
    PROVE  ReportInv'
<1>1. ReportTypes'
  BY DEF ReportInv, ReportTypes
<1>2. OneAtATime'
  BY DEF ReportInv, OneAtATime
<1>3. NotYetCompleted'
  <2> SUFFICES ASSUME NEW n \in Makers,
                      maker'[n].step \in {"open", "write", "upload", "complete"},
                      maker'[n].report \notin crossed'
               PROVE  /\ maker'[n].report \notin edited => report'[maker'[n].report].status # "completed"
                      /\ maker'[n].step \in {"upload", "complete"} => html[maker'[n].report] = "whole"
                      /\ maker'[n].step = "complete" => maker'[n].copy \in {"none", "whole"}
    BY DEF NotYetCompleted
  <2>1. CASE n = m
    BY <2>1
  <2>2. CASE n # m
    <3>1. maker'[n] = maker[n] /\ maker[n].report \in ReportIds /\ maker[n].report \notin crossed
      BY <2>2 DEF ReportInv, ReportTypes
    <3> QED
      BY <3>1 DEF ReportInv, NotYetCompleted
  <2> QED
    BY <2>1, <2>2
<1>4. CompletedIsWhole' /\ ObjectsAreWhole'
  BY DEF ReportInv, CompletedIsWhole, ObjectsAreWhole
<1>5. NobodyWrites'
  BY DEF ReportInv, NobodyWrites
<1> QED
  BY <1>1, <1>2, <1>3, <1>4, <1>5 DEF ReportInv

LEMMA SubmitKeeps ==
    ASSUME ReportInv, NEW m \in Makers, NEW by \in {"request", "task"}, Submit(m, by)
    PROVE  ReportInv'
<1> DEFINE e == [status |-> "pending", path |-> "none"]
<1>1. NewId \in ReportIds
  BY NewIdIsNew DEF Submit
<1>2. PICK r \in ReportIds, step \in {"queued", "row"} :
        Starts(m, r, by, step) /\ report' = [report EXCEPT ![r] = e]
  BY <1>1 DEF Submit
<1>3. UNCHANGED <<html, archive, cached, viewer, edited>>
  BY DEF Submit, viewVars
<1>4. e \in ReportRows /\ e.status = "pending"
  BY DEF ReportRows, Statuses, Paths
<1> HIDE DEF e
<1>5. /\ report' \in [ReportIds -> ReportRows]
      /\ \A q \in ReportIds : report'[q] = report[q] \/ report'[q].status # "completed"
  BY <1>2, <1>4 DEF ReportInv, ReportTypes
<1>6. /\ maker' \in [Makers -> MakerRows] /\ crossed' \subseteq ReportIds
      /\ crossed \subseteq crossed'
      /\ maker'[m].report = r /\ maker'[m].step = step /\ maker'[m].copy = "none"
      /\ \A n \in Makers \ {m} : maker'[n] = maker[n]
      /\ step = "row" /\ r \notin crossed' =>
            \A n \in Makers : maker[n].report = r => maker[n].step \in {"off", "queued"}
  BY <1>2, StartsAlone DEF ReportInv
<1> QED
  BY <1>3, <1>5, <1>6, MakerMoves

LEMMA RegenerateKeeps ==
    ASSUME ReportInv, NEW m \in Makers, NEW r \in ReportIds, Regenerate(m, r)
    PROVE  ReportInv'
<1>1. Starts(m, r, "request", "row") /\ UNCHANGED <<report, html, archive, cached, viewer, edited>>
  BY DEF Regenerate, viewVars
<1>2. /\ maker' \in [Makers -> MakerRows] /\ crossed' \subseteq ReportIds
      /\ crossed \subseteq crossed'
      /\ maker'[m].report = r /\ maker'[m].step = "row" /\ maker'[m].copy = "none"
      /\ \A n \in Makers \ {m} : maker'[n] = maker[n]
      /\ r \notin crossed' =>
            \A n \in Makers : maker[n].report = r => maker[n].step \in {"off", "queued"}
  BY <1>1, StartsAlone DEF ReportInv
<1>3. report' \in [ReportIds -> ReportRows]
  BY <1>1 DEF ReportInv, ReportTypes
<1> QED
  BY <1>1, <1>2, <1>3, MakerMoves

LEMMA DeliverKeeps == ASSUME ReportInv, NEW m \in Makers, Deliver(m) PROVE ReportInv'
<1> DEFINE r == maker[m].report
<1>1. /\ UNCHANGED <<report, html, archive, cached, viewer, edited>>
      /\ r \in ReportIds /\ maker[m].step = "queued"
      /\ maker' = [maker EXCEPT ![m].step = "row"]
  BY DEF Deliver, viewVars, ReportInv, ReportTypes
<1>2. /\ maker' \in [Makers -> MakerRows] /\ crossed' \subseteq ReportIds
      /\ crossed \subseteq crossed'
      /\ maker'[m].report = r /\ maker'[m].step = "row" /\ maker'[m].copy = "none"
      /\ \A n \in Makers \ {m} : maker'[n] = maker[n]
  BY <1>1 DEF Deliver, ReportInv, ReportTypes, MakerRows
<1>3. r \notin crossed' =>
        \A n \in Makers : maker[n].report = r => maker[n].step \in {"off", "queued"}
  BY DEF Deliver, AtWorkOn
<1>4. report' \in [ReportIds -> ReportRows]
  BY <1>1 DEF ReportInv, ReportTypes
<1> HIDE DEF r
<1> QED
  BY <1>1, <1>2, <1>3, <1>4, MakerMoves

\* The report that a maker is at work on is its own, unless it is known to be crossed.
LEMMA OthersRest ==
    ASSUME ReportInv, NEW m \in Makers, maker[m].step \notin {"off", "queued"},
           maker[m].report \notin crossed
    PROVE  \A n \in Makers \ {m} :
              maker[n].report = maker[m].report => maker[n].step \in {"off", "queued"}
  BY DEF ReportInv, OneAtATime

LEMMA ProceedsTyped ==
    ASSUME ReportTypes, NEW m \in Makers, NEW from \in {"row", "open", "write"},
           NEW to \in {"open", "write", "upload", "complete"}, Proceeds(m, from, to)
    PROVE  /\ maker' \in [Makers -> MakerRows] /\ maker[m].report \in ReportIds
           /\ maker[m].step = from /\ maker'[m].step = to /\ maker'[m].report = maker[m].report
           /\ maker'[m].copy = "none"
           /\ \A n \in Makers \ {m} : maker'[n] = maker[n]
  BY DEF Proceeds, ReportTypes, MakerRows

LEMMA StatusSet ==
    ASSUME ReportTypes, NEW r \in ReportIds, NEW status \in {"generating", "failed"},
           report' = [report EXCEPT ![r].status = status]
    PROVE  /\ report' \in [ReportIds -> ReportRows] /\ report'[r].status = status
           /\ \A q \in ReportIds \ {r} : report'[q] = report[q]
<1> DEFINE e == [report[r] EXCEPT !.status = status]
<1>1. e \in ReportRows /\ e.status = status
  BY DEF ReportTypes, ReportRows, Statuses
<1>2. report' = [report EXCEPT ![r] = e]
  OBVIOUS
<1> HIDE DEF e
<1> QED
  BY <1>1, <1>2 DEF ReportTypes

LEMMA MarkKeeps == ASSUME ReportInv, NEW m \in Makers, MarkGenerating(m) PROVE ReportInv'
<1> DEFINE r == maker[m].report
<1>1. /\ maker' \in [Makers -> MakerRows] /\ r \in ReportIds
      /\ maker[m].step = "row" /\ maker'[m].step = "open" /\ maker'[m].report = r
      /\ maker'[m].copy = "none"
      /\ \A n \in Makers \ {m} : maker'[n] = maker[n]
  BY ProceedsTyped DEF MarkGenerating, ReportInv
<1>2. /\ report' \in [ReportIds -> ReportRows] /\ report'[r].status = "generating"
      /\ \A q \in ReportIds \ {r} : report'[q] = report[q]
  BY <1>1, StatusSet DEF MarkGenerating, ReportInv
<1>3. UNCHANGED <<html, archive, cached, viewer, crossed, edited>> /\ crossed \subseteq ReportIds
  BY DEF MarkGenerating, viewVars, ReportInv, ReportTypes
<1>4. r \in crossed \/
        \A n \in Makers \ {m} : maker[n].report = r => maker[n].step \in {"off", "queued"}
  BY <1>1, OthersRest
<1> HIDE DEF r
<1> QED
  BY <1>1, <1>2, <1>3, <1>4, MakerMoves

LEMMA UploadKeeps == ASSUME ReportInv, NEW m \in Makers, UploadHtml(m) PROVE ReportInv'
<1> DEFINE r == maker[m].report
<1>1. /\ r \in ReportIds /\ maker[m].step = "upload" /\ html[r] \in HtmlStates
      /\ UNCHANGED <<report, html, archive, cached, viewer, crossed, edited>>
      /\ crossed \subseteq ReportIds /\ report \in [ReportIds -> ReportRows]
  BY DEF UploadHtml, viewVars, ReportInv, ReportTypes
<1>2. PICK copy \in {"none", html[r]} :
        maker' = [maker EXCEPT ![m].step = "complete", ![m].copy = copy]
  BY DEF UploadHtml
<1>3. /\ maker' \in [Makers -> MakerRows]
      /\ maker'[m].step = "complete" /\ maker'[m].report = r /\ maker'[m].copy = copy
      /\ \A n \in Makers \ {m} : maker'[n] = maker[n]
  <2> DEFINE e == [maker[m] EXCEPT !.step = "complete", !.copy = copy]
  <2>1. e \in MakerRows /\ e.step = "complete" /\ e.report = r /\ e.copy = copy
    BY <1>1 DEF ReportInv, ReportTypes, MakerRows, Files
  <2>2. maker' = [maker EXCEPT ![m] = e]
    BY <1>2
  <2> HIDE DEF e
  <2> QED
    BY <2>1, <2>2 DEF ReportInv, ReportTypes
<1>4. r \notin crossed => /\ r \notin edited => report[r].status # "completed"
                          /\ html[r] = "whole"
  BY <1>1 DEF ReportInv, NotYetCompleted
<1>5. r \in crossed \/
        \A n \in Makers \ {m} : maker[n].report = r => maker[n].step \in {"off", "queued"}
  BY <1>1, OthersRest
<1> HIDE DEF r
<1> QED
  BY <1>1, <1>2, <1>3, <1>4, <1>5, MakerMoves

LEMMA EndsKeep == ASSUME ReportInv, NEW m \in Makers, Fails(m) \/ Dies(m) PROVE ReportInv'
<1> DEFINE r == maker[m].report
<1>1. /\ r \in ReportIds /\ UNCHANGED <<html, archive, cached, viewer, crossed, edited>>
      /\ crossed \subseteq ReportIds
  BY DEF Fails, Dies, viewVars, ReportInv, ReportTypes
<1>2. NoMaker \in MakerRows /\ NoMaker.step = "off" /\ NoMaker.copy = "none"
  BY DEF NoMaker, MakerRows, Files
<1>3. /\ maker' \in [Makers -> MakerRows] /\ maker'[m].step \in {"off", "queued"}
      /\ maker'[m].copy = "none"
      /\ maker'[m].step = "queued" => maker'[m].report = r
      /\ \A n \in Makers \ {m} : maker'[n] = maker[n]
  <2>1. CASE maker' = [maker EXCEPT ![m] = NoMaker]
    BY <2>1, <1>2 DEF ReportInv, ReportTypes
  <2>2. CASE \E count \in Nat : maker' = [maker EXCEPT ![m] =
                [maker[m] EXCEPT !.step = "queued", !.copy = "none", !.tries = count]]
    <3>1. PICK count \in Nat : maker' = [maker EXCEPT ![m] =
                [maker[m] EXCEPT !.step = "queued", !.copy = "none", !.tries = count]]
      BY <2>2
    <3> DEFINE e == [maker[m] EXCEPT !.step = "queued", !.copy = "none", !.tries = count]
    <3>2. e \in MakerRows /\ e.step = "queued" /\ e.report = r /\ e.copy = "none"
      BY DEF ReportInv, ReportTypes, MakerRows, Files
    <3> HIDE DEF e
    <3> QED
      BY <3>1, <3>2 DEF ReportInv, ReportTypes, e
  <2>3. maker[m] \in MakerRows /\ maker[m].tries \in Nat /\ maker[m].tries + 1 \in Nat
    BY DEF ReportInv, ReportTypes, MakerRows
  <2>4. CASE Dies(m)
    <3>1. CASE maker[m].by # "task"
      BY <2>1, <2>4, <3>1 DEF Dies
    <3>2. CASE maker[m].by = "task"
      <4>1. maker' = [maker EXCEPT ![m] = [maker[m] EXCEPT !.step = "queued", !.copy = "none"]]
        BY <2>4, <3>2 DEF Dies
      <4>2. [maker[m] EXCEPT !.step = "queued", !.copy = "none"]
              = [maker[m] EXCEPT !.step = "queued", !.copy = "none", !.tries = maker[m].tries]
        BY <2>3 DEF MakerRows
      <4> QED
        BY <2>2, <2>3, <4>1, <4>2
    <3> QED
      BY <3>1, <3>2
  <2>5. CASE Fails(m)
    <3>1. CASE maker' = [maker EXCEPT ![m].step = "queued", ![m].tries = @ + 1, ![m].copy = "none"]
      <4>1. maker' = [maker EXCEPT ![m] =
              [maker[m] EXCEPT !.step = "queued", !.copy = "none", !.tries = maker[m].tries + 1]]
        BY <2>3, <3>1 DEF MakerRows, ReportInv, ReportTypes
      <4> QED
        BY <2>2, <2>3, <4>1
    <3> QED
      BY <2>1, <2>5, <3>1 DEF Fails
  <2> QED
    BY <2>4, <2>5
<1>4. /\ report' \in [ReportIds -> ReportRows]
      /\ \A q \in ReportIds : report'[q] = report[q] \/ report'[q].status # "completed"
  <2>1. CASE UNCHANGED report
    BY <2>1 DEF ReportInv, ReportTypes
  <2>2. CASE report' = [report EXCEPT ![r].status = "failed"]
    BY <2>2, <1>1, StatusSet DEF ReportInv
  <2> QED
    BY <2>1, <2>2 DEF Fails, Dies
<1> HIDE DEF r
<1> QED
  BY <1>1, <1>3, <1>4, MakerMoves
-----------------------------------------------------------------------------
\* While one generation writes the file, no other is about to complete the row, and whoever
\* looks at the file is overtaken.
LEMMA FileKeeps ==
    ASSUME ReportInv, NEW m \in Makers, OpenHtml(m) \/ WriteMarkers(m) \/ CloseHtml(m)
    PROVE  ReportInv'
<1> DEFINE r == maker[m].report
<1>1. /\ maker' \in [Makers -> MakerRows] /\ r \in ReportIds
      /\ maker[m].step \in {"open", "write"} /\ maker'[m].step \in {"write", "upload", "complete"}
      /\ maker'[m].report = r /\ maker'[m].copy = "none"
      /\ \A n \in Makers \ {m} : maker'[n] = maker[n]
  BY ProceedsTyped DEF OpenHtml, WriteMarkers, CloseHtml, makerVars, ReportInv, ReportTypes
<1>2. PICK h \in HtmlStates :
        /\ html' = [html EXCEPT ![r] = h]
        /\ maker'[m].step # "write" => h = "whole"
        /\ maker'[m].step = "write" => maker[m].step = "write" \/ OpenHtml(m)
  <2>1. CASE OpenHtml(m)
    BY <2>1, <1>1, ProceedsTyped DEF OpenHtml, HtmlStates, ReportInv
  <2>2. CASE WriteMarkers(m)
    BY <2>2, <1>1 DEF WriteMarkers, HtmlStates, makerVars
  <2>3. CASE CloseHtml(m)
    BY <2>3, <1>1, ProceedsTyped DEF CloseHtml, HtmlStates, ReportInv
  <2> QED
    BY <2>1, <2>2, <2>3
<1>3. UNCHANGED <<report, archive, cached, crossed, edited>>
  BY DEF OpenHtml, WriteMarkers, CloseHtml, viewVars, makerVars
<1>4. /\ viewer' \in [Viewers -> ViewerRows]
      /\ \A v \in Viewers :
            /\ viewer'[v].report = viewer[v].report /\ viewer'[v].data = viewer[v].data
            /\ viewer'[v].done = viewer[v].done /\ viewer'[v].path = viewer[v].path
            /\ viewer'[v].step = viewer[v].step
            /\ viewer'[v] = viewer[v] \/ viewer'[v].overtaken
            /\ OpenHtml(m) /\ viewer[v].report = r => viewer'[v].overtaken
  <2>1. CASE OpenHtml(m)
    <3>1. viewer' = [v \in Viewers |-> IF viewer[v].report = r
                        THEN [viewer[v] EXCEPT !.overtaken = TRUE] ELSE viewer[v]]
      BY <2>1 DEF OpenHtml
    <3>2. \A v \in Viewers : viewer[v] \in ViewerRows
      BY DEF ReportInv, ReportTypes
    <3> QED
      BY <3>1, <3>2 DEF ViewerRows
  <2>2. CASE UNCHANGED viewer /\ ~OpenHtml(m)
    BY <2>2 DEF ReportInv, ReportTypes
  <2> QED
    BY <2>1, <2>2 DEF WriteMarkers, CloseHtml, viewVars
<1>5. html' \in [ReportIds -> HtmlStates] /\ html'[r] = h
      /\ \A q \in ReportIds \ {r} : html'[q] = html[q]
  BY <1>1, <1>2 DEF ReportInv, ReportTypes
<1>6. r \in crossed \/
        \A n \in Makers \ {m} : maker[n].report = r => maker[n].step \in {"off", "queued"}
  BY <1>1, OthersRest
<1>7. r \notin crossed \cup edited => report[r].status # "completed"
  BY <1>1 DEF ReportInv, NotYetCompleted
<1> HIDE DEF r
<1>8. ReportTypes'
  BY <1>1, <1>3, <1>4, <1>5 DEF ReportInv, ReportTypes
<1>9. OneAtATime'
  BY <1>1, <1>3, <1>6 DEF ReportInv, OneAtATime
<1>10. NotYetCompleted'
  <2> SUFFICES ASSUME NEW n \in Makers,
                      maker'[n].step \in {"open", "write", "upload", "complete"},
                      maker'[n].report \notin crossed
               PROVE  /\ maker'[n].report \notin edited => report[maker'[n].report].status # "completed"
                      /\ maker'[n].step \in {"upload", "complete"} => html'[maker'[n].report] = "whole"
                      /\ maker'[n].step = "complete" => maker'[n].copy \in {"none", "whole"}
    BY <1>3 DEF NotYetCompleted
  <2>1. CASE n = m
    BY <2>1, <1>1, <1>2, <1>5, <1>7
  <2>2. CASE n # m
    <3>1. maker[n].report # r /\ maker'[n] = maker[n] /\ maker[n].report \in ReportIds
      BY <2>2, <1>1, <1>6 DEF ReportInv, ReportTypes
    <3> QED
      BY <3>1, <1>5 DEF ReportInv, NotYetCompleted
  <2> QED
    BY <2>1, <2>2
<1>11. CompletedIsWhole'
  BY <1>3, <1>5, <1>7 DEF ReportInv, CompletedIsWhole
<1>12. ObjectsAreWhole'
  BY <1>3, <1>4 DEF ReportInv, ObjectsAreWhole
<1>13. NobodyWrites'
  <2> SUFFICES ASSUME NEW v \in Viewers,
                      viewer[v].report \in ReportIds \ (crossed \cup edited),
                      viewer'[v].done, viewer'[v].path # "s3", ~viewer'[v].overtaken
               PROVE  /\ html'[viewer[v].report] \notin {"cut", "marked"}
                      /\ \A n \in Makers :
                            maker'[n].report = viewer[v].report => maker'[n].step # "write"
    BY <1>3, <1>4 DEF NobodyWrites
  <2>1. /\ viewer'[v] = viewer[v]
        /\ html[viewer[v].report] \notin {"cut", "marked"}
        /\ \A n \in Makers : maker[n].report = viewer[v].report => maker[n].step # "write"
    BY <1>4 DEF ReportInv, NobodyWrites
  <2>2. viewer[v].report = r => maker'[m].step # "write" /\ h = "whole"
    BY <2>1, <1>1, <1>2, <1>4 DEF r
  <2> QED
    BY <2>1, <2>2, <1>1, <1>5
<1> QED
  BY <1>8, <1>9, <1>10, <1>11, <1>12, <1>13 DEF ReportInv

LEMMA CompleteKeeps == ASSUME ReportInv, NEW m \in Makers, Complete(m) PROVE ReportInv'
<1> DEFINE r == maker[m].report
           copy == maker[m].copy
<1>1. /\ r \in ReportIds /\ maker[m].step = "complete"
      /\ UNCHANGED <<html, cached, viewer, crossed, edited>>
  BY DEF Complete, viewVars, ReportInv, ReportTypes
<1>2. NoMaker \in MakerRows /\ NoMaker.step = "off" /\ NoMaker.copy = "none"
  BY DEF NoMaker, MakerRows, Files
<1>3. /\ maker' \in [Makers -> MakerRows] /\ maker'[m] = NoMaker
      /\ \A n \in Makers \ {m} : maker'[n] = maker[n]
  BY <1>2 DEF Complete, ReportInv, ReportTypes
<1>4. r \in crossed \/
        \A n \in Makers \ {m} : maker[n].report = r => maker[n].step \in {"off", "queued"}
  BY <1>1, OthersRest
<1>5. r \notin crossed => html[r] = "whole" /\ copy \in {"none", "whole"}
  BY <1>1 DEF ReportInv, NotYetCompleted
<1>6. /\ report' \in [ReportIds -> ReportRows]
      /\ \A q \in ReportIds \ {r} : report'[q] = report[q]
  <2>1. \A path \in Paths : [status |-> "completed", path |-> path] \in ReportRows
    BY DEF ReportRows, Statuses
  <2>2. report[r].path \in Paths /\ {"local", "s3"} \subseteq Paths
    BY <1>1 DEF ReportInv, ReportTypes, ReportRows, Paths
  <2>3. PICK path \in Paths : report' = [report EXCEPT ![r] = [status |-> "completed", path |-> path]]
    BY <2>2 DEF Complete
  <2> QED
    BY <1>1, <2>1, <2>3 DEF ReportInv, ReportTypes
<1>7. /\ archive' \in [ReportIds -> HtmlStates]
      /\ \A q \in ReportIds \ {r} : archive'[q] = archive[q]
      /\ archive'[r] = archive[r] \/ archive'[r] = copy
  <2>1. copy \in Files
    BY DEF ReportInv, ReportTypes, MakerRows
  <2>2. CASE copy = "none"
    BY <2>2 DEF Complete, ReportInv, ReportTypes
  <2>3. CASE copy # "none"
    BY <1>1, <2>1, <2>3 DEF Complete, ReportInv, ReportTypes, Files
  <2> QED
    BY <2>2, <2>3
<1>8. r \notin crossed => archive'[r] = archive[r] \/ archive'[r] = "whole"
  <2>1. copy = "none" => UNCHANGED archive
    BY DEF Complete
  <2> QED
    BY <2>1, <1>5, <1>7
<1> HIDE DEF r, copy
<1>9. ReportTypes'
  BY <1>1, <1>2, <1>3, <1>6, <1>7 DEF ReportInv, ReportTypes
<1>10. OneAtATime'
  BY <1>1, <1>2, <1>3 DEF ReportInv, OneAtATime
<1>11. NotYetCompleted'
  <2> SUFFICES ASSUME NEW n \in Makers,
                      maker'[n].step \in {"open", "write", "upload", "complete"},
                      maker'[n].report \notin crossed
               PROVE  /\ maker'[n].report \notin edited => report'[maker'[n].report].status # "completed"
                      /\ maker'[n].step \in {"upload", "complete"} => html[maker'[n].report] = "whole"
                      /\ maker'[n].step = "complete" => maker'[n].copy \in {"none", "whole"}
    BY <1>1 DEF NotYetCompleted
  <2>1. n # m /\ maker'[n] = maker[n]
    BY <1>2, <1>3
  <2>2. maker[n].report # r /\ maker[n].report \in ReportIds
    BY <2>1, <1>4 DEF ReportInv, ReportTypes
  <2> QED
    BY <2>1, <2>2, <1>6 DEF ReportInv, NotYetCompleted
<1>12. CompletedIsWhole'
  BY <1>1, <1>5, <1>6 DEF ReportInv, CompletedIsWhole
<1>13. ObjectsAreWhole'
  BY <1>1, <1>7, <1>8 DEF ReportInv, ObjectsAreWhole
<1>14. NobodyWrites'
  BY <1>1, <1>2, <1>3 DEF ReportInv, NobodyWrites
<1> QED
  BY <1>9, <1>10, <1>11, <1>12, <1>13, <1>14 DEF ReportInv
-----------------------------------------------------------------------------
\* What viewers change: a viewer of their own and one cached copy.
LEMMA ViewerMoves ==
    ASSUME ReportInv, NEW v \in Viewers, NEW e \in ViewerRows, viewer' = [viewer EXCEPT ![v] = e],
           cached' \in [ReportIds -> HtmlStates],
           \A q \in ReportIds \ crossed :
              Current(cached'[q]) => Current(cached[q]) \/ archive[q] = "whole",
           \A q \in ReportIds \ crossed :
              e.report = q /\ Current(e.data) => archive[q] = "whole",
           e.step # "off" => e.report \in ReportIds /\ e.path \in {"local", "s3"},
           e.step \in {"open", "write"} => e.data \in HtmlStates,
           \/ e.report = viewer[v].report /\ e.done = viewer[v].done /\ e.path = viewer[v].path
              /\ e.overtaken = viewer[v].overtaken
           \/ e.done = FALSE
           \/ e.path = "s3"
           \/ report[e.report].status = "completed" /\ report[e.report].path = "local",
           UNCHANGED <<report, html, archive, maker, crossed, edited>>
    PROVE  ReportInv'
<1>1. /\ viewer' \in [Viewers -> ViewerRows] /\ viewer'[v] = e
      /\ \A u \in Viewers \ {v} : viewer'[u] = viewer[u]
  BY DEF ReportInv, ReportTypes
<1>2. ReportTypes'
  BY <1>1 DEF ReportInv, ReportTypes
<1>3. OneAtATime' /\ NotYetCompleted' /\ CompletedIsWhole'
  BY DEF ReportInv, OneAtATime, NotYetCompleted, CompletedIsWhole
<1>4. ObjectsAreWhole'
  BY <1>1 DEF ReportInv, ObjectsAreWhole
<1>5. NobodyWrites'
  <2> SUFFICES ASSUME NEW u \in Viewers,
                      viewer'[u].report \in ReportIds \ (crossed \cup edited),
                      viewer'[u].done, viewer'[u].path # "s3", ~viewer'[u].overtaken
               PROVE  /\ html[viewer'[u].report] \notin {"cut", "marked"}
                      /\ \A m \in Makers :
                            maker[m].report = viewer'[u].report => maker[m].step # "write"
    BY DEF NobodyWrites
  <2>1. CASE u # v
    BY <2>1, <1>1 DEF ReportInv, NobodyWrites
  <2>2. CASE u = v /\ e.report = viewer[v].report /\ e.done = viewer[v].done
             /\ e.path = viewer[v].path /\ e.overtaken = viewer[v].overtaken
    BY <2>2, <1>1 DEF ReportInv, NobodyWrites
  <2>3. CASE u = v /\ report[e.report].status = "completed" /\ report[e.report].path = "local"
    BY <2>3, <1>1 DEF ReportInv, CompletedIsWhole, NotYetCompleted
  <2> QED
    BY <2>1, <2>2, <2>3, <1>1
<1> QED
  BY <1>2, <1>3, <1>4, <1>5 DEF ReportInv

LEMMA LoadsKeep ==
    ASSUME ReportInv, NEW v \in Viewers, NEW r \in ReportIds, LoadsRow(v, r) PROVE ReportInv'
<1> DEFINE ready == report[r].status = "completed"
           near == [NoViewer EXCEPT !.report = r, !.path = "local", !.step = "read", !.done = ready]
           far == [NoViewer EXCEPT !.report = r, !.path = "s3", !.data = archive[r],
                   !.step = "open", !.done = ready]
<1>1. /\ UNCHANGED <<report, html, archive, cached, maker, crossed, edited>>
      /\ archive[r] \in HtmlStates /\ cached \in [ReportIds -> HtmlStates] /\ ready \in BOOLEAN
  BY DEF LoadsRow, makerVars, ReportInv, ReportTypes
<1>2. CASE report[r].path = "local" /\ viewer' = [viewer EXCEPT ![v] = near]
  <2>1. /\ near \in ViewerRows /\ near.step = "read" /\ near.report = r /\ near.path = "local"
        /\ near.data = "none" /\ near.done = ready
    BY <1>1 DEF NoViewer, ViewerRows, Files, Paths
  <2>2. ~Current("none")
    BY DEF Current
  <2> HIDE DEF near
  <2> QED
    BY <1>1, <1>2, <2>1, <2>2, ViewerMoves
<1>3. CASE viewer' = [viewer EXCEPT ![v] = far]
  <2>1. /\ far \in ViewerRows /\ far.step = "open" /\ far.report = r /\ far.path = "s3"
        /\ far.data = archive[r]
    BY <1>1 DEF NoViewer, ViewerRows, Files, Paths
  <2>2. r \notin crossed /\ Current(archive[r]) => archive[r] = "whole"
    BY DEF ReportInv, ObjectsAreWhole, Current
  <2> HIDE DEF far
  <2> QED
    BY <1>1, <1>3, <2>1, <2>2, ViewerMoves
<1> QED
  BY <1>2, <1>3 DEF LoadsRow

LEMMA CopyKeeps ==
    ASSUME ReportInv, NEW v \in Viewers, OpensCopy(v) \/ WritesPart(v) \/ ClosesCopy(v)
    PROVE  ReportInv'
<1> DEFINE r == viewer[v].report
<1>1. /\ UNCHANGED <<report, html, archive, maker, crossed, edited>>
      /\ viewer[v].step \in {"open", "write"} /\ r \in ReportIds /\ viewer[v] \in ViewerRows
      /\ viewer[v].path \in {"local", "s3"} /\ viewer[v].data \in HtmlStates
  BY DEF OpensCopy, WritesPart, ClosesCopy, makerVars, ReportInv, ReportTypes
<1>2. PICK step \in {"write", "read"} : viewer' = [viewer EXCEPT ![v] = [viewer[v] EXCEPT !.step = step]]
  <2>1. CASE WritesPart(v)
    <3>1. viewer[v] = [viewer[v] EXCEPT !.step = "write"]
      BY <2>1, <1>1 DEF WritesPart, ViewerRows
    <3>2. viewer = [viewer EXCEPT ![v] = viewer[v]]
      BY DEF ReportInv, ReportTypes
    <3> QED
      BY <2>1, <3>1, <3>2 DEF WritesPart
  <2>2. CASE OpensCopy(v) \/ ClosesCopy(v)
    BY <2>2 DEF OpensCopy, ClosesCopy, Views
  <2> QED
    BY <2>1, <2>2
<1> DEFINE e == [viewer[v] EXCEPT !.step = step]
<1>3. /\ e \in ViewerRows /\ e.report = r /\ e.done = viewer[v].done /\ e.path = viewer[v].path
      /\ e.overtaken = viewer[v].overtaken /\ e.data = viewer[v].data
  BY <1>1 DEF ViewerRows
<1>4. r \notin crossed /\ Current(viewer[v].data) => archive[r] = "whole"
  BY <1>1 DEF ReportInv, ObjectsAreWhole
<1>5. PICK body \in HtmlStates : cached' = [cached EXCEPT ![r] = body]
                              /\ (Current(body) => Current(viewer[v].data))
  <2>1. CASE OpensCopy(v)
    BY <2>1 DEF OpensCopy, HtmlStates, Current
  <2>2. CASE WritesPart(v)
    BY <2>2 DEF WritesPart, HtmlStates
  <2>3. CASE ClosesCopy(v)
    BY <2>3 DEF ClosesCopy, ReportInv, ReportTypes
  <2> QED
    BY <2>1, <2>2, <2>3
<1>6. /\ cached' \in [ReportIds -> HtmlStates] /\ cached'[r] = body
      /\ \A q \in ReportIds \ {r} : cached'[q] = cached[q]
  BY <1>1, <1>5 DEF ReportInv, ReportTypes
<1>7. viewer' = [viewer EXCEPT ![v] = e]
  BY <1>2
<1>8. \A q \in ReportIds \ crossed :
        /\ Current(cached'[q]) => Current(cached[q]) \/ archive[q] = "whole"
        /\ e.report = q /\ Current(e.data) => archive[q] = "whole"
  BY <1>3, <1>4, <1>5, <1>6
<1> HIDE DEF r, e
<1> QED
  BY <1>1, <1>3, <1>6, <1>7, <1>8, ViewerMoves DEF r

LEMMA LeavesKeep == ASSUME ReportInv, NEW v \in Viewers, Leaves(v) PROVE ReportInv'
<1>1. /\ UNCHANGED <<report, html, archive, cached, maker, crossed, edited>>
      /\ viewer' = [viewer EXCEPT ![v] = NoViewer] /\ cached \in [ReportIds -> HtmlStates]
  BY DEF Leaves, makerVars, ReportInv, ReportTypes
<1>2. /\ NoViewer \in ViewerRows /\ NoViewer.step = "off" /\ NoViewer.done = FALSE
      /\ ~Current(NoViewer.data)
  BY DEF NoViewer, ViewerRows, Files, Paths, Current
<1> QED
  BY <1>1, <1>2, ViewerMoves

LEMMA ReportsKept == ReportInv /\ [ReportNext]_reportVars => ReportInv'
<1> SUFFICES ASSUME ReportInv, [ReportNext]_reportVars PROVE ReportInv'
  OBVIOUS
<1>1. CASE UNCHANGED reportVars
  BY <1>1 DEF reportVars, ReportInv, ReportTypes, OneAtATime, NotYetCompleted,
              CompletedIsWhole, ObjectsAreWhole, NobodyWrites
<1>2. ASSUME NEW m \in Makers, MakerStep(m) PROVE ReportInv'
  BY <1>2, SubmitKeeps, RegenerateKeeps, DeliverKeeps, MarkKeeps, FileKeeps, UploadKeeps,
     CompleteKeeps, EndsKeep
     DEF MakerStep
<1>3. ASSUME NEW v \in Viewers, ViewerStep(v) PROVE ReportInv'
  BY <1>3, LoadsKeep, CopyKeeps, LeavesKeep DEF ViewerStep
<1> QED
  BY <1>1, <1>2, <1>3, RequestsKeep DEF ReportNext

\* For any reports, makers, viewers and retries, with an archive or without: what a viewer calls
\* ready is written to its end, whatever has failed, was retried, crashed or deleted before and
\* whoever writes the copy it reads, unless generations of this report have overlapped, a user
\* has edited its row, or a new generation has opened the local file since.
THEOREM ReadyReportsWhole == ReportSpec => []ReadyIsWhole
BY ReportsBegin, ReportsKept, ReadyWhole, PTL DEF ReportSpec

\* The same in the model that is checked.
THEOREM ReportsHoldThere == MCSpec => []ReportsHold
<1>1. MCInit => (part = "reports" => ReportInv)
  BY ReportsBegin DEF MCInit
<1>2. (part = "reports" => ReportInv) /\ [MCNext]_mcVars => (part = "reports" => ReportInv)'
  BY ReportsKept DEF MCNext, mcVars
<1>3. (part = "reports" => ReportInv) => ReportsHold
  BY ReadyWhole DEF ReportsHold
<1> QED
  BY <1>1, <1>2, <1>3, PTL DEF MCSpec

-----------------------------------------------------------------------------
(* Gates *)

LEMMA LowestLevel ==
    ASSUME NEW S \in SUBSET Nat, S # {}
    PROVE  WorstState(S) \in S /\ \A x \in S : WorstState(S) <= x
BY HasLeast DEF WorstState, Min

RunSections(has) == {Lifecycle(has), RunFigureSection(has), RunChecks(has), Context(has), FrontDoors(has)}
ReportSections(where, has) ==
    {FrontDoorGaps(where), ReportFigures(has), RunChecks(has), ReportTrends(has), Monitoring(has)}

LEMMA SectionsAreLevels ==
    ASSUME NEW has, NEW where
    PROVE  RunSections(has) \in SUBSET Nat /\ ReportSections(where, has) \in SUBSET Nat
  BY DEF RunSections, ReportSections, Lifecycle, RunFigureSection, RunChecks, Context, FrontDoors,
         FrontDoorGaps, ReportFigures, ReportTrends, Monitoring, Graded, Missing, Partial, IsReady

\* A section does not get worse by what is learnt.
LEMMA SectionsGrow ==
    ASSUME NEW has, NEW f
    PROVE  LET more == has \cup {f}
           IN /\ Lifecycle(has) <= Lifecycle(more) /\ RunFigureSection(has) <= RunFigureSection(more)
              /\ RunChecks(has) <= RunChecks(more) /\ Context(has) <= Context(more)
              /\ FrontDoors(has) <= FrontDoors(more) /\ ReportFigures(has) <= ReportFigures(more)
              /\ ReportTrends(has) <= ReportTrends(more) /\ Monitoring(has) <= Monitoring(more)
<1> DEFINE more == has \cup {f}
<1>1. Lifecycle(has) <= Lifecycle(more)
  <2>1. Lifecycle(has) \in {0, 2} /\ Lifecycle(more) \in {0, 2}
    BY DEF Lifecycle, Graded, Missing, IsReady
  <2>2. Lifecycle(has) = 2 => Lifecycle(more) = 2
    BY DEF Lifecycle, Graded, Missing, IsReady
  <2> QED
    BY <2>1, <2>2
<1>2. RunFigureSection(has) <= RunFigureSection(more)
  BY DEF RunFigureSection, Graded, Missing, Partial, IsReady
<1>3. RunChecks(has) <= RunChecks(more)
  <2>1. RunChecks(has) \in {0, 2} /\ RunChecks(more) \in {0, 2}
    BY DEF RunChecks, Graded, Missing, IsReady
  <2>2. RunChecks(has) = 2 => RunChecks(more) = 2
    BY DEF RunChecks, Graded, Missing, IsReady
  <2> QED
    BY <2>1, <2>2
<1>4. Context(has) <= Context(more)
  BY DEF Context, Graded, Missing, Partial, IsReady
<1>5. FrontDoors(has) <= FrontDoors(more)
  BY DEF FrontDoors, Graded, Missing, Partial, IsReady
<1>6. ReportFigures(has) <= ReportFigures(more)
  BY DEF ReportFigures, Graded, Missing, Partial, IsReady
<1>7. Monitoring(has) <= Monitoring(more)
  BY DEF Monitoring, Graded, Missing, Partial, IsReady
<1>8. ReportTrends(has) <= ReportTrends(more)
  <2> DEFINE drawn(h) == IF "rows" \in h THEN TrendFigures \cap h ELSE {}
  <2>1. drawn(has) \subseteq drawn(more) /\ drawn(more) \subseteq TrendFigures
    OBVIOUS
  <2>2. (drawn(has) = TrendFigures => drawn(more) = TrendFigures) /\ (drawn(has) # {} => drawn(more) # {})
    BY <2>1
  <2>3. /\ ReportTrends(has) = Graded(drawn(has) = TrendFigures, drawn(has) # {})
        /\ ReportTrends(more) = Graded(drawn(more) = TrendFigures, drawn(more) # {})
    BY DEF ReportTrends
  <2> HIDE DEF drawn
  <2> QED
    BY <2>2, <2>3 DEF Graded, Missing, Partial, IsReady
<1> QED
  BY <1>1, <1>2, <1>3, <1>4, <1>5, <1>6, <1>7, <1>8

\* A gate is as good as its worst section: it gets no worse either.
LEMMA GatesGrow ==
    ASSUME NEW has, NEW where, NEW f
    PROVE  /\ RunGate(has \cup {f}) >= RunGate(has)
           /\ ReportGate(where, has \cup {f}) >= ReportGate(where, has)
<1> DEFINE more == has \cup {f}
<1>1. /\ RunSections(has) \in SUBSET Nat /\ RunSections(more) \in SUBSET Nat
      /\ ReportSections(where, has) \in SUBSET Nat /\ ReportSections(where, more) \in SUBSET Nat
  BY SectionsAreLevels
<1>2. RunSections(has) # {} /\ ReportSections(where, has) # {}
  BY DEF RunSections, ReportSections
<1>3. RunSections(more) # {} /\ ReportSections(where, more) # {}
  BY DEF RunSections, ReportSections
<1>4. \A x \in RunSections(more) : \E y \in RunSections(has) : y <= x
  BY SectionsGrow DEF RunSections
<1>5. \A x \in ReportSections(where, more) : \E y \in ReportSections(where, has) : y <= x
  <2>1. FrontDoorGaps(where) \in ReportSections(where, has) /\ FrontDoorGaps(where) <= FrontDoorGaps(where)
    BY DEF ReportSections, FrontDoorGaps, Graded, Missing, Partial, IsReady
  <2> QED
    BY <2>1, SectionsGrow DEF ReportSections
<1>6. /\ RunGate(has) = WorstState(RunSections(has)) /\ RunGate(more) = WorstState(RunSections(more))
      /\ ReportGate(where, has) = WorstState(ReportSections(where, has))
      /\ ReportGate(where, more) = WorstState(ReportSections(where, more))
  BY DEF RunGate, ReportGate, RunSections, ReportSections
<1> HIDE DEF more
<1>7. WorstState(RunSections(more)) >= WorstState(RunSections(has))
  <2>1. PICK y \in RunSections(has) : y <= WorstState(RunSections(more))
    BY <1>1, <1>3, <1>4, LowestLevel
  <2>2. WorstState(RunSections(has)) <= y /\ WorstState(RunSections(has)) \in Nat
    BY <1>1, <1>2, LowestLevel
  <2>3. WorstState(RunSections(more)) \in Nat
    BY <1>1, <1>3, LowestLevel
  <2> QED
    BY <1>1, <2>1, <2>2, <2>3
<1>8. WorstState(ReportSections(where, more)) >= WorstState(ReportSections(where, has))
  <2>1. PICK y \in ReportSections(where, has) : y <= WorstState(ReportSections(where, more))
    BY <1>1, <1>3, <1>5, LowestLevel
  <2>2. WorstState(ReportSections(where, has)) <= y /\ WorstState(ReportSections(where, has)) \in Nat
    BY <1>1, <1>2, LowestLevel
  <2>3. WorstState(ReportSections(where, more)) \in Nat
    BY <1>1, <1>3, LowestLevel
  <2> QED
    BY <1>1, <2>1, <2>2, <2>3
<1> QED
  BY <1>6, <1>7, <1>8 DEF more

\* An open gate has all its sections open.
LEMMA OpenGates ==
    ASSUME NEW has, NEW where
    PROVE  /\ RunGate(has) = IsReady => Lifecycle(has) = IsReady
           /\ ReportGate(where, has) = IsReady =>
                 where = "whole" /\ ReportFigures(has) = IsReady /\ RunChecks(has) = IsReady
<1>1. RunSections(has) \in SUBSET Nat /\ ReportSections(where, has) \in SUBSET Nat
  BY SectionsAreLevels
<1>2. /\ Lifecycle(has) \in RunSections(has) /\ FrontDoorGaps(where) \in ReportSections(where, has)
      /\ ReportFigures(has) \in ReportSections(where, has) /\ RunChecks(has) \in ReportSections(where, has)
  BY DEF RunSections, ReportSections
<1>3. /\ RunGate(has) = WorstState(RunSections(has))
      /\ ReportGate(where, has) = WorstState(ReportSections(where, has))
  BY DEF RunGate, ReportGate, RunSections, ReportSections
<1>4. /\ RunGate(has) <= Lifecycle(has) /\ ReportGate(where, has) <= FrontDoorGaps(where)
      /\ ReportGate(where, has) <= ReportFigures(has) /\ ReportGate(where, has) <= RunChecks(has)
  BY <1>1, <1>2, <1>3, LowestLevel
<1>5. /\ Lifecycle(has) \in {0, 2} /\ RunChecks(has) \in {0, 2} /\ ReportFigures(has) \in {0, 1, 2}
      /\ FrontDoorGaps(where) \in {0, 2} /\ (FrontDoorGaps(where) = 2 => where = "whole")
  BY DEF Lifecycle, RunChecks, ReportFigures, FrontDoorGaps, Graded, Missing, Partial, IsReady
<1> QED
  BY <1>4, <1>5 DEF IsReady

LEMMA ReadySections ==
    ASSUME NEW has
    PROVE  /\ Lifecycle(has) = IsReady => "over" \in has
           /\ RunChecks(has) = IsReady => "check rates" \in has
           /\ ReportFigures(has) = IsReady => Fields \subseteq has
<1>1. ASSUME "over" \notin has PROVE Lifecycle(has) # IsReady
  <2>1. ~({"over", "started", "ended at"} \subseteq has)
    BY <1>1
  <2>2. Lifecycle(has) = Missing
    BY <2>1 DEF Lifecycle, Graded
  <2> QED
    BY <2>2 DEF Missing, IsReady
<1>2. ASSUME "check rates" \notin has PROVE RunChecks(has) # IsReady
  <2>1. RunChecks(has) = Missing
    BY <1>2 DEF RunChecks, Graded
  <2> QED
    BY <2>1 DEF Missing, IsReady
<1>3. ASSUME ~(Fields \subseteq has) PROVE ReportFigures(has) # IsReady
  BY <1>3 DEF ReportFigures, Graded, Missing, Partial, IsReady
<1> QED
  BY <1>1, <1>2, <1>3

GateInv ==
    /\ facts \subseteq Facts /\ reported.of \subseteq facts
    /\ reported \in [at : {"none", "whole", "stale"}, of : SUBSET Facts, made : Nat]
    /\ reported.at = "whole" => "over" \in reported.of

LEMMA GatesBegin == GateInit => GateInv
BY DEF GateInit, GateInv, Unreported

LEMMA GatesKept == GateInv /\ [GateNext]_gateVars => GateInv'
<1> SUFFICES ASSUME GateInv, [GateNext]_gateVars PROVE GateInv'
  OBVIOUS
<1>1. ASSUME NEW news \in SUBSET Facts, Learn(news) PROVE GateInv'
  BY <1>1 DEF Learn, GateInv
<1>2. CASE GatedStarts \/ RowsArrive \/ ChecksArrive \/ GatedEnds \/ MonitorsAreBound
  <2>1. \E news \in SUBSET Facts : Learn(news)
    BY <1>2 DEF GatedStarts, RowsArrive, ChecksArrive, GatedEnds, MonitorsAreBound, Facts, Monitors, Fields
  <2> QED
    BY <1>1, <2>1
<1>3. CASE ReportIsMade
  BY <1>3 DEF ReportIsMade, GateInv, IsActive
<1>4. CASE ReportAges
  BY <1>4 DEF ReportAges, GateInv
<1>5. CASE UNCHANGED gateVars
  BY <1>5 DEF gateVars, GateInv
<1> QED
  BY <1>2, <1>3, <1>4, <1>5 DEF GateNext

LEMMA GatesSound == GateInv => GatesHold
<1> SUFFICES ASSUME GateInv PROVE GatesHold
  OBVIOUS
<1>1. RunGate(facts) = IsReady => "over" \in facts
  BY OpenGates, ReadySections
<1>2. ReportGate(reported.at, reported.of) = IsReady =>
        "over" \in facts /\ RunFigureSection(facts) = IsReady /\ RunChecks(facts) = IsReady
  <2> SUFFICES ASSUME ReportGate(reported.at, reported.of) = IsReady
               PROVE  "over" \in facts /\ RunFigureSection(facts) = IsReady /\ RunChecks(facts) = IsReady
    OBVIOUS
  <2>1. /\ reported.at = "whole" /\ ReportFigures(reported.of) = IsReady
        /\ RunChecks(reported.of) = IsReady
    BY OpenGates
  <2>2. Fields \subseteq reported.of /\ "check rates" \in reported.of
    BY <2>1, ReadySections
  <2> QED
    BY <2>1, <2>2 DEF GateInv, RunFigureSection, RunChecks, Graded
<1> QED
  BY <1>1, <1>2, GatesGrow DEF GatesHold

-----------------------------------------------------------------------------
(* Verdicts *)

Measured == [rate : Nat, time : Nat, tail : Nat, errors : Nat]

LEMMA FiguresMeasured == FigureSets \subseteq Measured /\ OtherFigures \subseteq Measured
BY JudgementsAssumption DEF Measured

LEMMA MeasuredKnown == \A f \in Measured : f # Unknown
BY DEF Measured, Unknown

LEMMA WorstRank ==
    ASSUME NEW S \in SUBSET {0, 1, 2}, S # {}
    PROVE  Worst(S) \in S /\ \A k \in S : k <= Worst(S)
<1>1. \E k \in S : \A other \in S : other <= k
  <2>1. CASE 2 \in S
    BY <2>1
  <2>2. CASE 2 \notin S /\ 1 \in S
    BY <2>2
  <2>3. CASE 2 \notin S /\ 1 \notin S
    <3>1. S = {0}
      BY <2>3
    <3> QED
      BY <3>1
  <2> QED
    BY <2>1, <2>2, <2>3
<1> QED
  BY <1>1 DEF Worst

LEMMA RankCases ==
    ASSUME NEW fails \in BOOLEAN, NEW warns \in BOOLEAN
    PROVE  Rank(fails, warns) \in {0, 1, 2}
  BY DEF Rank, Fail, Warn, Pass

Ranks(status, f, b) == {OfStatus(status), OfErrors(f), OfLimit(f)} \cup AgainstBaseline(f, b)
\* The three ranks against the baseline, by name.
RateRank(f, b) == Rank(Fell(f, b, "rate", 20), Fell(f, b, "rate", 10))
TimeRank(f, b) == Rank(Rose(f, b, "time", 20), Rose(f, b, "time", 10))
TailRank(f, b) == Rank(Rose(f, b, "tail", 30), Rose(f, b, "tail", 15))

LEMMA RanksNamed ==
    ASSUME NEW status, NEW f, NEW b
    PROVE  /\ Ranks(status, f, b) = {OfStatus(status), OfErrors(f), OfLimit(f), RateRank(f, b),
                                     TimeRank(f, b), TailRank(f, b)}
           /\ Ranks(status, f, b) \in SUBSET {0, 1, 2}
           /\ Verdict(status, f, b) = Worst(Ranks(status, f, b))
<1>1. Ranks(status, f, b) = {OfStatus(status), OfErrors(f), OfLimit(f), RateRank(f, b),
                             TimeRank(f, b), TailRank(f, b)}
  BY DEF Ranks, AgainstBaseline, RateRank, TimeRank, TailRank
<1>2. /\ OfStatus(status) \in {0, 1, 2} /\ OfErrors(f) \in {0, 1, 2} /\ OfLimit(f) \in {0, 1, 2}
      /\ RateRank(f, b) \in {0, 1, 2} /\ TimeRank(f, b) \in {0, 1, 2} /\ TailRank(f, b) \in {0, 1, 2}
  BY DEF OfStatus, OfErrors, OfLimit, RateRank, TimeRank, TailRank, Rank, Fail, Warn, Pass
<1> QED
  BY <1>1, <1>2 DEF Verdict, Ranks

\* Worse figures have no better rank by any of the rules.
LEMMA WorseRanks ==
    ASSUME NEW f \in Measured, NEW g \in Measured, NEW b \in Measured \cup {Unknown}, Worse(f, g)
    PROVE  /\ OfErrors(f) >= OfErrors(g) /\ OfLimit(f) >= OfLimit(g)
           /\ RateRank(f, b) >= RateRank(g, b) /\ TimeRank(f, b) >= TimeRank(g, b)
           /\ TailRank(f, b) >= TailRank(g, b)
<1>1. /\ f.rate \in Nat /\ f.time \in Nat /\ f.tail \in Nat /\ f.errors \in Nat
      /\ g.rate \in Nat /\ g.time \in Nat /\ g.tail \in Nat /\ g.errors \in Nat
      /\ f.rate <= g.rate /\ f.time >= g.time /\ f.tail >= g.tail /\ f.errors >= g.errors
  BY DEF Measured, Worse
<1>2. b.rate \in Nat /\ b.time \in Nat /\ b.tail \in Nat
  BY DEF Measured, Unknown
<1>3. f # Unknown /\ g # Unknown
  BY MeasuredKnown
<1>4. OfErrors(f) >= OfErrors(g)
  BY <1>1 DEF OfErrors, Rank, Fail, Warn, Pass
<1>5. OfLimit(f) >= OfLimit(g)
  BY <1>1, JudgementsAssumption DEF OfLimit, Rank, Fail, Warn, Pass
<1>6. \A percent \in {10, 20} : Fell(g, b, "rate", percent) => Fell(f, b, "rate", percent)
  BY <1>1, <1>2, <1>3 DEF Fell, Comparable
<1>7. \A percent \in {10, 20} : Rose(g, b, "time", percent) => Rose(f, b, "time", percent)
  BY <1>1, <1>2, <1>3 DEF Rose, Comparable
<1>8. \A percent \in {15, 30} : Rose(g, b, "tail", percent) => Rose(f, b, "tail", percent)
  BY <1>1, <1>2, <1>3 DEF Rose, Comparable
<1>9. RateRank(f, b) >= RateRank(g, b)
  BY <1>6 DEF RateRank, Rank, Fail, Warn, Pass
<1>10. TimeRank(f, b) >= TimeRank(g, b)
  BY <1>7 DEF TimeRank, Rank, Fail, Warn, Pass
<1>11. TailRank(f, b) >= TailRank(g, b)
  BY <1>8 DEF TailRank, Rank, Fail, Warn, Pass
<1> QED
  BY <1>4, <1>5, <1>9, <1>10, <1>11

\* A run that is on or has failed does not pass; a run with worse figures is not judged better.
LEMMA VerdictsFair ==
    ASSUME NEW status, NEW g \in Measured \cup {Unknown}, NEW b \in Measured \cup {Unknown}
    PROVE  /\ status \in ActiveStati \cup {"failed"} => Verdict(status, g, b) # Pass
           /\ \A f \in Measured :
                 g # Unknown /\ Worse(f, g) => Verdict(status, f, b) >= Verdict(status, g, b)
<1>1. ASSUME status \in ActiveStati \cup {"failed"} PROVE Verdict(status, g, b) # Pass
  <2>1. OfStatus(status) \in {1, 2} /\ OfStatus(status) \in Ranks(status, g, b)
    BY <1>1 DEF OfStatus, Rank, Fail, Warn, ActiveStati, Ranks
  <2>2. Ranks(status, g, b) \in SUBSET {0, 1, 2} /\ Verdict(status, g, b) = Worst(Ranks(status, g, b))
    BY RanksNamed
  <2>3. OfStatus(status) <= Verdict(status, g, b) /\ Verdict(status, g, b) \in {0, 1, 2}
    BY <2>1, <2>2, WorstRank
  <2> QED
    BY <2>1, <2>3 DEF Pass
<1>2. ASSUME NEW f \in Measured, g # Unknown, Worse(f, g)
      PROVE  Verdict(status, f, b) >= Verdict(status, g, b)
  <2>1. g \in Measured
    BY <1>2
  <2>2. /\ OfErrors(f) >= OfErrors(g) /\ OfLimit(f) >= OfLimit(g)
        /\ RateRank(f, b) >= RateRank(g, b) /\ TimeRank(f, b) >= TimeRank(g, b)
        /\ TailRank(f, b) >= TailRank(g, b)
    BY <1>2, <2>1, WorseRanks
  <2> DEFINE F == Ranks(status, f, b)
             G == Ranks(status, g, b)
  <2>3. F \in SUBSET {0, 1, 2} /\ G \in SUBSET {0, 1, 2} /\ OfStatus(status) \in G
    BY RanksNamed DEF Ranks
  <2>4. \A x \in G : \E y \in F : x <= y
    <3>1. OfStatus(status) <= OfStatus(status)
      BY DEF OfStatus, Rank, Fail, Warn, Pass
    <3>2. /\ F = {OfStatus(status), OfErrors(f), OfLimit(f), RateRank(f, b), TimeRank(f, b), TailRank(f, b)}
          /\ G = {OfStatus(status), OfErrors(g), OfLimit(g), RateRank(g, b), TimeRank(g, b), TailRank(g, b)}
      BY RanksNamed
    <3> HIDE DEF F, G
    <3>3. \A x \in G, y \in F : x \in Int /\ y \in Int
      BY <2>3 DEF F, G
    <3> QED
      BY <2>2, <3>1, <3>2, <3>3
  <2>5. Verdict(status, f, b) = Worst(F) /\ Verdict(status, g, b) = Worst(G)
    BY RanksNamed
  <2> HIDE DEF F, G
  <2>6. Worst(G) \in G
    BY <2>3, WorstRank
  <2>7. PICK y \in F : Worst(G) <= y
    BY <2>4, <2>6
  <2>8. y <= Worst(F) /\ Worst(F) \in F
    BY <2>3, <2>7, WorstRank
  <2>9. Worst(G) \in {0, 1, 2} /\ y \in {0, 1, 2} /\ Worst(F) \in {0, 1, 2}
    BY <2>3, <2>6, <2>8
  <2> QED
    BY <2>5, <2>7, <2>8, <2>9
<1> QED
  BY <1>1, <1>2

-----------------------------------------------------------------------------
(* Baselines and the analyst *)

JudgedRows == [status : {"preparing", "running", "ended", "failed"},
               figures : FigureSets \cup {Unknown}, over : BOOLEAN]
Sights == [status : {"preparing", "running", "ended", "failed"},
           figures : FigureSets \cup {Unknown}, base : {<<>>} \cup {<<r>> : r \in JudgedRuns}]
JudgementTypes ==
    /\ judged \in [JudgedRuns -> JudgedRows]
    /\ baseline \in [Scopes -> {<<>>} \cup {<<r>> : r \in JudgedRuns}]
    /\ pending \subseteq [run : JudgedRuns, scope : Scopes, sees : BOOLEAN]
    /\ analyst.at \in {"idle", "judged", "read", "answered"}
    /\ analyst.at # "idle" =>
          analyst \in [at : {"judged", "read", "answered"}, run : JudgedRuns, first : Sights,
                       later : Sights, found : SUBSET Sources]
    /\ analyst.at = "idle" => analyst = Asleep
\* Baselines, and what users are about to make one, are runs of the scope that have ended.
BaselinesEnded ==
    /\ \A p \in pending : HasEnded(p.run) /\ p.scope \in ScopesOf(p.run)
    /\ \A s \in Scopes, r \in JudgedRuns : baseline[s] = <<r>> => HasEnded(r) /\ s \in ScopesOf(r)
\* A scope keeps a baseline; the one that the analyst names is what it has compared with, or the
\* one of the moment at which it ended the run itself.
AnalystSees ==
    analyst.at # "idle" =>
        /\ analyst.first.base # <<>> => baseline[OwnScope(analyst.run)] # <<>>
        /\ analyst.at \in {"judged", "read"} \/ ~Committed => analyst.later.base = analyst.first.base
        /\ analyst.first.base # <<>> => analyst.later.base # <<>>
JudgementInv == JudgementTypes /\ BaselinesEnded /\ AnalystSees

LEMMA OwnScopeIsScope == \A r \in JudgedRuns : OwnScope(r) \in Scopes
BY DEF OwnScope, Scopes

LEMMA ScopesKnown == \A r \in JudgedRuns : ScopesOf(r) \subseteq Scopes
BY DEF ScopesOf, Scopes

LEMMA JudgementsBegin == JudgementInit => JudgementInv
<1> SUFFICES ASSUME JudgementInit PROVE JudgementInv
  OBVIOUS
<1>1. judged \in [JudgedRuns -> JudgedRows]
  BY DEF JudgementInit, JudgedRows
<1>2. analyst.at = "idle" /\ analyst = Asleep
  BY DEF JudgementInit, Asleep
<1>3. \A r : <<r>> # <<>>
  OBVIOUS
<1> QED
  BY <1>1, <1>2, <1>3
     DEF JudgementInit, JudgementInv, JudgementTypes, BaselinesEnded, AnalystSees

LEMMA EndedRow ==
    ASSUME JudgementTypes, NEW r \in JudgedRuns, NEW e \in Endings, ~HasEnded(r), judged' = EndedAs(r, e)
    PROVE  /\ judged' \in [JudgedRuns -> JudgedRows] /\ judged'[r].status = e.status
           /\ judged'[r].figures = e.figures
           /\ \A q \in JudgedRuns : HasEnded(q) => HasEnded(q)'
<1> DEFINE entry == [judged[r] EXCEPT !.status = e.status, !.figures = e.figures, !.over = TRUE]
<1>1. /\ judged[r] \in JudgedRows /\ e.status \in {"ended", "failed"}
      /\ e.figures \in FigureSets \cup {Unknown}
  BY DEF JudgementTypes, Endings
<1>2. entry \in JudgedRows /\ entry.status = e.status /\ entry.figures = e.figures
  BY <1>1 DEF JudgedRows
<1>3. judged' = [judged EXCEPT ![r] = entry]
  BY DEF EndedAs, JudgementTypes, JudgedRows
<1> HIDE DEF entry
<1> QED
  BY <1>1, <1>2, <1>3 DEF JudgementTypes, HasEnded, ActiveStati

LEMMA RunsKeep ==
    ASSUME JudgementInv, judged' \in [JudgedRuns -> JudgedRows],
           \A q \in JudgedRuns : HasEnded(q) => HasEnded(q)', UNCHANGED <<baseline, pending, analyst>>
    PROVE  JudgementInv'
<1>1. JudgementTypes'
  BY DEF JudgementInv, JudgementTypes
<1>2. BaselinesEnded'
  BY DEF JudgementInv, JudgementTypes, BaselinesEnded
<1>3. AnalystSees'
  BY DEF JudgementInv, AnalystSees, Committed
<1> QED
  BY <1>1, <1>2, <1>3 DEF JudgementInv

LEMMA RunsStep ==
    ASSUME JudgementInv, NEW r \in JudgedRuns, JudgedStarts(r) \/ LoadEnds(r) \/ JudgedEnds(r)
    PROVE  JudgementInv'
<1>1. judged \in [JudgedRuns -> JudgedRows]
  BY DEF JudgementInv, JudgementTypes
<1>2. CASE JudgedStarts(r)
  <2>1. [judged[r] EXCEPT !.status = "running"] \in JudgedRows
    BY <1>1 DEF JudgedRows
  <2>2. judged' = [judged EXCEPT ![r] = [judged[r] EXCEPT !.status = "running"]]
    BY <1>2 DEF JudgedStarts
  <2>3. judged' \in [JudgedRuns -> JudgedRows] /\ \A q \in JudgedRuns : q # r => judged'[q] = judged[q]
    BY <1>1, <2>1, <2>2
  <2>4. ~HasEnded(r)
    BY <1>2 DEF JudgedStarts, HasEnded, ActiveStati
  <2>5. UNCHANGED <<baseline, pending, analyst>>
    BY <1>2 DEF JudgedStarts
  <2>6. \A q \in JudgedRuns : HasEnded(q) => HasEnded(q)'
    BY <2>3, <2>4 DEF HasEnded
  <2> QED
    BY <2>3, <2>5, <2>6, RunsKeep
<1>3. CASE LoadEnds(r)
  <2>1. /\ [judged[r] EXCEPT !.over = TRUE] \in JudgedRows
        /\ [judged[r] EXCEPT !.over = TRUE].status = judged[r].status
    BY <1>1 DEF JudgedRows
  <2>2. judged' = [judged EXCEPT ![r] = [judged[r] EXCEPT !.over = TRUE]]
    BY <1>3 DEF LoadEnds
  <2>3. judged' \in [JudgedRuns -> JudgedRows] /\ \A q \in JudgedRuns : judged'[q].status = judged[q].status
    BY <1>1, <2>1, <2>2
  <2>4. UNCHANGED <<baseline, pending, analyst>>
    BY <1>3 DEF LoadEnds
  <2>5. \A q \in JudgedRuns : HasEnded(q) => HasEnded(q)'
    BY <2>3 DEF HasEnded
  <2> QED
    BY <2>3, <2>4, <2>5, RunsKeep
<1>4. CASE JudgedEnds(r)
  <2>1. PICK e \in Endings : judged' = EndedAs(r, e)
    BY <1>4 DEF JudgedEnds
  <2>2. ~HasEnded(r) /\ UNCHANGED <<baseline, pending, analyst>>
    BY <1>4 DEF JudgedEnds
  <2> QED
    BY <2>1, <2>2, EndedRow, RunsKeep DEF JudgementInv
<1> QED
  BY <1>2, <1>3, <1>4

LEMMA SetterLooksKeeps ==
    ASSUME JudgementInv, NEW r \in JudgedRuns, NEW s \in Scopes, SetterLooks(r, s)
    PROVE  JudgementInv'
<1> DEFINE p == [run |-> r, scope |-> s, sees |-> baseline[s] # <<>>]
<1>1. /\ p \in [run : JudgedRuns, scope : Scopes, sees : BOOLEAN] /\ p.run = r /\ p.scope = s
  OBVIOUS
<1>2. pending' = pending \cup {p} /\ UNCHANGED <<judged, baseline, analyst>>
  BY DEF SetterLooks
<1>3. HasEnded(r) /\ s \in ScopesOf(r)
  BY DEF SetterLooks
<1> HIDE DEF p
<1>4. JudgementTypes'
  BY <1>1, <1>2 DEF JudgementInv, JudgementTypes
<1>5. BaselinesEnded' /\ AnalystSees'
  BY <1>1, <1>2, <1>3 DEF JudgementInv, BaselinesEnded, AnalystSees, HasEnded, Committed
<1> QED
  BY <1>4, <1>5 DEF JudgementInv

LEMMA SetterWritesKeeps ==
    ASSUME JudgementInv, NEW p \in pending, SetterWrites(p)
    PROVE  JudgementInv'
<1>1. /\ p.run \in JudgedRuns /\ p.scope \in Scopes
      /\ HasEnded(p.run) /\ p.scope \in ScopesOf(p.run)
  BY DEF JudgementInv, JudgementTypes, BaselinesEnded
<1>2. Written(p) \in {baseline[p.scope], <<p.run>>} /\ Written(p) # <<>>
  BY DEF Written
<1>3. /\ baseline' \in [Scopes -> {<<>>} \cup {<<r>> : r \in JudgedRuns}]
      /\ baseline'[p.scope] = Written(p)
      /\ \A s \in Scopes : s # p.scope => baseline'[s] = baseline[s]
      /\ \A s \in Scopes : baseline[s] # <<>> => baseline'[s] # <<>>
  <2>1. Written(p) \in {<<>>} \cup {<<r>> : r \in JudgedRuns}
    BY <1>1, <1>2 DEF JudgementInv, JudgementTypes
  <2> QED
    BY <1>1, <1>2, <2>1 DEF SetterWrites, JudgementInv, JudgementTypes
<1>4. pending' \subseteq pending /\ UNCHANGED <<judged, analyst>>
  BY DEF SetterWrites
<1>5. JudgementTypes'
  BY <1>3, <1>4 DEF JudgementInv, JudgementTypes
<1>6. BaselinesEnded'
  <2>1. \A s \in Scopes, r \in JudgedRuns : baseline'[s] = <<r>> => HasEnded(r) /\ s \in ScopesOf(r)
    <3> SUFFICES ASSUME NEW s \in Scopes, NEW r \in JudgedRuns, baseline'[s] = <<r>>
                 PROVE  HasEnded(r) /\ s \in ScopesOf(r)
      OBVIOUS
    <3>1. CASE baseline[s] = <<r>>
      BY <3>1 DEF JudgementInv, BaselinesEnded
    <3>2. CASE s = p.scope /\ <<p.run>> = <<r>>
      BY <3>2, <1>1
    <3> QED
      BY <3>1, <3>2, <1>2, <1>3
  <2> QED
    BY <2>1, <1>4 DEF JudgementInv, BaselinesEnded, HasEnded
<1>7. AnalystSees'
  <2>1. analyst.at # "idle" => OwnScope(analyst.run) \in Scopes
    BY OwnScopeIsScope DEF JudgementInv, JudgementTypes
  <2> QED
    BY <2>1, <1>3, <1>4 DEF JudgementInv, AnalystSees, Committed
<1> QED
  BY <1>5, <1>6, <1>7 DEF JudgementInv

Analyses == [at : {"judged", "read", "answered"}, run : JudgedRuns, first : Sights, later : Sights,
             found : SUBSET Sources]

LEMMA AnalystAwake ==
    ASSUME JudgementInv, analyst.at # "idle"
    PROVE  /\ analyst \in Analyses /\ analyst.run \in JudgedRuns /\ analyst.first \in Sights
           /\ analyst.later \in Sights
           /\ analyst.first.base # <<>> => baseline[OwnScope(analyst.run)] # <<>>
  BY DEF JudgementInv, JudgementTypes, Analyses, AnalystSees

\* What a step of the analyst leaves to be shown, once it has a new state.
LEMMA AnalystMoves ==
    ASSUME JudgementInv, judged' \in [JudgedRuns -> JudgedRows],
           \A q \in JudgedRuns : HasEnded(q) => HasEnded(q)', UNCHANGED <<baseline, pending>>,
           analyst' \in Analyses,
           analyst'.first.base # <<>> => baseline[OwnScope(analyst'.run)] # <<>>,
           analyst'.at \in {"judged", "read"} \/ ~Committed' => analyst'.later.base = analyst'.first.base,
           analyst'.first.base # <<>> => analyst'.later.base # <<>>
    PROVE  JudgementInv'
<1>1. JudgementTypes'
  BY DEF JudgementInv, JudgementTypes, Analyses
<1>2. BaselinesEnded'
  BY DEF JudgementInv, JudgementTypes, BaselinesEnded
<1>3. AnalystSees'
  BY DEF AnalystSees
<1> QED
  BY <1>1, <1>2, <1>3 DEF JudgementInv

LEMMA JudgesKeeps == ASSUME JudgementInv, NEW r \in JudgedRuns, AnalystJudges(r) PROVE JudgementInv'
<1> DEFINE next == [at |-> "judged", run |-> r, first |-> Sight(r), later |-> Sight(r), found |-> {}]
<1>1. Sight(r) \in Sights /\ Sight(r).base = baseline[OwnScope(r)]
  BY OwnScopeIsScope DEF JudgementInv, JudgementTypes, JudgedRows, Sight, Sights, BaselineOf
<1>2. analyst' = next /\ UNCHANGED <<judged, baseline, pending>>
  BY DEF AnalystJudges
<1>3. /\ next \in Analyses /\ next.at = "judged" /\ next.run = r /\ next.first = Sight(r)
      /\ next.later = Sight(r)
  BY <1>1 DEF Analyses
<1> HIDE DEF next
<1>4. judged' \in [JudgedRuns -> JudgedRows] /\ \A q \in JudgedRuns : HasEnded(q) => HasEnded(q)'
  BY <1>2 DEF JudgementInv, JudgementTypes, HasEnded
<1> QED
  BY <1>1, <1>2, <1>3, <1>4, AnalystMoves

LEMMA ReadsTableKeeps == ASSUME JudgementInv, AnalystReadsTable PROVE JudgementInv'
<1> DEFINE r == analyst.run
           ends == analyst.first.status = "running" /\ judged[r].over
<1>1. analyst.at = "judged" /\ UNCHANGED <<baseline, pending>>
  BY DEF AnalystReadsTable
<1>2. /\ analyst \in Analyses /\ r \in JudgedRuns /\ analyst.later \in Sights
      /\ analyst.first.base # <<>> => baseline[OwnScope(r)] # <<>>
      /\ analyst.later.base = analyst.first.base
  BY <1>1, AnalystAwake DEF JudgementInv, AnalystSees
<1>3. judged' \in [JudgedRuns -> JudgedRows] /\ \A q \in JudgedRuns : HasEnded(q) => HasEnded(q)'
  <2>1. CASE ~HasEnded(r) /\ \E e \in Endings : judged' = EndedAs(r, e)
    BY <2>1, <1>2, EndedRow DEF JudgementInv
  <2>2. CASE UNCHANGED judged
    BY <2>2 DEF JudgementInv, JudgementTypes, HasEnded
  <2> QED
    BY <2>1, <2>2 DEF AnalystReadsTable
<1> DEFINE status == IF ends THEN judged'[r].status ELSE analyst.later.status
           figures == IF ends THEN judged'[r].figures ELSE analyst.later.figures
           later == [analyst.later EXCEPT !.status = status, !.figures = figures]
           next == [analyst EXCEPT !.at = "read", !.later = later]
<1>4. /\ status \in {"preparing", "running", "ended", "failed"}
      /\ figures \in FigureSets \cup {Unknown}
  BY <1>2, <1>3 DEF JudgedRows, Sights
<1>5. analyst' = next
  <2>1. analyst' = [analyst EXCEPT !.at = "read", !.later.status = status, !.later.figures = figures]
    BY DEF AnalystReadsTable
  <2> HIDE DEF status, figures
  <2> QED
    BY <2>1, <1>2 DEF Analyses, Sights
<1> HIDE DEF status, figures
<1>6. later \in Sights /\ later.base = analyst.later.base
  BY <1>2, <1>4 DEF Sights
<1> HIDE DEF later
<1>7. /\ next \in Analyses /\ next.at = "read" /\ next.run = r /\ next.first = analyst.first
      /\ next.later = later
  BY <1>2, <1>6 DEF Analyses
<1> HIDE DEF next
<1> QED
  BY <1>1, <1>2, <1>3, <1>5, <1>6, <1>7, AnalystMoves

LEMMA AnswersKeeps == ASSUME JudgementInv, AnalystAnswers PROVE JudgementInv'
<1>1. analyst.at = "read" /\ UNCHANGED <<judged, baseline, pending>>
  BY DEF AnalystAnswers
<1>2. /\ analyst \in Analyses /\ analyst.run \in JudgedRuns /\ analyst.later \in Sights
      /\ analyst.first.base # <<>> => baseline[OwnScope(analyst.run)] # <<>>
      /\ analyst.later.base = analyst.first.base
  BY <1>1, AnalystAwake DEF JudgementInv, AnalystSees
<1> DEFINE base == IF Committed THEN BaselineOf(analyst.run) ELSE analyst.later.base
           later == [analyst.later EXCEPT !.base = base]
<1>3. PICK found \in Findings :
        analyst' = [analyst EXCEPT !.at = "answered", !.found = found, !.later.base = base]
  BY DEF AnalystAnswers
<1> DEFINE next == [analyst EXCEPT !.at = "answered", !.found = found, !.later = later]
<1>4. /\ base \in {<<>>} \cup {<<q>> : q \in JudgedRuns}
      /\ Committed => base = baseline[OwnScope(analyst.run)]
      /\ ~Committed => base = analyst.first.base
  BY <1>2, OwnScopeIsScope DEF BaselineOf, JudgementInv, JudgementTypes, Sights
<1> HIDE DEF base
<1>5. later \in Sights /\ later.base = base /\ later.status = analyst.later.status
  BY <1>2, <1>4 DEF Sights
<1>6. analyst' = next
  BY <1>2, <1>3 DEF Analyses, Sights
<1> HIDE DEF later
<1>7. /\ next \in Analyses /\ next.at = "answered" /\ next.run = analyst.run
      /\ next.first = analyst.first /\ next.later = later
  <2>1. found \in SUBSET Sources
    BY JudgementsAssumption
  <2> QED
    BY <2>1, <1>2, <1>5 DEF Analyses
<1> HIDE DEF next
<1>8. Committed' = Committed
  BY <1>5, <1>6, <1>7 DEF Committed
<1>9. judged' \in [JudgedRuns -> JudgedRows] /\ \A q \in JudgedRuns : HasEnded(q) => HasEnded(q)'
  BY <1>1 DEF JudgementInv, JudgementTypes, HasEnded
<1> QED
  BY <1>1, <1>2, <1>4, <1>5, <1>6, <1>7, <1>8, <1>9, AnalystMoves

LEMMA LeavesKeeps == ASSUME JudgementInv, AnalystLeaves PROVE JudgementInv'
<1>1. analyst'.at = "idle" /\ analyst' = Asleep /\ UNCHANGED <<judged, baseline, pending>>
  BY DEF AnalystLeaves, Asleep
<1> QED
  BY <1>1 DEF JudgementInv, JudgementTypes, BaselinesEnded, AnalystSees, HasEnded

LEMMA JudgementsKept == JudgementInv /\ [JudgementNext]_judgementVars => JudgementInv'
<1> SUFFICES ASSUME JudgementInv, [JudgementNext]_judgementVars PROVE JudgementInv'
  OBVIOUS
<1>1. CASE UNCHANGED judgementVars
  BY <1>1 DEF judgementVars, JudgementInv, JudgementTypes, BaselinesEnded, AnalystSees, HasEnded, Committed
<1>2. CASE JudgementNext
  BY <1>2, RunsStep, SetterLooksKeeps, SetterWritesKeeps, JudgesKeeps, ReadsTableKeeps, AnswersKeeps,
     LeavesKeeps
     DEF JudgementNext
<1> QED
  BY <1>1, <1>2

LEMMA BaselinesSound == JudgementInv => BaselinesAreSound
<1> SUFFICES ASSUME JudgementInv, NEW s \in Scopes
             PROVE  /\ Len(baseline[s]) <= 1
                    /\ \A r \in ToSet(baseline[s]) : HasEnded(r) /\ s \in ScopesOf(r)
  BY DEF BaselinesAreSound
<1>1. CASE baseline[s] = <<>>
  BY <1>1 DEF ToSet
<1>2. CASE \E r \in JudgedRuns : baseline[s] = <<r>>
  <2>1. PICK r \in JudgedRuns : baseline[s] = <<r>>
    BY <1>2
  <2>2. Len(baseline[s]) = 1 /\ ToSet(baseline[s]) = {r}
    BY <2>1 DEF ToSet
  <2> QED
    BY <2>1, <2>2 DEF JudgementInv, BaselinesEnded
<1> QED
  BY <1>1, <1>2 DEF JudgementInv, JudgementTypes

LEMMA BaseFiguresKnown ==
    ASSUME JudgementInv, NEW sight, sight.base \in {<<>>} \cup {<<r>> : r \in JudgedRuns}
    PROVE  /\ BaseFigures(sight) \in Measured \cup {Unknown}
           /\ sight.base = <<>> => BaseFigures(sight) = Unknown
<1>1. CASE sight.base = <<>>
  BY <1>1 DEF BaseFigures
<1>2. CASE sight.base # <<>>
  <2>1. PICK r \in JudgedRuns : sight.base = <<r>>
    BY <1>2
  <2>2. BaseFigures(sight) = judged[r].figures
    BY <1>2, <2>1 DEF BaseFigures
  <2> QED
    BY <1>2, <2>2, FiguresMeasured DEF JudgementInv, JudgementTypes, JudgedRows
<1> QED
  BY <1>1, <1>2

LEMMA AllVerdictsFair == JudgementInv => VerdictsAreFair
<1> SUFFICES ASSUME JudgementInv, NEW r \in JudgedRuns
             PROVE  LET s == Sight(r)
                        rank == Verdict(s.status, s.figures, BaseFigures(s))
                    IN /\ s.status \in ActiveStati \cup {"failed"} => rank # Pass
                       /\ \A f \in OtherFigures : s.figures # Unknown /\ Worse(f, s.figures) =>
                             Verdict(s.status, f, BaseFigures(s)) >= rank
  BY DEF VerdictsAreFair
<1>1. /\ Sight(r).base \in {<<>>} \cup {<<q>> : q \in JudgedRuns}
      /\ Sight(r).figures \in Measured \cup {Unknown}
  BY OwnScopeIsScope, FiguresMeasured
     DEF JudgementInv, JudgementTypes, JudgedRows, Sight, BaselineOf
<1>2. BaseFigures(Sight(r)) \in Measured \cup {Unknown}
  BY <1>1, BaseFiguresKnown
<1> QED
  BY <1>1, <1>2, VerdictsFair, FiguresMeasured

LEMMA ScoresAreNumbers == 66 \in Int /\ 38 \in Int
OBVIOUS

\* Each cause rests on evidence of the answer; without a baseline it is capped.
LEMMA CausesHold ==
    ASSUME TopDelta => HasBaseline
    PROVE  /\ AnswerRank # Pass => Hypotheses # {}
           /\ \A h \in Hypotheses : h[3] # {} /\ h[3] \subseteq Evidence /\ (~HasBaseline => h[2] <= 62)
<1> DEFINE strained == IF "strained pods" \in Evidence THEN {<<"load generator", 66, {"strained pods"}>>} ELSE {}
           more == IF Guesses = {} /\ AnswerRank = Pass THEN {} ELSE Guesses \cup strained
           all  == IF more = {} /\ AnswerRank # Pass THEN {<<"unclear", 38, Evidence>>} ELSE more
           Rests(h) == h[3] # {} /\ h[3] \subseteq Evidence /\ h[2] \in Int
<1>1. "verdict" \in Evidence
  BY DEF Evidence
<1>2. \A h \in Guesses : Rests(h)
  <2> DEFINE reason == <<"runtime", 74, Evidence \cap {"logs", "verdict"}>>
             known == Evidence \cap {"baseline", "rows", "trends", "dashboards", "queries"}
             score == IF HasBaseline /\ AnswerRank = Fail THEN 82 ELSE 68
             regression == <<"regression", score, Or(known, Evidence)>>
  <2>1. Rests(reason)
    BY <1>1
  <2>2. Rests(regression)
    <3>1. Or(known, Evidence) # {} /\ Or(known, Evidence) \subseteq Evidence /\ score \in Int
      BY <1>1 DEF Or
    <3> QED
      BY <3>1
  <2>3. Guesses \subseteq {reason, regression}
    BY DEF Guesses
  <2> QED
    BY <2>1, <2>2, <2>3
<1>3. \A h \in strained : Rests(h)
  <2> SUFFICES ASSUME NEW h \in strained PROVE Rests(h)
    OBVIOUS
  <2>1. "strained pods" \in Evidence /\ h = <<"load generator", 66, {"strained pods"}>>
    OBVIOUS
  <2>2. h[2] \in Int
    <3>1. h[2] = 66
      BY <2>1
    <3> QED
      BY <3>1, ScoresAreNumbers, Zenon
  <2>3. h[3] = {"strained pods"}
    BY <2>1
  <2>4. h[3] # {} /\ h[3] \subseteq Evidence
    BY <2>1, <2>3
  <2> QED
    BY <2>2, <2>4
<1>4. \A h \in more : Rests(h)
  BY <1>2, <1>3
<1>5. \A h \in all : Rests(h)
  <2> SUFFICES ASSUME NEW h \in all PROVE Rests(h)
    OBVIOUS
  <2>1. CASE h \in more
    BY <1>4, <2>1
  <2>2. CASE h = <<"unclear", 38, Evidence>>
    <3>1. h[2] \in Int
      <4>1. h[2] = 38
        BY <2>2
      <4> QED
        BY <4>1, ScoresAreNumbers, Zenon
    <3>2. h[3] = Evidence
      BY <2>2
    <3>3. h[3] # {} /\ h[3] \subseteq Evidence
      BY <1>1, <3>2
    <3> QED
      BY <3>1, <3>3
  <2> QED
    BY <2>1, <2>2
<1>6. AnswerRank # Pass => all # {}
  OBVIOUS
<1>7. Hypotheses = IF HasBaseline THEN all
                   ELSE {<<h[1], IF h[2] > 62 THEN 62 ELSE h[2], h[3]>> : h \in all}
  BY DEF Hypotheses
<1> HIDE DEF all
<1>8. CASE HasBaseline
  BY <1>5, <1>6, <1>7, <1>8
<1>9. CASE ~HasBaseline
  <2>1. Hypotheses = {<<h[1], IF h[2] > 62 THEN 62 ELSE h[2], h[3]>> : h \in all}
    BY <1>7, <1>9
  <2>2. AnswerRank # Pass => Hypotheses # {}
    BY <1>6, <2>1
  <2>3. ASSUME NEW h \in Hypotheses
        PROVE  h[3] # {} /\ h[3] \subseteq Evidence /\ h[2] <= 62
    <3>1. PICK g \in all : h = <<g[1], IF g[2] > 62 THEN 62 ELSE g[2], g[3]>>
      BY <2>1
    <3>2. h[3] = g[3] /\ h[2] = IF g[2] > 62 THEN 62 ELSE g[2]
      BY <3>1
    <3> QED
      BY <1>5, <3>2
  <2> QED
    BY <2>2, <2>3
<1> QED
  BY <1>8, <1>9

LEMMA AnswersSound == JudgementInv => AnswersHold
<1> SUFFICES ASSUME JudgementInv, analyst.at = "answered" PROVE AnswersHold
  BY DEF AnswersHold
<1>1. /\ analyst.first \in Sights
      /\ ~Committed => analyst.later.base = analyst.first.base
      /\ analyst.first.base # <<>> => analyst.later.base # <<>>
  BY AnalystAwake DEF JudgementInv, AnalystSees
<1>2. TopDelta => HasBaseline
  <2>1. analyst.first.base = <<>> => BaseFigures(analyst.first) = Unknown
    BY DEF BaseFigures
  <2>2. analyst.first.base = <<>> => ~TopDelta
    BY <2>1 DEF TopDelta, Deltas, Comparable
  <2> QED
    BY <1>1, <2>2 DEF HasBaseline
<1>3. Confidence = "high" => AnswerRank = Fail /\ Focus # "baseline"
  BY DEF Confidence, Focus
<1> QED
  BY <1>1, <1>2, <1>3, CausesHold DEF AnswersHold

LEMMA JudgementsSound == JudgementInv => JudgementsAreSound
BY BaselinesSound, AllVerdictsFair, AnswersSound DEF JudgementsAreSound

\* For any runs, figures, limits and findings: baselines are runs that have ended, no run with
\* worse figures is judged better, and the analyst's answer holds together, whatever ends, is
\* set or is committed between its reads.
THEOREM RunsJudgedWell == JudgementSpec => []JudgementsAreSound
BY JudgementsBegin, JudgementsKept, JudgementsSound, PTL DEF JudgementSpec

\* What is learnt of a run never makes a gate worse, and no gate is open without what it asks for.
THEOREM GatesAreSound == GateSpec => []GatesHold
BY GatesBegin, GatesKept, GatesSound, PTL DEF GateSpec

\* Both in the model that is checked.
THEOREM JudgementsHoldThere == MCSpec => []JudgementsHold
<1> DEFINE Inv == (part = "judgements" => JudgementInv) /\ (part = "gates" => GateInv)
<1>1. MCInit => Inv
  BY JudgementsBegin, GatesBegin DEF MCInit
<1>2. Inv /\ [MCNext]_mcVars => Inv'
  BY JudgementsKept, GatesKept DEF MCNext, mcVars
<1>3. Inv => JudgementsHold
  BY JudgementsSound, GatesSound DEF JudgementsHold
<1> QED
  BY <1>1, <1>2, <1>3, PTL DEF MCSpec
-----------------------------------------------------------------------------
(* Task assets *)

FileNames == {FileOf(a) : a \in Assets} \cup {Put(d) : d \in Sessions}
ShardNames == {ShardName(f) : f \in FileNames} \cup {OwnShardName(a) : a \in Assets}
WholeRows == [file : FileNames, shard : ShardNames, task : Tasks]
RowsBegun == [file : FileNames, shard : {NoObject}, task : Tasks]
Making == {"upload", "finalize", "clone"}
AssetRequests == [kind : Making \cup {"none", "delete"},
                  step : {"new", "idle", "shards", "insert", "copy", "unlink", "drop"},
                  row : WholeRows \cup RowsBegun \cup {NoRow}]
AssetTypes ==
    /\ store \in {"s3", "reference", "copy"} /\ tasks \subseteq Tasks
    /\ asset \in [Assets -> WholeRows \cup {NoRow}]
    /\ request \in [Assets -> AssetRequests]
    /\ mishap \subseteq {"race", "named", "torn", "left", "kept"}
    /\ objects \subseteq FileNames \cup ShardNames
\* What a request is at, and the row that it is about.
RequestFits(a) ==
    LET q == request[a]
    IN /\ q.kind = "none" => q \in {New, Quiet}
       /\ q.kind \in {"upload", "finalize"} => q.step \in {"shards", "insert"}
       /\ q.kind = "clone" => q.step \in {"copy", "insert"}
       /\ q.kind = "delete" => q.step \in {"unlink", "drop"} /\ q.row = asset[a] /\ asset[a] # NoRow
       /\ q = New \/ q.kind \in Making => asset[a] = NoRow
       /\ q.step = "shards" => q.row \in RowsBegun
       /\ q.step \in {"insert", "copy"} => q.row \in WholeRows
       /\ q.kind = "upload" => q.row.file = FileOf(a)
       /\ q.kind = "finalize" => OnS3
       /\ q.step = "copy" => ~OnS3
\* The row of this number: the one that is there, or the one that its request will insert.
RowAt(a) == IF request[a].kind \in Making THEN request[a].row ELSE asset[a]
\* The name that a request makes up for its file is its own until the row is there.
FilesAreNew ==
    \A a, b \in Assets :
        RowAt(b).file = FileOf(a) =>
            /\ request[a] # New /\ request[a].step # "copy"
            /\ request[a].kind = "upload" => a = b
\* Rows with one file have one shard, and different shards unless names have collided.
OneShard ==
    /\ OnS3 => \A a \in Assets :
                  RowAt(a).shard # NoObject => RowAt(a).shard = ShardName(RowAt(a).file)
    /\ \A a, b \in Assets :
          RowAt(a).file = RowAt(b).file /\ NoObject \notin {RowAt(a).shard, RowAt(b).shard}
              => RowAt(a).shard = RowAt(b).shard
OneFile ==
    "named" \notin mishap =>
        \A a, b \in Assets :
            RowAt(a).shard = RowAt(b).shard /\ RowAt(a).shard # NoObject
                => RowAt(a).file = RowAt(b).file
\* A deletion has the file to itself, or leaves it to rows that nobody deletes.
DeletesAlone ==
    "race" \notin mishap =>
        \A a, b \in Assets :
            request[a].kind = "delete" /\ a # b /\ RowAt(b).file = RowAt(a).file
                => request[a].step = "drop" /\ request[b].kind = "none"
\* What is copied is the file of a row that stays.
ClonesHaveSource ==
    "race" \notin mishap =>
        \A a \in Assets : request[a].step = "copy" =>
            \E b \in Assets : /\ asset[b] # NoRow /\ request[b].kind = "none"
                              /\ asset[b].file = request[a].row.file
                              /\ asset[b].shard = request[a].row.shard
\* Only an S3 store has files that clients have put there.
PutsOnS3 == ~OnS3 => \A d \in Sessions : Put(d) \notin objects
\* The objects of a row are in place, from its making to its deletion.
Made(a) == request[a].step \notin {"copy", "drop"}
FilesThere ==
    mishap \cap {"race", "torn"} = {} =>
        \A a \in Assets : Made(a) => RowAt(a).file \in objects \cup {NoObject}
ShardsThere ==
    mishap \cap {"race", "torn", "named"} = {} =>
        \A a \in Assets : Made(a) => RowAt(a).shard \in objects \cup {NoObject}
\* An object has a row that is not about to go without it.
ObjectsHeld ==
    mishap \cap {"race", "left", "kept"} = {} =>
        \A o \in objects :
            \/ \E d \in Sessions : o = Put(d)
            \/ \E a \in Assets : request[a].step # "drop" /\ o \in {RowAt(a).file, RowAt(a).shard}
AssetInv ==
    /\ AssetTypes /\ (\A a \in Assets : RequestFits(a))
    /\ FilesAreNew /\ OneShard /\ OneFile /\ DeletesAlone /\ ClonesHaveSource
    /\ PutsOnS3 /\ FilesThere /\ ShardsThere /\ ObjectsHeld

LEMMA NamesDiffer ==
    /\ \A a, b \in Assets : FileOf(a) = FileOf(b) => a = b
    /\ \A a \in Assets, d \in Sessions : FileOf(a) # Put(d)
    /\ \A a \in Assets : FileOf(a) \in FileNames
    /\ \A d \in Sessions : Put(d) \in FileNames
    /\ \A f \in FileNames : f \notin ShardNames /\ f # NoObject
    /\ NoObject \notin ShardNames
    /\ \A f \in FileNames : ShardName(f) \in ShardNames
    /\ \A a \in Assets : OwnShardName(a) \in ShardNames
<1>1. \A a, b \in Assets : FileOf(a) = FileOf(b) => a = b
  BY DEF FileOf
<1>2. \A a \in Assets, d \in Sessions : FileOf(a) # Put(d)
  BY DEF FileOf, Put
<1>3. \A f \in FileNames : f[1] \in {"file", "put"} /\ f # NoObject
  BY DEF FileNames, FileOf, Put, NoObject
<1>4. \A s \in ShardNames : s[1] \in {"shard", "own shard"} /\ s # NoObject
  <2>1. \A f : ShardName(f)[1] = "shard"
    BY DEF ShardName
  <2>2. \A a \in Assets : OwnShardName(a)[1] = "own shard"
    BY DEF OwnShardName
  <2>3. NoObject[1] = "none"
    BY DEF NoObject
  <2> QED
    BY <2>1, <2>2, <2>3 DEF ShardNames
<1>5. \A f \in FileNames : f \notin ShardNames
  BY <1>3, <1>4
<1>6. /\ \A a \in Assets : FileOf(a) \in FileNames /\ OwnShardName(a) \in ShardNames
      /\ \A d \in Sessions : Put(d) \in FileNames
      /\ \A f \in FileNames : ShardName(f) \in ShardNames
  BY DEF FileNames, ShardNames
<1> QED
  BY <1>1, <1>2, <1>3, <1>4, <1>5, <1>6

LEMMA RowsDiffer ==
    /\ \A r \in WholeRows : r # NoRow /\ r.file \in FileNames /\ r.shard \in ShardNames
    /\ \A r \in RowsBegun : r # NoRow /\ r.file \in FileNames /\ r.shard = NoObject
    /\ NoRow.file = NoObject /\ NoRow.shard = NoObject
  BY NamesDiffer DEF WholeRows, RowsBegun, NoRow

\* What one request does leaves the other rows and requests alone.
LEMMA OthersStay ==
    ASSUME AssetInv, NEW a \in Assets, UNCHANGED store, AssetTypes', RequestFits(a)',
           \A b \in Assets \ {a} : request'[b] = request[b] /\ asset'[b] = asset[b]
    PROVE  /\ \A b \in Assets : RequestFits(b)'
           /\ \A b \in Assets \ {a} : RowAt(b)' = RowAt(b) /\ Made(b)' = Made(b)
<1>1. ASSUME NEW b \in Assets \ {a} PROVE RequestFits(b)'
  BY <1>1 DEF AssetInv, RequestFits, OnS3
<1> QED
  BY <1>1 DEF RowAt, Made

LEMMA AssetsBegin == AssetInit => AssetInv
<1> SUFFICES ASSUME AssetInit PROVE AssetInv
  OBVIOUS
<1>1. AssetTypes /\ \A a \in Assets : RequestFits(a)
  BY DEF AssetInit, AssetTypes, RequestFits, New, Request, Making, AssetRequests
<1>2. \A a \in Assets : RowAt(a) = NoRow /\ request[a].step = "new" /\ request[a].kind = "none"
  BY DEF AssetInit, RowAt, New, Request, Making
<1> QED
  BY <1>1, <1>2, NamesDiffer, RowsDiffer
     DEF AssetInit, AssetInv, FilesAreNew, OneShard, OneFile, DeletesAlone, ClonesHaveSource,
         PutsOnS3, FilesThere, ShardsThere, ObjectsHeld

LEMMA AssetsUpload ==
    ASSUME AssetInv, UNCHANGED store, NEW a \in Assets, NEW t \in Tasks, Upload(a, t)
    PROVE  AssetInv'
<1> DEFINE entry == [file |-> FileOf(a), shard |-> NoObject, task |-> t]
<1>1. entry \in RowsBegun /\ entry.file = FileOf(a) /\ entry.shard = NoObject
  BY NamesDiffer DEF RowsBegun
<1> HIDE DEF entry
<1>2. /\ request' = [request EXCEPT ![a] = Request("upload", "shards", entry)]
      /\ request[a] = New /\ objects' = objects \cup {FileOf(a)} /\ UNCHANGED <<asset, mishap>>
      /\ UNCHANGED tasks
  BY DEF Upload, NextNew, entry
<1>3. AssetTypes'
  BY <1>1, <1>2, NamesDiffer DEF AssetInv, AssetTypes, Request, Making, AssetRequests
<1>4. request'[a] = Request("upload", "shards", entry) /\ asset'[a] = NoRow
  BY <1>2 DEF AssetInv, AssetTypes, RequestFits
<1>5. RequestFits(a)'
  BY <1>1, <1>4 DEF RequestFits, Request, Making, New
<1>6. \A b \in Assets \ {a} : request'[b] = request[b] /\ asset'[b] = asset[b]
  BY <1>2 DEF AssetInv, AssetTypes
<1>7. /\ \A b \in Assets : RequestFits(b)'
      /\ \A b \in Assets \ {a} : RowAt(b)' = RowAt(b) /\ Made(b)' = Made(b)
  BY <1>3, <1>5, <1>6, OthersStay
<1>8. /\ RowAt(a)' = entry /\ RowAt(a) = NoRow /\ Made(a)'
      /\ request'[a].kind = "upload" /\ request'[a].step = "shards" /\ request'[a] # New
  BY <1>2, <1>4 DEF RowAt, Made, Request, Making, New, AssetInv, RequestFits
<1>9. \A b \in Assets : RowAt(b).file # FileOf(a)
  BY <1>2 DEF AssetInv, FilesAreNew
<1>10. FilesAreNew'
  BY <1>1, <1>6, <1>7, <1>8, <1>9, NamesDiffer DEF AssetInv, FilesAreNew
<1>11. OneShard' /\ OneFile'
  BY <1>1, <1>2, <1>7, <1>8, <1>9 DEF AssetInv, OneShard, OneFile, OnS3
<1>12. DeletesAlone'
  BY <1>1, <1>2, <1>6, <1>7, <1>8, <1>9 DEF AssetInv, DeletesAlone
<1>13. ClonesHaveSource'
  BY <1>2, <1>4, <1>6, <1>8 DEF AssetInv, ClonesHaveSource, RequestFits
<1>14. FilesThere' /\ ShardsThere'
  BY <1>1, <1>2, <1>7, <1>8 DEF AssetInv, FilesThere, ShardsThere
<1>15. ObjectsHeld'
  BY <1>1, <1>2, <1>6, <1>7, <1>8, NamesDiffer, RowsDiffer DEF AssetInv, ObjectsHeld
<1>16. PutsOnS3'
  BY <1>2, NamesDiffer DEF AssetInv, PutsOnS3, OnS3
<1> QED
  BY <1>3, <1>7, <1>10, <1>11, <1>12, <1>13, <1>14, <1>15, <1>16 DEF AssetInv

LEMMA RequestChanges ==
    ASSUME AssetTypes, NEW a \in Assets, NEW next \in AssetRequests,
           request' = [request EXCEPT ![a] = next]
    PROVE  /\ request' \in [Assets -> AssetRequests] /\ request'[a] = next
           /\ \A b \in Assets \ {a} : request'[b] = request[b]
  BY DEF AssetTypes

LEMMA MishapCounts ==
    ASSUME AssetTypes, NEW why \in {"race", "named", "torn", "left", "kept"}, NEW holds,
           mishap' = Mishap(why, holds)
    PROVE  /\ mishap' \subseteq {"race", "named", "torn", "left", "kept"} /\ mishap \subseteq mishap'
           /\ why \notin mishap' => ~holds
           /\ \A x : x # why => (x \in mishap' <=> x \in mishap)
<1>1. CASE holds
  BY <1>1 DEF Mishap, AssetTypes
<1>2. CASE ~holds
  BY <1>2 DEF Mishap, AssetTypes
<1> QED
  BY <1>1, <1>2

\* A request ends, and its row with it.
LEMMA RowGoes ==
    ASSUME AssetInv, NEW a \in Assets, request[a].kind # "none", UNCHANGED <<store, tasks>>,
           request' = Done(a), asset' \in [Assets -> WholeRows \cup {NoRow}], asset'[a] = NoRow,
           \A b \in Assets \ {a} : asset'[b] = asset[b],
           mishap' \subseteq {"race", "named", "torn", "left", "kept"}, mishap \subseteq mishap',
           objects' \subseteq objects
    PROVE  /\ AssetTypes' /\ RowAt(a)' = NoRow /\ request'[a] = Quiet
           /\ \A b \in Assets : RequestFits(b)'
           /\ \A b \in Assets \ {a} : /\ RowAt(b)' = RowAt(b) /\ Made(b)' = Made(b)
                                      /\ request'[b] = request[b]
           /\ FilesAreNew' /\ OneShard' /\ OneFile' /\ DeletesAlone' /\ ClonesHaveSource'
           /\ PutsOnS3'
<1>1. Quiet \in AssetRequests /\ Quiet.kind = "none" /\ Quiet.step = "idle" /\ Quiet.row = NoRow
  BY DEF Quiet, Request, AssetRequests
<1>2. AssetTypes' /\ request'[a] = Quiet /\ \A b \in Assets \ {a} : request'[b] = request[b]
  BY <1>1, RequestChanges DEF AssetInv, AssetTypes, Done
<1>3. RequestFits(a)' /\ Quiet # New
  BY <1>2 DEF RequestFits, Quiet, New, Request, Making
<1>4. /\ \A b \in Assets : RequestFits(b)'
      /\ \A b \in Assets \ {a} : RowAt(b)' = RowAt(b) /\ Made(b)' = Made(b)
  BY <1>2, <1>3, OthersStay
<1>5. RowAt(a)' = NoRow
  BY <1>1, <1>2 DEF RowAt, Making
<1>6. FilesAreNew'
  BY <1>1, <1>2, <1>3, <1>4, <1>5, NamesDiffer, RowsDiffer DEF AssetInv, FilesAreNew
<1>7. OneShard' /\ OneFile'
  BY <1>4, <1>5, RowsDiffer DEF AssetInv, OneShard, OneFile, OnS3
<1>8. DeletesAlone'
  <2>1. \A b \in Assets \ {a} : request[b].kind = "delete" => RowAt(b).file # NoObject
    BY NamesDiffer, RowsDiffer DEF AssetInv, AssetTypes, RequestFits, RowAt, Making
  <2> QED
    BY <1>1, <1>2, <1>4, <1>5, <2>1, RowsDiffer DEF AssetInv, DeletesAlone
<1>9. ClonesHaveSource'
  BY <1>1, <1>2, RowsDiffer DEF AssetInv, ClonesHaveSource
<1>10. PutsOnS3'
  BY DEF AssetInv, PutsOnS3, OnS3
<1> QED
  BY <1>2, <1>4, <1>5, <1>6, <1>7, <1>8, <1>9, <1>10

\* A deletion fails: its request ends, its row stays.
LEMMA RowStays ==
    ASSUME AssetInv, NEW a \in Assets, request[a].kind = "delete",
           UNCHANGED <<store, tasks, asset>>, request' = Done(a),
           mishap' \subseteq {"race", "named", "torn", "left", "kept"}, mishap \subseteq mishap',
           objects' \subseteq objects
    PROVE  /\ AssetTypes' /\ request'[a] = Quiet /\ Quiet.step = "idle"
           /\ \A b \in Assets : RequestFits(b)' /\ RowAt(b)' = RowAt(b)
           /\ \A b \in Assets \ {a} : Made(b)' = Made(b) /\ request'[b] = request[b]
           /\ RowAt(a) = asset[a] /\ asset[a] \in WholeRows
           /\ FilesAreNew' /\ OneShard' /\ OneFile' /\ DeletesAlone' /\ ClonesHaveSource'
           /\ PutsOnS3'
<1>1. Quiet \in AssetRequests /\ Quiet.kind = "none" /\ Quiet.step = "idle" /\ Quiet.row = NoRow
  BY DEF Quiet, Request, AssetRequests
<1>2. AssetTypes' /\ request'[a] = Quiet /\ \A b \in Assets \ {a} : request'[b] = request[b]
  BY <1>1, RequestChanges DEF AssetInv, AssetTypes, Done
<1>3. /\ asset[a] \in WholeRows /\ request[a].kind \notin Making
      /\ request[a].step \in {"unlink", "drop"} /\ request[a] # New
  BY DEF AssetInv, AssetTypes, RequestFits, Making, New, Request
<1>4. RequestFits(a)' /\ Quiet # New
  BY <1>2, <1>3 DEF RequestFits, Quiet, New, Request, Making
<1>5. /\ \A b \in Assets : RequestFits(b)'
      /\ \A b \in Assets \ {a} : RowAt(b)' = RowAt(b) /\ Made(b)' = Made(b)
  BY <1>2, <1>4, OthersStay
<1>6. RowAt(a)' = RowAt(a) /\ RowAt(a) = asset[a]
  BY <1>1, <1>2, <1>3 DEF RowAt, Making
<1>7. \A b \in Assets : RowAt(b)' = RowAt(b)
  BY <1>5, <1>6
<1>8. FilesAreNew'
  BY <1>1, <1>2, <1>3, <1>4, <1>7 DEF AssetInv, FilesAreNew
<1>9. OneShard' /\ OneFile'
  BY <1>7 DEF AssetInv, OneShard, OneFile, OnS3
<1>10. DeletesAlone'
  BY <1>1, <1>2, <1>7 DEF AssetInv, DeletesAlone
<1>11. ClonesHaveSource'
  BY <1>1, <1>2, <1>3 DEF AssetInv, ClonesHaveSource
<1>12. PutsOnS3'
  BY DEF AssetInv, PutsOnS3, OnS3
<1> QED
  BY <1>1, <1>2, <1>3, <1>5, <1>6, <1>7, <1>8, <1>9, <1>10, <1>11, <1>12

\* A file of its own, whose row its request makes: nobody else has the shard of another file.
LEMMA ShardsMet ==
    ASSUME AssetInv, NEW b \in Assets, NEW name \in ShardNames, NEW base \in FileNames,
           name \in {asset[b].shard, request[b].row.shard} =>
               base \in {asset[b].file, request[b].row.file}
    PROVE  RowAt(b).shard = name => RowAt(b).file = base
<1> SUFFICES ASSUME RowAt(b).shard = name PROVE RowAt(b).file = base
  OBVIOUS
<1>1. base \in {asset[b].file, request[b].row.file}
  BY DEF RowAt
<1>2. request[b].kind \in Making => asset[b] = NoRow
  BY DEF AssetInv, RequestFits
<1>3. request[b].kind \notin Making => request[b].row \in {NoRow, asset[b]}
  BY DEF AssetInv, AssetTypes, RequestFits, New, Quiet, Request, AssetRequests
<1> QED
  BY <1>1, <1>2, <1>3, NamesDiffer, RowsDiffer DEF RowAt

LEMMA AssetsStoreShards ==
    ASSUME AssetInv, UNCHANGED store, NEW a \in Assets, StoreShards(a)
    PROVE  AssetInv'
<1> DEFINE entry == request[a].row
           base == entry.file
           name == IF ~OnS3 /\ ShardName(base) \in objects THEN OwnShardName(a) ELSE ShardName(base)
           whole == [entry EXCEPT !.shard = name]
           Met(b, gone) == gone \cap {asset[b].file, asset[b].shard, request[b].row.file,
                                      request[b].row.shard} # {}
           Others(b) == /\ name \in {asset[b].shard, request[b].row.shard}
                        /\ base \notin {asset[b].file, request[b].row.file}
<1>1. /\ request[a].kind \in {"upload", "finalize"} /\ entry \in RowsBegun /\ asset[a] = NoRow
      /\ request[a].step = "shards" /\ request[a] # New /\ RowAt(a) = entry
  BY DEF AssetInv, AssetTypes, RequestFits, StoreShards, Making, New, Quiet, Request, RowAt, AssetRequests
<1>2. base \in FileNames /\ entry.shard = NoObject /\ name \in ShardNames
      /\ (OnS3 => name = ShardName(base))
  BY <1>1, NamesDiffer DEF RowsBegun
<1>3. whole \in WholeRows /\ whole.file = base /\ whole.shard = name
  BY <1>1, <1>2 DEF RowsBegun, WholeRows
<1>4. CASE /\ objects' = objects \cup {name}
           /\ request' = [request EXCEPT ![a].row.shard = name, ![a].step = "insert"]
           /\ mishap' = Mishap("named", \E b \in Assets \ {a} : Others(b))
           /\ UNCHANGED <<tasks, asset>>
  <2>1. request'[a] = Request(request[a].kind, "insert", whole)
    BY <1>4 DEF AssetInv, AssetTypes, Request, AssetRequests
  <2>2. /\ mishap' \subseteq {"race", "named", "torn", "left", "kept"} /\ mishap \subseteq mishap'
        /\ "named" \notin mishap' => \A b \in Assets \ {a} : ~Others(b)
        /\ \A x : x # "named" => (x \in mishap' <=> x \in mishap)
    <3> HIDE DEF Others
    <3> QED
      BY <1>4, MishapCounts DEF AssetInv
  <2>3. "named" \notin mishap' =>
           \A b \in Assets \ {a} : RowAt(b).shard = name => RowAt(b).file = base
    BY <1>2, <2>2, ShardsMet
  <2> HIDE DEF whole, name, entry
  <2>4. request' = [request EXCEPT ![a] = Request(request[a].kind, "insert", whole)]
    BY <1>4, <2>1 DEF AssetInv, AssetTypes
  <2> DEFINE next == Request(request[a].kind, "insert", whole)
  <2>5. /\ next \in AssetRequests /\ next.kind = request[a].kind /\ next.step = "insert"
        /\ next.row = whole
    BY <1>1, <1>3 DEF AssetRequests, Request, Making
  <2> HIDE DEF next
  <2>6. AssetTypes' /\ request'[a] = next /\ asset'[a] = asset[a]
        /\ \A b \in Assets \ {a} : request'[b] = request[b] /\ asset'[b] = asset[b]
    BY <1>2, <1>4, <2>2, <2>4, <2>5, RequestChanges DEF AssetInv, AssetTypes, next
  <2>7. RequestFits(a)'
    <3>1. request[a].kind = "upload" => base = FileOf(a)
      BY DEF AssetInv, RequestFits, entry
    <3>2. request[a].kind = "finalize" => OnS3'
      BY DEF AssetInv, RequestFits, OnS3
    <3> QED
      BY <1>1, <1>3, <2>5, <2>6, <3>1, <3>2 DEF RequestFits, New, Request
  <2>8. /\ \A b \in Assets : RequestFits(b)'
        /\ \A b \in Assets \ {a} : RowAt(b)' = RowAt(b) /\ Made(b)' = Made(b)
    BY <2>6, <2>7, OthersStay
  <2>9. /\ RowAt(a)' = whole /\ Made(a) /\ Made(a)'
        /\ request'[a].kind = request[a].kind /\ request'[a].step = "insert" /\ request'[a] # New
    BY <1>1, <2>5, <2>6 DEF RowAt, Made, Making, New, Request
  <2>10. FilesAreNew'
    BY <1>1, <1>3, <2>6, <2>8, <2>9 DEF AssetInv, FilesAreNew
  <2>11. OneShard'
    <3>1. ~OnS3 => \A b \in Assets \ {a} : RowAt(b).file # base
      BY <1>1 DEF AssetInv, FilesAreNew, RequestFits, entry
    <3> QED
      BY <1>2, <1>3, <2>8, <2>9, <3>1 DEF AssetInv, OneShard, OnS3
  <2>12. OneFile'
    BY <1>3, <2>2, <2>3, <2>8, <2>9 DEF AssetInv, OneFile
  <2>13. DeletesAlone'
    BY <1>1, <1>3, <2>2, <2>6, <2>8, <2>9 DEF AssetInv, DeletesAlone
  <2>14. ClonesHaveSource'
    BY <1>1, <2>2, <2>6, <2>9 DEF AssetInv, ClonesHaveSource
  <2>15. FilesThere' /\ ShardsThere'
    BY <1>1, <1>3, <1>4, <2>2, <2>8, <2>9 DEF AssetInv, FilesThere, ShardsThere
  <2>16. ObjectsHeld'
    <3>1. \A o \in objects : o # NoObject
      BY NamesDiffer DEF AssetInv, AssetTypes
    <3> QED
      <4> SUFFICES ASSUME mishap' \cap {"race", "left", "kept"} = {}, NEW o \in objects',
                          \A d \in Sessions : o # Put(d)
                   PROVE  \E b \in Assets :
                             request'[b].step # "drop" /\ o \in {RowAt(b)'.file, RowAt(b)'.shard}
        BY DEF ObjectsHeld
      <4>1. CASE o = name
        BY <1>3, <2>9, <4>1
      <4>2. CASE o \in objects
        <5>1. PICK b \in Assets : request[b].step # "drop" /\ o \in {RowAt(b).file, RowAt(b).shard}
          BY <2>2, <4>2 DEF AssetInv, ObjectsHeld
        <5>2. CASE b = a
          BY <1>1, <1>2, <1>3, <2>9, <3>1, <4>2, <5>1, <5>2
        <5>3. CASE b # a
          BY <2>6, <2>8, <5>1, <5>3
        <5> QED
          BY <5>2, <5>3
      <4> QED
        BY <1>4, <4>1, <4>2
  <2>17. PutsOnS3'
    BY <1>2, <1>4, NamesDiffer DEF AssetInv, PutsOnS3, OnS3
  <2> QED
    BY <2>6, <2>8, <2>10, <2>11, <2>12, <2>13, <2>14, <2>15, <2>16, <2>17 DEF AssetInv
<1>5. ASSUME NEW stay \in SUBSET {name, base},
             objects' = (objects \ ({name, base} \ stay)) \cup stay,
             request' = Done(a), UNCHANGED <<tasks, asset>>,
             mishap' \subseteq mishap \cup {"torn", "kept"}, mishap \subseteq mishap',
             "torn" \notin mishap' => \A b \in Assets \ {a} : ~Met(b, {name, base} \ stay),
             "kept" \notin mishap' => base \notin stay /\ stay \subseteq objects
      PROVE  AssetInv'
  <2> DEFINE gone == {name, base} \ stay
             next == [request EXCEPT ![a] = Quiet]
  <2>1. "torn" \notin mishap' =>
           \A b \in Assets \ {a} : gone \cap {RowAt(b).file, RowAt(b).shard} = {}
    BY <1>5 DEF RowAt
  <2> HIDE DEF name, entry
  <2>2. mishap' \subseteq {"race", "named", "torn", "left", "kept"}
    BY <1>5 DEF AssetInv, AssetTypes
  <2>3. /\ Quiet \in AssetRequests /\ Quiet.kind = "none" /\ Quiet.step = "idle"
        /\ Quiet.row = NoRow /\ Quiet # New
    BY DEF Quiet, Request, AssetRequests, New
  <2>4. /\ AssetTypes' /\ request'[a] = Quiet /\ asset'[a] = NoRow
        /\ \A b \in Assets \ {a} : request'[b] = request[b] /\ asset'[b] = asset[b]
    <3>1. /\ request' \in [Assets -> AssetRequests] /\ request'[a] = Quiet
          /\ \A b \in Assets \ {a} : request'[b] = request[b]
      BY <1>5, <2>3, RequestChanges DEF AssetInv, Done
    <3>2. objects' \subseteq FileNames \cup ShardNames
      BY <1>2, <1>5 DEF AssetInv, AssetTypes
    <3> QED
      BY <1>1, <1>5, <2>2, <3>1, <3>2 DEF AssetInv, AssetTypes
  <2>5. RequestFits(a)'
    BY <2>4 DEF RequestFits, Quiet, New, Request, Making
  <2>6. /\ \A b \in Assets : RequestFits(b)'
        /\ \A b \in Assets \ {a} : RowAt(b)' = RowAt(b) /\ Made(b)' = Made(b)
    BY <2>4, <2>5, OthersStay
  <2>7. RowAt(a)' = NoRow
    BY <2>3, <2>4 DEF RowAt, Making
  <2>8. \A x \in {"race", "named", "left"} : x \in mishap' <=> x \in mishap
    BY <1>5
  <2>9. FilesAreNew'
    BY <2>3, <2>4, <2>6, <2>7, NamesDiffer, RowsDiffer DEF AssetInv, FilesAreNew
  <2>10. OneShard' /\ OneFile'
    BY <2>6, <2>7, <2>8, RowsDiffer DEF AssetInv, OneShard, OneFile, OnS3
  <2>11. DeletesAlone'
    <3>1. \A b \in Assets \ {a} : request[b].kind = "delete" => RowAt(b).file # NoObject
      BY NamesDiffer, RowsDiffer DEF AssetInv, AssetTypes, RequestFits, RowAt, Making
    <3> QED
      BY <2>3, <2>4, <2>6, <2>7, <2>8, <3>1, RowsDiffer DEF AssetInv, DeletesAlone
  <2>12. ClonesHaveSource'
    BY <1>1, <2>3, <2>4, <2>8 DEF AssetInv, ClonesHaveSource
  <2>13. PutsOnS3'
    <3>1. \A o \in objects' : o \in objects \/ o = name \/ o = base
      BY <1>5
    <3>2. ~OnS3 => base = FileOf(a)
      BY <1>1 DEF AssetInv, RequestFits, entry
    <3> QED
      BY <1>2, <3>1, <3>2, NamesDiffer DEF AssetInv, PutsOnS3, OnS3
  <2>14. FilesThere' /\ ShardsThere'
    BY <1>5, <2>1, <2>6, <2>7, <2>8, RowsDiffer DEF AssetInv, FilesThere, ShardsThere
  <2>15. ObjectsHeld'
    <3>1. \A o \in objects : o # NoObject
      BY NamesDiffer DEF AssetInv, AssetTypes
    <3> SUFFICES ASSUME mishap' \cap {"race", "left", "kept"} = {}, NEW o \in objects',
                        \A d \in Sessions : o # Put(d)
                 PROVE  \E b \in Assets :
                           request'[b].step # "drop" /\ o \in {RowAt(b)'.file, RowAt(b)'.shard}
      BY DEF ObjectsHeld
    <3>2. o \in objects /\ o # base
      BY <1>5
    <3>3. PICK b \in Assets : request[b].step # "drop" /\ o \in {RowAt(b).file, RowAt(b).shard}
      BY <1>5, <3>2 DEF AssetInv, ObjectsHeld
    <3>4. b # a
      BY <1>1, <1>2, <3>1, <3>2, <3>3
    <3> QED
      BY <2>4, <2>6, <3>3, <3>4
  <2> QED
    BY <2>4, <2>6, <2>9, <2>10, <2>11, <2>12, <2>13, <2>14, <2>15 DEF AssetInv
<1>6. ASSUME NEW stay \in SUBSET {name, base}, UNCHANGED <<tasks, asset>>,
             objects' = (objects \ ({name, base} \ stay)) \cup stay, request' = Done(a),
             mishap' = mishap \cup {m \in {"torn", "kept"} :
                          IF m = "torn" THEN \E b \in Assets \ {a} : Met(b, {name, base} \ stay)
                          ELSE base \in stay \/ stay \ objects # {}}
      PROVE  AssetInv'
  <2> DEFINE torn == \E b \in Assets \ {a} : Met(b, {name, base} \ stay)
             left == base \in stay \/ stay \ objects # {}
  <2>1. mishap' = mishap \cup {m \in {"torn", "kept"} : IF m = "torn" THEN torn ELSE left}
    BY <1>6
  <2> HIDE DEF torn, left
  <2>2. /\ mishap' \subseteq mishap \cup {"torn", "kept"} /\ mishap \subseteq mishap'
        /\ "torn" \notin mishap' => ~torn
        /\ "kept" \notin mishap' => ~left
    BY <2>1
  <2>3. "torn" \notin mishap' => \A b \in Assets \ {a} : ~Met(b, {name, base} \ stay)
    BY <2>2 DEF torn
  <2>4. "kept" \notin mishap' => base \notin stay /\ stay \subseteq objects
    BY <2>2 DEF left
  <2> HIDE DEF name, base, Met
  <2> QED
    BY <1>5, <1>6, <2>2, <2>3, <2>4
<1> HIDE DEF Met
<1>7. \/ /\ objects' = objects \cup {name}
         /\ request' = [request EXCEPT ![a].row.shard = name, ![a].step = "insert"]
         /\ mishap' = Mishap("named", \E b \in Assets \ {a} : Others(b))
         /\ UNCHANGED <<tasks, asset>>
      \/ \E stay \in SUBSET {name, base} :
            /\ objects' = (objects \ ({name, base} \ stay)) \cup stay
            /\ request' = Done(a) /\ UNCHANGED <<tasks, asset>>
            /\ mishap' = mishap \cup {m \in {"torn", "kept"} :
                          IF m = "torn" THEN \E b \in Assets \ {a} : Met(b, {name, base} \ stay)
                          ELSE base \in stay \/ stay \ objects # {}}
  BY DEF StoreShards, Met
<1> QED
  BY <1>4, <1>6, <1>7

LEMMA AssetsInsert ==
    ASSUME AssetInv, UNCHANGED store, NEW a \in Assets, Insert(a)
    PROVE  AssetInv'
<1> DEFINE entry == request[a].row
<1>1. /\ request[a].kind \in Making /\ entry \in WholeRows /\ asset[a] = NoRow
      /\ request[a].step = "insert" /\ RowAt(a) = entry /\ Made(a)
  BY DEF AssetInv, AssetTypes, AssetRequests, RequestFits, Insert, Making, New, Quiet, Request,
         RowAt, Made
<1>2. request' = Done(a) /\ UNCHANGED <<tasks, objects>>
  BY DEF Insert
<1>3. CASE asset' = [asset EXCEPT ![a] = entry] /\ UNCHANGED mishap
  <2> HIDE DEF entry
  <2>1. Quiet \in AssetRequests /\ Quiet.kind = "none" /\ Quiet.step = "idle" /\ Quiet.row = NoRow
    BY DEF Quiet, Request, AssetRequests
  <2>2. /\ AssetTypes' /\ request'[a] = Quiet /\ asset'[a] = entry
        /\ \A b \in Assets \ {a} : request'[b] = request[b] /\ asset'[b] = asset[b]
    BY <1>1, <1>2, <1>3, <2>1, RequestChanges DEF AssetInv, AssetTypes, Done
  <2>3. RequestFits(a)' /\ Quiet # New
    BY <2>2 DEF RequestFits, Quiet, New, Request, Making
  <2>4. /\ \A b \in Assets : RequestFits(b)'
        /\ \A b \in Assets \ {a} : RowAt(b)' = RowAt(b) /\ Made(b)' = Made(b)
    BY <2>2, <2>3, OthersStay
  <2>5. RowAt(a)' = RowAt(a) /\ Made(a)'
    BY <1>1, <2>1, <2>2 DEF RowAt, Made, Making
  <2>6. FilesAreNew'
    BY <2>1, <2>2, <2>3, <2>4, <2>5 DEF AssetInv, FilesAreNew
  <2>7. OneShard' /\ OneFile'
    BY <1>3, <2>4, <2>5 DEF AssetInv, OneShard, OneFile, OnS3
  <2>8. DeletesAlone'
    BY <1>1, <1>3, <2>1, <2>2, <2>4, <2>5 DEF AssetInv, DeletesAlone, Making
  <2>9. ClonesHaveSource'
    BY <1>1, <1>3, <2>1, <2>2 DEF AssetInv, ClonesHaveSource, Making
  <2>10. PutsOnS3' /\ FilesThere' /\ ShardsThere'
    BY <1>1, <1>2, <1>3, <2>4, <2>5 DEF AssetInv, PutsOnS3, OnS3, FilesThere, ShardsThere
  <2>11. ObjectsHeld'
    BY <1>2, <1>3, <2>1, <2>2, <2>4, <2>5 DEF AssetInv, ObjectsHeld
  <2> QED
    BY <2>2, <2>4, <2>6, <2>7, <2>8, <2>9, <2>10, <2>11 DEF AssetInv
<1>4. CASE UNCHANGED asset /\ mishap' = mishap \cup {"left"}
  <2>1. /\ AssetTypes' /\ RowAt(a)' = NoRow /\ request'[a] = Quiet
        /\ \A b \in Assets : RequestFits(b)'
        /\ \A b \in Assets \ {a} : /\ RowAt(b)' = RowAt(b) /\ Made(b)' = Made(b)
                                   /\ request'[b] = request[b]
        /\ FilesAreNew' /\ OneShard' /\ OneFile' /\ DeletesAlone' /\ ClonesHaveSource' /\ PutsOnS3'
    BY <1>1, <1>2, <1>4, RowGoes DEF AssetInv, AssetTypes, Making
  <2>2. FilesThere' /\ ShardsThere'
    BY <1>2, <1>4, <2>1, RowsDiffer DEF AssetInv, FilesThere, ShardsThere
  <2>3. ObjectsHeld'
    BY <1>4 DEF ObjectsHeld
  <2> QED
    BY <2>1, <2>2, <2>3 DEF AssetInv
<1> QED
  BY <1>3, <1>4 DEF Insert

LEMMA AssetsClientPuts ==
    ASSUME AssetInv, UNCHANGED store, NEW d \in Sessions, ClientPuts(d)
    PROVE  AssetInv'
<1>1. objects' = objects \cup {Put(d)} /\ OnS3 /\ UNCHANGED <<tasks, asset, request, mishap>>
  BY DEF ClientPuts
<1>2. AssetTypes'
  BY <1>1, NamesDiffer DEF AssetInv, AssetTypes
<1>3. \A b \in Assets : /\ RequestFits(b)' /\ RowAt(b)' = RowAt(b) /\ Made(b)' = Made(b)
  BY <1>1 DEF AssetInv, RequestFits, RowAt, Made, OnS3
<1>4. FilesAreNew' /\ OneShard' /\ OneFile' /\ DeletesAlone' /\ ClonesHaveSource' /\ PutsOnS3'
  BY <1>1, <1>3
     DEF AssetInv, FilesAreNew, OneShard, OneFile, DeletesAlone, ClonesHaveSource, PutsOnS3, OnS3
<1>5. FilesThere' /\ ShardsThere' /\ ObjectsHeld'
  BY <1>1, <1>3 DEF AssetInv, FilesThere, ShardsThere, ObjectsHeld
<1> QED
  BY <1>2, <1>3, <1>4, <1>5 DEF AssetInv

LEMMA AssetsDeleteTask ==
    ASSUME AssetInv, UNCHANGED store, NEW t \in Tasks, DeleteTask(t)
    PROVE  AssetInv'
<1>1. tasks' = tasks \ {t} /\ UNCHANGED <<asset, objects, request, mishap>>
  BY DEF DeleteTask
<1>2. AssetTypes' /\ \A b \in Assets : /\ RequestFits(b)' /\ RowAt(b)' = RowAt(b) /\ Made(b)' = Made(b)
  BY <1>1 DEF AssetInv, AssetTypes, RequestFits, RowAt, Made, OnS3
<1> QED
  BY <1>1, <1>2
     DEF AssetInv, FilesAreNew, OneShard, OneFile, DeletesAlone, ClonesHaveSource, PutsOnS3, OnS3,
         FilesThere, ShardsThere, ObjectsHeld

LEMMA AssetsFinalize ==
    ASSUME AssetInv, UNCHANGED store, NEW a \in Assets, NEW d \in Sessions, NEW t \in Tasks,
           Finalize(a, d, t)
    PROVE  AssetInv'
<1> DEFINE entry == [file |-> Put(d), shard |-> NoObject, task |-> t]
           next == Request("finalize", "shards", entry)
           Racing == \E b \in Busy(Put(d)) : request[b].kind = "delete"
<1>1. entry \in RowsBegun /\ entry.file = Put(d) /\ entry.shard = NoObject
  BY NamesDiffer DEF RowsBegun
<1> HIDE DEF entry
<1>2. /\ next \in AssetRequests /\ next.kind = "finalize" /\ next.step = "shards" /\ next.row = entry
      /\ next # New
  BY <1>1 DEF AssetRequests, Request, Making, New
<1>3. /\ request' = [request EXCEPT ![a] = next] /\ mishap' = Mishap("race", Racing)
      /\ request[a] = New /\ Put(d) \in objects /\ UNCHANGED <<tasks, asset, objects>>
  BY DEF Finalize, NextNew, entry
<1> HIDE DEF next
<1>4. /\ mishap' \subseteq {"race", "named", "torn", "left", "kept"} /\ mishap \subseteq mishap'
      /\ "race" \notin mishap' => ~Racing
      /\ \A x : x # "race" => (x \in mishap' <=> x \in mishap)
  <2> HIDE DEF Racing
  <2> QED
    BY <1>3, MishapCounts DEF AssetInv
<1>5. AssetTypes' /\ request'[a] = next /\ asset'[a] = NoRow /\ asset[a] = NoRow
      /\ \A b \in Assets \ {a} : request'[b] = request[b] /\ asset'[b] = asset[b]
  BY <1>2, <1>3, <1>4, RequestChanges DEF AssetInv, AssetTypes, RequestFits
<1>6. RequestFits(a)'
  <2>1. OnS3'
    BY <1>3 DEF AssetInv, PutsOnS3, OnS3
  <2> QED
    BY <1>1, <1>2, <1>5, <2>1 DEF RequestFits
<1>7. /\ \A b \in Assets : RequestFits(b)'
      /\ \A b \in Assets \ {a} : RowAt(b)' = RowAt(b) /\ Made(b)' = Made(b)
  BY <1>5, <1>6, OthersStay
<1>8. RowAt(a)' = entry /\ RowAt(a) = NoRow /\ request[a].kind = "none"
  BY <1>2, <1>3, <1>5 DEF RowAt, Making, New, Request
<1>9. FilesAreNew'
  BY <1>1, <1>2, <1>5, <1>7, <1>8, NamesDiffer DEF AssetInv, FilesAreNew
<1>10. OneShard' /\ OneFile'
  BY <1>1, <1>4, <1>7, <1>8 DEF AssetInv, OneShard, OneFile, OnS3
<1>11. DeletesAlone'
  <2>1. "race" \notin mishap' => \A b \in Assets : request[b].kind = "delete" => RowAt(b).file # Put(d)
    BY <1>4 DEF Busy, AssetInv, RequestFits, RowAt, Making
  <2> QED
    BY <1>1, <1>2, <1>4, <1>5, <1>7, <1>8, <2>1 DEF AssetInv, DeletesAlone
<1>12. ClonesHaveSource'
  BY <1>2, <1>4, <1>5 DEF AssetInv, ClonesHaveSource
<1>13. PutsOnS3' /\ FilesThere' /\ ShardsThere'
  BY <1>1, <1>3, <1>4, <1>7, <1>8 DEF AssetInv, PutsOnS3, OnS3, FilesThere, ShardsThere
<1>14. ObjectsHeld'
  <2>1. \A o \in objects : o # NoObject
    BY NamesDiffer DEF AssetInv, AssetTypes
  <2> QED
    <3> SUFFICES ASSUME mishap' \cap {"race", "left", "kept"} = {}, NEW o \in objects,
                        \A e \in Sessions : o # Put(e)
                 PROVE  \E b \in Assets :
                           request'[b].step # "drop" /\ o \in {RowAt(b)'.file, RowAt(b)'.shard}
      BY <1>3 DEF ObjectsHeld
    <3>1. PICK b \in Assets : request[b].step # "drop" /\ o \in {RowAt(b).file, RowAt(b).shard}
      BY <1>4 DEF AssetInv, ObjectsHeld
    <3> QED
      BY <1>5, <1>7, <1>8, <2>1, <3>1, RowsDiffer
<1> QED
  BY <1>5, <1>7, <1>9, <1>10, <1>11, <1>12, <1>13, <1>14 DEF AssetInv

LEMMA AssetsCloneReads ==
    ASSUME AssetInv, UNCHANGED store, NEW a \in Assets, NEW b \in Assets \ {a}, NEW t \in Tasks,
           CloneReads(a, b, t)
    PROVE  AssetInv'
<1> DEFINE entry == [asset[b] EXCEPT !.task = t]
           next == Request("clone", IF ByReference THEN "insert" ELSE "copy", entry)
           Racing == \E c \in Busy(asset[b].file) : request[c].kind = "delete"
<1>1. /\ asset[b] \in WholeRows /\ asset[b] # NoRow /\ request[b].kind \in {"none", "delete"}
      /\ RowAt(b) = asset[b] /\ request[b] # New
  BY DEF CloneReads, Rows, AssetInv, AssetTypes, AssetRequests, RequestFits, RowAt, Making
<1>2. entry \in WholeRows /\ entry.file = asset[b].file /\ entry.shard = asset[b].shard
  BY <1>1 DEF WholeRows
<1> HIDE DEF entry
<1>3. /\ next \in AssetRequests /\ next.kind = "clone" /\ next.step \in {"insert", "copy"}
      /\ next.row = entry /\ next # New /\ (next.step = "copy" => ~OnS3)
  BY <1>2 DEF AssetRequests, Request, Making, New, ByReference, OnS3
<1>4. /\ request' = [request EXCEPT ![a] = next] /\ mishap' = Mishap("race", Racing)
      /\ request[a] = New /\ UNCHANGED <<tasks, asset, objects>>
  BY DEF CloneReads, NextNew, entry
<1> HIDE DEF next
<1>5. /\ mishap' \subseteq {"race", "named", "torn", "left", "kept"} /\ mishap \subseteq mishap'
      /\ "race" \notin mishap' => ~Racing
      /\ \A x : x # "race" => (x \in mishap' <=> x \in mishap)
  <2> HIDE DEF Racing
  <2> QED
    BY <1>4, MishapCounts DEF AssetInv
<1>6. AssetTypes' /\ request'[a] = next /\ asset'[a] = NoRow /\ asset[a] = NoRow
      /\ \A c \in Assets \ {a} : request'[c] = request[c] /\ asset'[c] = asset[c]
  BY <1>3, <1>4, <1>5, RequestChanges DEF AssetInv, AssetTypes, RequestFits
<1>7. RequestFits(a)'
  BY <1>2, <1>3, <1>6 DEF RequestFits, OnS3
<1>8. /\ \A c \in Assets : RequestFits(c)'
      /\ \A c \in Assets \ {a} : RowAt(c)' = RowAt(c) /\ Made(c)' = Made(c)
  BY <1>6, <1>7, OthersStay
<1>9. /\ RowAt(a)' = entry /\ RowAt(a) = NoRow /\ request[a].kind = "none"
      /\ Made(a)' => next.step = "insert"
  BY <1>3, <1>4, <1>6 DEF RowAt, Making, New, Request, Made
<1>10. "race" \notin mishap' => \A c \in Assets : request[c].kind = "delete" => RowAt(c).file # entry.file
  BY <1>2, <1>5 DEF Busy, AssetInv, RequestFits, RowAt, Making
<1>11. FilesAreNew'
  <2>1. \A c \in Assets : RowAt(a)'.file = FileOf(c) =>
           request'[c] # New /\ request'[c].step # "copy" /\ request'[c].kind # "upload"
    <3> SUFFICES ASSUME NEW c \in Assets, RowAt(b).file = FileOf(c)
                 PROVE  request'[c] # New /\ request'[c].step # "copy" /\ request'[c].kind # "upload"
      BY <1>1, <1>2, <1>9
    <3>1. request[c] # New /\ request[c].step # "copy" /\ (request[c].kind = "upload" => c = b)
      BY DEF AssetInv, FilesAreNew
    <3> QED
      BY <1>1, <1>4, <1>6, <3>1
  <2>2. \A c, x \in Assets : x # a /\ RowAt(x)'.file = FileOf(c) =>
            /\ request'[c] # New /\ request'[c].step # "copy"
            /\ request'[c].kind = "upload" => c = x
    BY <1>3, <1>4, <1>6, <1>8 DEF AssetInv, FilesAreNew
  <2> QED
    BY <2>1, <2>2 DEF FilesAreNew
<1>12. OneShard' /\ OneFile'
  BY <1>1, <1>2, <1>5, <1>8, <1>9 DEF AssetInv, OneShard, OneFile, OnS3
<1>13. DeletesAlone'
  BY <1>3, <1>5, <1>6, <1>8, <1>9, <1>10 DEF AssetInv, DeletesAlone
<1>14. ClonesHaveSource'
  <2> SUFFICES ASSUME "race" \notin mishap', NEW c \in Assets, request'[c].step = "copy"
               PROVE  \E s \in Assets : /\ asset'[s] # NoRow /\ request'[s].kind = "none"
                                        /\ asset'[s].file = request'[c].row.file
                                        /\ asset'[s].shard = request'[c].row.shard
    BY DEF ClonesHaveSource
  <2>1. CASE c = a
    BY <1>1, <1>2, <1>3, <1>6, <1>10, <2>1
  <2>2. CASE c # a
    BY <1>5, <1>6, <2>2 DEF AssetInv, ClonesHaveSource
  <2> QED
    BY <2>1, <2>2
<1>15. Made(a)' /\ "race" \notin mishap' => Made(b) /\ RowAt(a)'.file = RowAt(b).file
                                          /\ RowAt(a)'.shard = RowAt(b).shard
  <2>1. "race" \notin mishap' => request[b].kind = "none"
    BY <1>1, <1>2, <1>10
  <2>2. request[b].kind = "none" => request[b].step \notin {"copy", "drop"}
    BY <1>1 DEF AssetInv, RequestFits, New, Quiet, Request
  <2> QED
    BY <1>1, <1>2, <1>9, <1>10, <2>1, <2>2 DEF Made
<1>16. PutsOnS3' /\ FilesThere' /\ ShardsThere'
  BY <1>4, <1>5, <1>8, <1>15 DEF AssetInv, PutsOnS3, OnS3, FilesThere, ShardsThere
<1>17. ObjectsHeld'
  <2>1. \A o \in objects : o # NoObject
    BY NamesDiffer DEF AssetInv, AssetTypes
  <2> SUFFICES ASSUME mishap' \cap {"race", "left", "kept"} = {}, NEW o \in objects,
                      \A e \in Sessions : o # Put(e)
               PROVE  \E c \in Assets :
                         request'[c].step # "drop" /\ o \in {RowAt(c)'.file, RowAt(c)'.shard}
    BY <1>4 DEF ObjectsHeld
  <2>2. PICK c \in Assets : request[c].step # "drop" /\ o \in {RowAt(c).file, RowAt(c).shard}
    BY <1>5 DEF AssetInv, ObjectsHeld
  <2> QED
    BY <1>6, <1>8, <1>9, <2>1, <2>2, RowsDiffer
<1> QED
  BY <1>6, <1>8, <1>11, <1>12, <1>13, <1>14, <1>16, <1>17 DEF AssetInv

LEMMA AssetsCloneCopies ==
    ASSUME AssetInv, UNCHANGED store, NEW a \in Assets, CloneCopies(a)
    PROVE  AssetInv'
<1> DEFINE entry == request[a].row
           copy == [entry EXCEPT !.file = FileOf(a)]
           next == Request("clone", "insert", copy)
<1>1. /\ request[a].kind = "clone" /\ entry \in WholeRows /\ asset[a] = NoRow /\ ~OnS3
      /\ request[a].step = "copy" /\ RowAt(a) = entry
  BY DEF AssetInv, AssetTypes, AssetRequests, RequestFits, CloneCopies, Making, New, Quiet, Request,
         RowAt
\* What is copied has another row, which stays for now.
<1>2. "race" \notin mishap => \E s \in Assets \ {a} :
         /\ RowAt(s).file = entry.file /\ RowAt(s).shard = entry.shard /\ request[s].step # "drop"
  <2> SUFFICES ASSUME "race" \notin mishap
               PROVE  \E s \in Assets \ {a} : /\ RowAt(s).file = entry.file
                                              /\ RowAt(s).shard = entry.shard
                                              /\ request[s].step # "drop"
    OBVIOUS
  <2>1. PICK s \in Assets : /\ asset[s] # NoRow /\ request[s].kind = "none"
                            /\ asset[s].file = entry.file /\ asset[s].shard = entry.shard
    BY <1>1 DEF AssetInv, ClonesHaveSource
  <2> QED
    BY <1>1, <2>1 DEF AssetInv, RequestFits, RowAt, Making, New, Quiet, Request
<1>3. CASE /\ entry.file \in objects /\ objects' = objects \cup {FileOf(a)}
           /\ request' = [request EXCEPT ![a].row.file = FileOf(a), ![a].step = "insert"]
           /\ mishap' = Mishap("named", TRUE) /\ UNCHANGED <<tasks, asset>>
  <2>1. copy \in WholeRows /\ copy.file = FileOf(a) /\ copy.shard = entry.shard
    BY <1>1, NamesDiffer DEF WholeRows
  <2>2. request'[a] = next
    BY <1>1, <1>3 DEF AssetInv, AssetTypes, Request, AssetRequests
  <2> HIDE DEF copy, entry
  <2>3. request' = [request EXCEPT ![a] = next]
    BY <1>3, <2>2 DEF AssetInv, AssetTypes
  <2>4. /\ next \in AssetRequests /\ next.kind = "clone" /\ next.step = "insert"
        /\ next.row = copy /\ next # New
    BY <2>1 DEF AssetRequests, Request, Making, New
  <2> HIDE DEF next
  <2>5. mishap' = mishap \cup {"named"}
    BY <1>3 DEF Mishap
  <2>6. AssetTypes' /\ request'[a] = next /\ asset'[a] = NoRow
        /\ \A b \in Assets \ {a} : request'[b] = request[b] /\ asset'[b] = asset[b]
    <3>1. /\ request' \in [Assets -> AssetRequests] /\ request'[a] = next
          /\ \A b \in Assets \ {a} : request'[b] = request[b]
      BY <2>3, <2>4, RequestChanges DEF AssetInv
    <3>2. objects' \subseteq FileNames \cup ShardNames
      BY <1>3, NamesDiffer DEF AssetInv, AssetTypes
    <3> QED
      BY <1>1, <1>3, <2>5, <3>1, <3>2 DEF AssetInv, AssetTypes
  <2>7. RequestFits(a)'
    BY <2>1, <2>4, <2>6 DEF RequestFits
  <2>8. /\ \A b \in Assets : RequestFits(b)'
        /\ \A b \in Assets \ {a} : RowAt(b)' = RowAt(b) /\ Made(b)' = Made(b)
    BY <2>6, <2>7, OthersStay
  <2>9. RowAt(a)' = copy /\ Made(a)'
    BY <2>4, <2>6 DEF RowAt, Made, Making
  <2>10. \A b \in Assets : RowAt(b).file # FileOf(a)
    BY <1>1 DEF AssetInv, FilesAreNew
  <2>11. FilesAreNew'
    BY <2>1, <2>4, <2>6, <2>8, <2>9, NamesDiffer DEF AssetInv, FilesAreNew
  <2>12. OneShard' /\ OneFile'
    BY <1>1, <2>1, <2>5, <2>8, <2>9, <2>10 DEF AssetInv, OneShard, OneFile, OnS3
  <2>13. DeletesAlone'
    BY <1>1, <2>1, <2>4, <2>5, <2>6, <2>8, <2>9, <2>10 DEF AssetInv, DeletesAlone
  <2>14. ClonesHaveSource'
    BY <1>1, <2>4, <2>5, <2>6 DEF AssetInv, ClonesHaveSource
  <2>15. PutsOnS3' /\ FilesThere' /\ ShardsThere'
    BY <1>3, <2>1, <2>5, <2>8, <2>9, NamesDiffer
       DEF AssetInv, PutsOnS3, OnS3, FilesThere, ShardsThere
  <2>16. ObjectsHeld'
    <3> SUFFICES ASSUME mishap' \cap {"race", "left", "kept"} = {}, NEW o \in objects',
                        \A e \in Sessions : o # Put(e)
                 PROVE  \E b \in Assets :
                           request'[b].step # "drop" /\ o \in {RowAt(b)'.file, RowAt(b)'.shard}
      BY DEF ObjectsHeld
    <3>1. CASE o = FileOf(a)
      BY <2>1, <2>4, <2>6, <2>9, <3>1
    <3>2. CASE o \in objects
      <4>1. PICK b \in Assets : request[b].step # "drop" /\ o \in {RowAt(b).file, RowAt(b).shard}
        BY <2>5, <3>2 DEF AssetInv, ObjectsHeld
      <4>2. PICK s \in Assets \ {a} :
               /\ RowAt(s).file = entry.file /\ RowAt(s).shard = entry.shard /\ request[s].step # "drop"
        BY <1>2, <2>5
      <4> QED
        BY <1>1, <2>6, <2>8, <4>1, <4>2
    <3> QED
      BY <1>3, <3>1, <3>2
  <2> QED
    BY <2>6, <2>8, <2>11, <2>12, <2>13, <2>14, <2>15, <2>16 DEF AssetInv
<1>4. CASE request' = Done(a) /\ UNCHANGED <<tasks, asset, objects, mishap>>
  <2>1. /\ AssetTypes' /\ RowAt(a)' = NoRow /\ request'[a] = Quiet
        /\ \A b \in Assets : RequestFits(b)'
        /\ \A b \in Assets \ {a} : /\ RowAt(b)' = RowAt(b) /\ Made(b)' = Made(b)
                                   /\ request'[b] = request[b]
        /\ FilesAreNew' /\ OneShard' /\ OneFile' /\ DeletesAlone' /\ ClonesHaveSource' /\ PutsOnS3'
    BY <1>1, <1>4, RowGoes DEF AssetInv, AssetTypes
  <2>2. FilesThere' /\ ShardsThere'
    BY <1>4, <2>1, RowsDiffer DEF AssetInv, FilesThere, ShardsThere
  <2>3. ObjectsHeld'
    <3> HIDE DEF entry
    <3> SUFFICES ASSUME mishap' \cap {"race", "left", "kept"} = {}, NEW o \in objects,
                        \A e \in Sessions : o # Put(e)
                 PROVE  \E b \in Assets :
                           request'[b].step # "drop" /\ o \in {RowAt(b)'.file, RowAt(b)'.shard}
      BY <1>4 DEF ObjectsHeld
    <3>1. PICK b \in Assets : request[b].step # "drop" /\ o \in {RowAt(b).file, RowAt(b).shard}
      BY <1>4 DEF AssetInv, ObjectsHeld
    <3>2. PICK s \in Assets \ {a} :
             /\ RowAt(s).file = entry.file /\ RowAt(s).shard = entry.shard /\ request[s].step # "drop"
      BY <1>2, <1>4
    <3> QED
      BY <1>1, <2>1, <3>1, <3>2
  <2> QED
    BY <2>1, <2>2, <2>3 DEF AssetInv
<1> QED
  BY <1>3, <1>4 DEF CloneCopies

LEMMA AssetsDeleteLooks ==
    ASSUME AssetInv, UNCHANGED store, NEW a \in Assets, DeleteLooks(a)
    PROVE  AssetInv'
<1> DEFINE entry == asset[a]
           others == OthersWithFile(a)
           next == Request("delete", IF others = {} THEN "unlink" ELSE "drop", entry)
           Racing == Busy(entry.file) # {}
<1>1. /\ request[a] = Quiet /\ entry \in WholeRows /\ entry # NoRow
      /\ RowAt(a) = entry /\ request[a].kind = "none" /\ request[a].step = "idle"
  BY DEF DeleteLooks, Rows, AssetInv, AssetTypes, RowAt, Quiet, Request, Making
<1>2. /\ request' = [request EXCEPT ![a] = next] /\ mishap' = Mishap("race", Racing)
      /\ UNCHANGED <<tasks, asset, objects>>
  BY DEF DeleteLooks
<1>3. /\ next \in AssetRequests /\ next.kind = "delete" /\ next.step \in {"unlink", "drop"}
      /\ next.row = entry /\ next # New /\ (next.step = "drop" <=> others # {})
  BY <1>1 DEF AssetRequests, Request, Making, New
<1> HIDE DEF next
<1>4. /\ mishap' \subseteq {"race", "named", "torn", "left", "kept"} /\ mishap \subseteq mishap'
      /\ "race" \notin mishap' => ~Racing
      /\ \A x : x # "race" => (x \in mishap' <=> x \in mishap)
  <2> HIDE DEF Racing
  <2> QED
    BY <1>2, MishapCounts DEF AssetInv
<1>5. "race" \notin mishap' => \A b \in Assets : request[b].row.file # entry.file
  BY <1>4 DEF Busy
<1>6. others = {b \in Assets \ {a} : asset[b] # NoRow /\ asset[b].file = entry.file}
  BY DEF OthersWithFile, Rows
<1> HIDE DEF others, entry
<1>7. AssetTypes' /\ request'[a] = next /\ asset'[a] = entry /\ asset[a] = entry
      /\ \A b \in Assets \ {a} : request'[b] = request[b] /\ asset'[b] = asset[b]
  BY <1>2, <1>3, <1>4, RequestChanges DEF AssetInv, AssetTypes, entry
<1>8. RequestFits(a)'
  BY <1>1, <1>3, <1>7 DEF RequestFits, Making
<1>9. /\ \A b \in Assets : RequestFits(b)'
      /\ \A b \in Assets \ {a} : RowAt(b)' = RowAt(b) /\ Made(b)' = Made(b)
  BY <1>7, <1>8, OthersStay
<1>10. RowAt(a)' = RowAt(a) /\ Made(a)
  BY <1>1, <1>3, <1>7 DEF RowAt, Made, Making
\* Without a race, the others that have the file are rows that nobody is at.
<1>11. "race" \notin mishap' =>
          \A b \in Assets \ {a} : RowAt(b).file = entry.file =>
              b \in others /\ request[b].kind = "none" /\ RowAt(b) = asset[b]
  <2> SUFFICES ASSUME "race" \notin mishap', NEW b \in Assets \ {a}, RowAt(b).file = entry.file
               PROVE  b \in others /\ request[b].kind = "none" /\ RowAt(b) = asset[b]
    OBVIOUS
  <2>1. request[b].kind \notin Making /\ RowAt(b) = asset[b]
    BY <1>5 DEF RowAt
  <2>2. request[b].kind = "none"
    BY <1>5, <2>1 DEF AssetInv, AssetTypes, AssetRequests, RequestFits
  <2>3. asset[b] # NoRow
    BY <1>1, <2>1, NamesDiffer, RowsDiffer
  <2> QED
    BY <1>6, <2>1, <2>2, <2>3
<1>12. FilesAreNew'
  <2>1. next.step # "copy" /\ next.kind # "upload"
    BY <1>3
  <2> QED
    BY <1>3, <1>7, <1>9, <1>10, <2>1 DEF AssetInv, FilesAreNew
<1>13. OneShard' /\ OneFile'
  BY <1>4, <1>9, <1>10 DEF AssetInv, OneShard, OneFile, OnS3
<1>14. DeletesAlone'
  <2> SUFFICES ASSUME "race" \notin mishap', NEW c \in Assets, NEW b \in Assets,
                      request'[c].kind = "delete", c # b, RowAt(b)'.file = RowAt(c)'.file
               PROVE  request'[c].step = "drop" /\ request'[b].kind = "none"
    BY DEF DeletesAlone
  <2>1. CASE c = a
    BY <1>1, <1>3, <1>7, <1>9, <1>10, <1>11, <2>1
  <2>2. CASE c # a
    <3>1. request[c].kind = "delete" /\ RowAt(c)' = RowAt(c) /\ RowAt(b)' = RowAt(b)
      BY <1>7, <1>9, <1>10, <2>2
    <3>2. RowAt(c).file # entry.file
      BY <1>5, <2>2, <3>1 DEF AssetInv, RequestFits, RowAt, Making
    <3>3. b # a
      BY <1>1, <3>1, <3>2
    <3> QED
      BY <1>4, <1>7, <2>2, <3>1, <3>3 DEF AssetInv, DeletesAlone
  <2> QED
    BY <2>1, <2>2
<1>15. ClonesHaveSource'
  <2> SUFFICES ASSUME "race" \notin mishap', NEW c \in Assets, request'[c].step = "copy"
               PROVE  \E s \in Assets : /\ asset'[s] # NoRow /\ request'[s].kind = "none"
                                        /\ asset'[s].file = request'[c].row.file
                                        /\ asset'[s].shard = request'[c].row.shard
    BY DEF ClonesHaveSource
  <2>1. c # a /\ request'[c] = request[c]
    BY <1>3, <1>7
  <2>2. PICK s \in Assets : /\ asset[s] # NoRow /\ request[s].kind = "none"
                            /\ asset[s].file = request[c].row.file
                            /\ asset[s].shard = request[c].row.shard
    BY <1>4, <2>1 DEF AssetInv, ClonesHaveSource
  <2>3. s # a
    BY <1>5, <1>7, <2>2
  <2> QED
    BY <1>7, <2>1, <2>2, <2>3
<1>16. PutsOnS3' /\ FilesThere' /\ ShardsThere'
  BY <1>2, <1>4, <1>9, <1>10 DEF AssetInv, PutsOnS3, OnS3, FilesThere, ShardsThere
<1>17. ObjectsHeld'
  <2> SUFFICES ASSUME mishap' \cap {"race", "left", "kept"} = {}, NEW o \in objects,
                      \A e \in Sessions : o # Put(e)
               PROVE  \E c \in Assets :
                         request'[c].step # "drop" /\ o \in {RowAt(c)'.file, RowAt(c)'.shard}
    BY <1>2 DEF ObjectsHeld
  <2>1. PICK c \in Assets : request[c].step # "drop" /\ o \in {RowAt(c).file, RowAt(c).shard}
    BY <1>4 DEF AssetInv, ObjectsHeld
  <2>2. CASE c # a \/ next.step # "drop"
    BY <1>7, <1>9, <1>10, <2>1, <2>2
  <2>3. CASE c = a /\ next.step = "drop"
    <3>1. PICK b \in Assets \ {a} : asset[b] # NoRow /\ asset[b].file = entry.file
      BY <1>3, <1>6, <2>3
    <3>2. request[b].kind \notin Making
      BY <3>1 DEF AssetInv, RequestFits
    <3>3. RowAt(b) = asset[b] /\ asset[b] \in WholeRows
      BY <3>1, <3>2 DEF RowAt, AssetInv, AssetTypes
    <3>4. request[b].kind = "none"
      BY <1>11, <3>1, <3>3
    <3>5. request[b].step # "drop"
      BY <3>4 DEF AssetInv, RequestFits, New, Quiet, Request
    <3>6. RowAt(b).file = RowAt(a).file /\ RowAt(b).shard = RowAt(a).shard
      BY <1>1, <3>1, <3>3, NamesDiffer, RowsDiffer DEF AssetInv, OneShard
    <3> QED
      BY <1>7, <1>9, <2>1, <2>3, <3>5, <3>6
  <2> QED
    BY <2>2, <2>3
<1> QED
  BY <1>7, <1>9, <1>12, <1>13, <1>14, <1>15, <1>16, <1>17 DEF AssetInv

\* The objects are removed, or kept where the store refuses, and the row is to follow.
LEMMA AssetsUnlinked ==
    ASSUME AssetInv, UNCHANGED <<store, tasks, asset>>, NEW a \in Assets,
           request[a].step = "unlink", request' = Go(a, "drop"),
           NEW stay \in SUBSET {request[a].row.file, request[a].row.shard},
           objects' = objects \ ({request[a].row.file, request[a].row.shard} \ stay),
           mishap' = Mishap("kept", stay # {})
    PROVE  AssetInv'
<1> DEFINE entry == asset[a]
           next == Request("delete", "drop", entry)
<1>1. /\ request[a] = Request("delete", "unlink", entry) /\ entry \in WholeRows /\ entry # NoRow
      /\ RowAt(a) = entry
  BY DEF AssetInv, AssetTypes, AssetRequests, RequestFits, RowAt, Making, Request, New, Quiet
<1>2. /\ request[a].kind = "delete" /\ request[a].step = "unlink" /\ request[a].row = entry
  BY <1>1 DEF Request
<1>3. /\ objects' = objects \ ({entry.file, entry.shard} \ stay) /\ UNCHANGED <<tasks, asset>>
      /\ request' = [request EXCEPT ![a].step = "drop"]
      /\ "kept" \notin mishap' => objects' = objects \ {entry.file, entry.shard}
      /\ mishap' \subseteq {"race", "named", "torn", "left", "kept"} /\ mishap \subseteq mishap'
      /\ \A x : x # "kept" => (x \in mishap' <=> x \in mishap)
  <2>1. /\ mishap' \subseteq {"race", "named", "torn", "left", "kept"} /\ mishap \subseteq mishap'
        /\ "kept" \notin mishap' => ~(stay # {})
        /\ \A x : x # "kept" => (x \in mishap' <=> x \in mishap)
    <3> DEFINE holds == stay # {}
    <3>1. mishap' = Mishap("kept", holds)
      OBVIOUS
    <3> HIDE DEF holds
    <3>2. "kept" \notin mishap' => ~holds
      BY <3>1, MishapCounts DEF AssetInv
    <3>3. /\ mishap' \subseteq {"race", "named", "torn", "left", "kept"} /\ mishap \subseteq mishap'
          /\ \A x : x # "kept" => (x \in mishap' <=> x \in mishap)
      BY <3>1, MishapCounts DEF AssetInv
    <3> QED
      BY <3>2, <3>3 DEF holds
  <2> QED
    BY <1>2, <2>1 DEF Go
<1>4. request' = [request EXCEPT ![a] = next]
  <2>1. [request[a] EXCEPT !.step = "drop"] = next
    BY <1>1 DEF Request
  <2> QED
    BY <1>3, <2>1 DEF AssetInv, AssetTypes
<1>5. next \in AssetRequests /\ next.kind = "delete" /\ next.step = "drop" /\ next.row = entry /\ next # New
  BY <1>1 DEF AssetRequests, Request, Making, New
<1> HIDE DEF next, entry
<1>6. AssetTypes' /\ request'[a] = next /\ asset'[a] = entry /\ asset[a] = entry
      /\ \A b \in Assets \ {a} : request'[b] = request[b] /\ asset'[b] = asset[b]
  BY <1>3, <1>4, <1>5, RequestChanges DEF AssetInv, AssetTypes, entry
<1>7. RequestFits(a)'
  BY <1>1, <1>5, <1>6 DEF RequestFits, Making
<1>8. /\ \A b \in Assets : RequestFits(b)'
      /\ \A b \in Assets \ {a} : RowAt(b)' = RowAt(b) /\ Made(b)' = Made(b)
  BY <1>6, <1>7, OthersStay
<1>9. RowAt(a)' = RowAt(a) /\ ~Made(a)'
  BY <1>1, <1>5, <1>6 DEF RowAt, Made, Making
<1>10. "race" \notin mishap => \A b \in Assets \ {a} : RowAt(b).file # entry.file
  BY <1>1, <1>2 DEF AssetInv, DeletesAlone
<1>11. \A b \in Assets : RowAt(b).file \in FileNames \cup {NoObject} /\ RowAt(b).shard \in ShardNames \cup {NoObject}
  BY RowsDiffer DEF AssetInv, AssetTypes, AssetRequests, RowAt
<1>12. entry.file \in FileNames /\ entry.shard \in ShardNames
  BY <1>1, RowsDiffer
<1>13. FilesAreNew'
  BY <1>5, <1>6, <1>8, <1>9 DEF AssetInv, FilesAreNew
<1>14. OneShard' /\ OneFile'
  BY <1>3, <1>8, <1>9 DEF AssetInv, OneShard, OneFile, OnS3
<1>15. DeletesAlone'
  BY <1>1, <1>2, <1>3, <1>5, <1>6, <1>8, <1>9, <1>10 DEF AssetInv, DeletesAlone
<1>16. ClonesHaveSource'
  BY <1>2, <1>3, <1>5, <1>6 DEF AssetInv, ClonesHaveSource
<1>17. PutsOnS3'
  BY <1>3 DEF AssetInv, PutsOnS3, OnS3
<1>18. FilesThere'
  BY <1>3, <1>8, <1>9, <1>10, <1>11, <1>12, NamesDiffer DEF AssetInv, FilesThere
<1>19. ShardsThere'
  <2>1. mishap \cap {"race", "torn", "named"} = {} => \A b \in Assets \ {a} : RowAt(b).shard # entry.shard
    BY <1>1, <1>10, <1>12, NamesDiffer DEF AssetInv, OneFile
  <2> QED
    BY <1>3, <1>8, <1>9, <1>11, <1>12, <2>1, NamesDiffer DEF AssetInv, ShardsThere
<1>20. ObjectsHeld'
  BY <1>1, <1>3, <1>6, <1>8 DEF AssetInv, ObjectsHeld
<1> QED
  BY <1>6, <1>8, <1>13, <1>14, <1>15, <1>16, <1>17, <1>18, <1>19, <1>20 DEF AssetInv

LEMMA AssetsUnlink ==
    ASSUME AssetInv, UNCHANGED store, NEW a \in Assets, Unlink(a)
    PROVE  AssetInv'
<1> DEFINE entry == request[a].row
<1>1. request[a].step = "unlink" /\ UNCHANGED <<tasks, asset>>
  BY DEF Unlink
<1>2. request[a].kind = "delete" /\ request[a].row = asset[a]
  BY <1>1 DEF AssetInv, AssetTypes, AssetRequests, RequestFits, Making, Request, New, Quiet
<1>3. ASSUME NEW stay \in SUBSET {entry.file, entry.shard}, request' = Go(a, "drop"),
             objects' = objects \ ({entry.file, entry.shard} \ stay),
             mishap' = Mishap("kept", stay # {})
      PROVE  AssetInv'
  BY <1>1, <1>3, AssetsUnlinked
<1>4. ASSUME NEW gone \in SUBSET {entry.shard}, objects' = objects \ gone,
             mishap' = Mishap("torn", gone # {}), request' = Done(a)
      PROVE  AssetInv'
  <2>1. /\ mishap' \subseteq {"race", "named", "torn", "left", "kept"} /\ mishap \subseteq mishap'
        /\ "torn" \notin mishap' => gone = {}
        /\ \A x : x # "torn" => (x \in mishap' <=> x \in mishap)
    <3> DEFINE holds == gone # {}
    <3>1. mishap' = Mishap("torn", holds)
      BY <1>4
    <3> HIDE DEF holds
    <3>2. "torn" \notin mishap' => ~holds
      BY <3>1, MishapCounts DEF AssetInv
    <3>3. /\ mishap' \subseteq {"race", "named", "torn", "left", "kept"} /\ mishap \subseteq mishap'
          /\ \A x : x # "torn" => (x \in mishap' <=> x \in mishap)
      BY <3>1, MishapCounts DEF AssetInv
    <3> QED
      BY <3>2, <3>3 DEF holds
  <2>2. /\ AssetTypes' /\ request'[a] = Quiet /\ Quiet.step = "idle"
        /\ \A b \in Assets : RequestFits(b)' /\ RowAt(b)' = RowAt(b)
        /\ \A b \in Assets \ {a} : Made(b)' = Made(b) /\ request'[b] = request[b]
        /\ RowAt(a) = asset[a] /\ asset[a] \in WholeRows
        /\ FilesAreNew' /\ OneShard' /\ OneFile' /\ DeletesAlone' /\ ClonesHaveSource' /\ PutsOnS3'
    BY <1>1, <1>2, <1>4, <2>1, RowStays
  <2>3. ObjectsHeld'
    BY <1>4, <2>1, <2>2 DEF AssetInv, ObjectsHeld
  <2>4. FilesThere' /\ ShardsThere'
    <3>1. Made(a)
      BY <1>1 DEF Made
    <3> QED
      BY <1>4, <2>1, <2>2, <3>1 DEF AssetInv, FilesThere, ShardsThere
  <2> QED
    BY <2>2, <2>3, <2>4 DEF AssetInv
<1> QED
  BY <1>3, <1>4 DEF Unlink

LEMMA AssetsDropRow ==
    ASSUME AssetInv, UNCHANGED store, NEW a \in Assets, DropRow(a)
    PROVE  AssetInv'
<1>1. request[a].kind = "delete" /\ request[a].step = "drop"
  BY DEF DropRow, AssetInv, AssetTypes, AssetRequests, RequestFits, Making, Request, New, Quiet
<1>2. request' = Done(a) /\ UNCHANGED <<tasks, objects>>
  BY DEF DropRow
<1>3. CASE asset' = [asset EXCEPT ![a] = NoRow] /\ UNCHANGED mishap
  <2>1. /\ AssetTypes' /\ RowAt(a)' = NoRow /\ request'[a] = Quiet
        /\ \A b \in Assets : RequestFits(b)'
        /\ \A b \in Assets \ {a} : /\ RowAt(b)' = RowAt(b) /\ Made(b)' = Made(b)
                                   /\ request'[b] = request[b]
        /\ FilesAreNew' /\ OneShard' /\ OneFile' /\ DeletesAlone' /\ ClonesHaveSource' /\ PutsOnS3'
    BY <1>1, <1>2, <1>3, RowGoes DEF AssetInv, AssetTypes
  <2>2. FilesThere' /\ ShardsThere'
    BY <1>2, <1>3, <2>1, RowsDiffer DEF AssetInv, FilesThere, ShardsThere
  <2>3. ObjectsHeld'
    BY <1>1, <1>2, <1>3, <2>1 DEF AssetInv, ObjectsHeld
  <2> QED
    BY <2>1, <2>2, <2>3 DEF AssetInv
<1>4. CASE /\ UNCHANGED asset
           /\ mishap' = Mishap("torn", {asset[a].file, asset[a].shard} \ objects # {})
  <2>1. /\ mishap' \subseteq {"race", "named", "torn", "left", "kept"} /\ mishap \subseteq mishap'
        /\ "torn" \notin mishap' => asset[a].file \in objects /\ asset[a].shard \in objects
        /\ \A x : x # "torn" => (x \in mishap' <=> x \in mishap)
    <3> DEFINE holds == {asset[a].file, asset[a].shard} \ objects # {}
    <3>1. mishap' = Mishap("torn", holds)
      BY <1>4
    <3> HIDE DEF holds
    <3>2. "torn" \notin mishap' => ~holds
      BY <3>1, MishapCounts DEF AssetInv
    <3>3. /\ mishap' \subseteq {"race", "named", "torn", "left", "kept"} /\ mishap \subseteq mishap'
          /\ \A x : x # "torn" => (x \in mishap' <=> x \in mishap)
      BY <3>1, MishapCounts DEF AssetInv
    <3> QED
      BY <3>2, <3>3 DEF holds
  <2>2. /\ AssetTypes' /\ request'[a] = Quiet /\ Quiet.step = "idle"
        /\ \A b \in Assets : RequestFits(b)' /\ RowAt(b)' = RowAt(b)
        /\ \A b \in Assets \ {a} : Made(b)' = Made(b) /\ request'[b] = request[b]
        /\ RowAt(a) = asset[a] /\ asset[a] \in WholeRows
        /\ FilesAreNew' /\ OneShard' /\ OneFile' /\ DeletesAlone' /\ ClonesHaveSource' /\ PutsOnS3'
    BY <1>1, <1>2, <1>4, <2>1, RowStays
  <2>3. ObjectsHeld'
    BY <1>2, <2>1, <2>2 DEF AssetInv, ObjectsHeld
  <2>4. FilesThere' /\ ShardsThere'
    BY <1>2, <2>1, <2>2 DEF AssetInv, FilesThere, ShardsThere
  <2> QED
    BY <2>2, <2>3, <2>4 DEF AssetInv
<1> QED
  BY <1>3, <1>4 DEF DropRow

LEMMA AssetsStep == ASSUME AssetInv, [AssetNext]_assetVars PROVE AssetInv'
<1>1. CASE UNCHANGED assetVars
  BY <1>1
     DEF assetVars, AssetInv, AssetTypes, RequestFits, RowAt, Made, FilesAreNew, OneShard, OneFile,
         DeletesAlone, ClonesHaveSource, PutsOnS3, OnS3, FilesThere, ShardsThere, ObjectsHeld
<1>2. ASSUME UNCHANGED store, NEW a \in Assets, AssetStep(a) PROVE AssetInv'
  BY <1>2, AssetsUpload, AssetsFinalize, AssetsCloneReads, AssetsStoreShards, AssetsInsert,
     AssetsCloneCopies, AssetsDeleteLooks, AssetsUnlink, AssetsDropRow DEF AssetStep
<1> QED
  BY <1>1, <1>2, AssetsClientPuts, AssetsDeleteTask DEF AssetNext

LEMMA AssetsKept == AssetInv => StoreIsKept
<1> SUFFICES ASSUME AssetInv PROVE StoreIsKept
  OBVIOUS
<1>1. RowsAreWhole
  <2> SUFFICES ASSUME NEW a \in Assets, asset[a] # NoRow, request[a].kind # "delete"
               PROVE  /\ asset[a].file \in objects \/ mishap \cap {"race", "torn"} # {}
                      /\ asset[a].shard \in objects \/ mishap \cap {"race", "torn", "named"} # {}
    BY DEF RowsAreWhole, Rows
  <2>1. request[a].kind \notin Making /\ request[a].step \notin {"copy", "drop"}
    BY DEF AssetInv, AssetTypes, AssetRequests, RequestFits, Making, New, Quiet, Request
  <2>2. RowAt(a) = asset[a] /\ Made(a) /\ asset[a] \in WholeRows
    BY <2>1 DEF RowAt, Made, AssetInv, AssetTypes
  <2> QED
    BY <2>2, NamesDiffer, RowsDiffer DEF AssetInv, FilesThere, ShardsThere
<1>2. NoOrphans
  BY DEF AssetInv, ObjectsHeld, NoOrphans, RowAt
<1> QED
  BY <1>1, <1>2 DEF StoreIsKept

\* TaskAssets.StoreIsKept (task_asset_service.py): whatever is uploaded, cloned and deleted by
\* requests that interleave, rows have their files and files their rows, up to the mishaps
\* that the property names; for any numbers of rows, sessions and tasks.
THEOREM FilesAreKept == AssetSpec => []StoreIsKept
  BY AssetsBegin, AssetsStep, AssetsKept, PTL DEF AssetSpec

\* The same in the model that is checked, where the assets are one part among others.
THEOREM FilesAreKeptThere == MCSpec => []AssetsHold
<1>1. MCInit => (part = "assets" => AssetInv)
  BY AssetsBegin DEF MCInit
<1>2. (part = "assets" => AssetInv) /\ [MCNext]_mcVars => (part = "assets" => AssetInv)'
  BY AssetsStep DEF MCNext, mcVars
<1>3. (part = "assets" => AssetInv) => AssetsHold
  BY AssetsKept DEF AssetsHold
<1> QED
  BY <1>1, <1>2, <1>3, PTL DEF MCSpec

-----------------------------------------------------------------------------
(* Deadlines of plan runs *)

LEMMA ItemsTyped ==
    /\ {MinTimeout, Slack, WaitLimit, RetryDelay, Grace, ChildGrace, MaxLate} \subseteq Nat
    /\ \A p \in Plans : /\ p.rounds \in Nat \ {0} /\ p.stages # <<>> /\ p.stages \in Seq(Seq(PlanItems))
                        /\ \A s \in DOMAIN p.stages : p.stages[s] \in Seq(PlanItems)
    /\ \A x \in PlanItems : x.kind \in {"task", "sleep"}
<1>1. \A p \in Plans : p.stages \in Seq(Seq(PlanItems))
  BY DeadlineAssumption
<1>2. \A p \in Plans : \A s \in DOMAIN p.stages : p.stages[s] \in Seq(PlanItems)
  BY <1>1
<1> QED
  BY <1>2, DeadlineAssumption

LEMMA TimesTyped ==
    ASSUME NEW x \in PlanItems, NEW r
    PROVE  /\ Seconds(x, r) \in Nat /\ PollTimeout(x, r) \in Nat /\ TimeoutOf(x, r) \in Nat
           /\ Seconds(x, r) <= TimeoutOf(x, r)
<1>1. Seconds(x, r) \in Nat
  BY DeadlineAssumption DEF Seconds
<1>2. MinTimeout \in Nat /\ Slack \in Nat
  BY ItemsTyped
<1>3. PollTimeout(x, r) \in Nat /\ Seconds(x, r) <= PollTimeout(x, r)
  BY <1>1, <1>2 DEF PollTimeout, Later
<1> QED
  BY <1>1, <1>3 DEF TimeoutOf

LEMMA TimeTyped ==
    ASSUME NEW stage \in Seq(PlanItems), NEW i \in 1..Len(stage), NEW r, NEW limits
    PROVE  stage[i] \in PlanItems /\ TimeOf(stage[i], r, limits) \in Nat
<1>1. stage[i] \in PlanItems
  OBVIOUS
<1> QED
  BY <1>1, TimesTyped DEF TimeOf

StageSums == [wave : Nat, done : Nat]
NoTime == [wave |-> 0, done |-> 0]
LEMMA ItemAdds ==
    ASSUME NEW sum \in StageSums, NEW x, NEW t \in Nat
    PROVE  /\ AddItem(sum, x, t) \in StageSums
           /\ sum.done + sum.wave <= AddItem(sum, x, t).done + AddItem(sum, x, t).wave
           /\ x.kind # "task" => AddItem(sum, x, t) = [wave |-> 0, done |-> sum.done + sum.wave + t]
           /\ x.kind = "task" => AddItem(sum, x, t) = [wave |-> Later(sum.wave, t), done |-> sum.done]
<1>1. sum.wave \in Nat /\ sum.done \in Nat /\ sum = [wave |-> sum.wave, done |-> sum.done]
  BY DEF StageSums
<1>2. Later(sum.wave, t) \in Nat /\ sum.wave <= Later(sum.wave, t)
  BY <1>1 DEF Later
<1>3. CASE x.kind = "task"
  <2>1. AddItem(sum, x, t) = [wave |-> Later(sum.wave, t), done |-> sum.done]
    BY <1>1, <1>3 DEF AddItem
  <2> QED
    BY <1>1, <1>2, <1>3, <2>1 DEF StageSums
<1>4. CASE x.kind # "task"
  <2>1. AddItem(sum, x, t) = [wave |-> 0, done |-> sum.done + sum.wave + t]
    BY <1>4 DEF AddItem
  <2> QED
    BY <1>1, <1>4, <2>1 DEF StageSums
<1> QED
  BY <1>3, <1>4

\* The function behind the fold of a stage, and the sums of its first items.
IsTotal(stage, r, limits, h) ==
    h = [T \in SUBSET (DOMAIN stage) |->
            IF T = {} THEN NoTime
            ELSE AddItem(h[T \ {Max(T)}], stage[Max(T)], TimeOf(stage[Max(T)], r, limits))]
Steps(stage, r, limits, f) ==
    /\ f \in [0..Len(stage) -> StageSums] /\ f[0] = NoTime
    /\ \A i \in 1..Len(stage) : f[i] = AddItem(f[i - 1], stage[i], TimeOf(stage[i], r, limits))
    /\ StageTime(stage, r, limits) = f[Len(stage)].done + f[Len(stage)].wave

LEMMA StageFold ==
    ASSUME NEW stage \in Seq(PlanItems), NEW r, NEW limits
    PROVE  \E f : Steps(stage, r, limits, f)
<1> DEFINE n == Len(stage)
           D == StageSums \X (1..n)
           st == [p \in D |-> AddItem(p[1], stage[p[2]], TimeOf(stage[p[2]], r, limits))]
<1>1. /\ n \in Nat /\ DOMAIN stage = 1..n /\ NoTime \in StageSums
      /\ \A i \in 1..n : stage[i] \in PlanItems /\ TimeOf(stage[i], r, limits) \in Nat
  BY TimeTyped DEF NoTime, StageSums
<1>2. st \in [D -> StageSums]
  BY <1>1, ItemAdds
<1>3. \A sum \in StageSums, i \in 1..n :
         st[<<sum, i>>] = AddItem(sum, stage[i], TimeOf(stage[i], r, limits))
  OBVIOUS
<1> HIDE DEF st, n
<1>4. PICK g \in [SUBSET (1..n) -> StageSums] : IsFold(NoTime, n, st, g)
  BY <1>1, <1>2, FoldExists
<1>5. Prefix(NoTime, n, st, g)
  BY <1>1, <1>4, FoldOfPrefixes
<1> DEFINE f == [i \in 0..n |-> g[1..i]]
<1>6. f \in [0..n -> StageSums]
  <2>1. \A i \in 0..n : 1..i \in SUBSET (1..n)
    BY <1>1
  <2> QED
    BY <1>4, <2>1
<1>7. f[0] = NoTime
  BY <1>1, <1>5 DEF Prefix
<1>8. ASSUME NEW i \in 1..n PROVE f[i] = AddItem(f[i - 1], stage[i], TimeOf(stage[i], r, limits))
  <2>1. i \in 0..n /\ i - 1 \in 0..n
    BY <1>1
  <2>2. f[i - 1] \in StageSums /\ f[i - 1] = g[1..(i - 1)] /\ f[i] = g[1..i]
    BY <1>6, <2>1
  <2> QED
    BY <1>3, <1>5, <2>2 DEF Prefix
<1>9. \A T \in SUBSET (1..n) : T # {} =>
         Max(T) \in T /\ Max(T) \in 1..n /\ T \ {Max(T)} \in SUBSET (1..n)
  BY <1>1, SubsetOfInterval
<1>10. IsTotal(stage, r, limits, g)
  <2>1. ASSUME NEW T \in SUBSET (1..n)
        PROVE  g[T] = IF T = {} THEN NoTime
                      ELSE AddItem(g[T \ {Max(T)}], stage[Max(T)], TimeOf(stage[Max(T)], r, limits))
    <3>1. CASE T = {}
      BY <1>4, <3>1 DEF IsFold
    <3>2. CASE T # {}
      <4>1. Max(T) \in 1..n /\ g[T \ {Max(T)}] \in StageSums
        BY <1>4, <1>9, <3>2
      <4> QED
        BY <1>3, <1>4, <3>2, <4>1 DEF IsFold
    <3> QED
      BY <3>1, <3>2
  <2> QED
    BY <1>1, <1>4, <2>1 DEF IsTotal
<1>11. ASSUME NEW h, IsTotal(stage, r, limits, h) PROVE h = g
  <2>1. \A T \in SUBSET (1..n) :
           /\ h[T] = IF T = {} THEN NoTime
                     ELSE AddItem(h[T \ {Max(T)}], stage[Max(T)], TimeOf(stage[Max(T)], r, limits))
           /\ g[T] = IF T = {} THEN NoTime
                     ELSE AddItem(g[T \ {Max(T)}], stage[Max(T)], TimeOf(stage[Max(T)], r, limits))
    BY <1>1, <1>10, <1>11 DEF IsTotal
  <2> DEFINE P == {T \in SUBSET (1..n) : h[T] = g[T]}
  <2>2. ASSUME NEW T \in SUBSET (1..n), \A x \in T : T \ {x} \in P PROVE T \in P
    <3>1. CASE T = {}
      BY <2>1, <3>1
    <3>2. CASE T # {}
      <4>1. h[T \ {Max(T)}] = g[T \ {Max(T)}]
        BY <1>9, <2>2, <3>2
      <4> QED
        BY <2>1, <3>2, <4>1
    <3> QED
      BY <3>1, <3>2
  <2> HIDE DEF P
  <2>3. IsFiniteSet(1..n)
    BY <1>1, FS_Interval
  <2>4. \A T \in SUBSET (1..n) : T \in P
    BY <2>2, <2>3, SubsetInduction
  <2>5. \A T \in SUBSET (1..n) : h[T] = g[T]
    BY <2>4 DEF P
  <2>6. h = [T \in SUBSET (1..n) |-> h[T]]
    BY <1>1, <1>11 DEF IsTotal
  <2> QED
    BY <2>5, <2>6
<1> DEFINE end == (CHOOSE h : IsTotal(stage, r, limits, h))[DOMAIN stage]
<1>12. StageTime(stage, r, limits) = end.done + end.wave
  BY DEF StageTime, FoldLeft, MapThenFoldSet, IsTotal, NoTime
<1>13. (CHOOSE h : IsTotal(stage, r, limits, h)) = g
  BY <1>10, <1>11
<1>14. f[n] = end
  <2>1. end = g[1..n]
    BY <1>1, <1>13
  <2>2. f[n] = g[1..n]
    BY <1>1
  <2> QED
    BY <2>1, <2>2
<1> QED
  BY <1>6, <1>7, <1>8, <1>12, <1>14 DEF Steps, n

\* What the first i items of a stage take.
StepsOf(stage, r, limits) == CHOOSE f : Steps(stage, r, limits, f)
SpentOn(stage, r, limits, i) ==
    StepsOf(stage, r, limits)[i].done + StepsOf(stage, r, limits)[i].wave

LEMMA SpentTyped ==
    ASSUME NEW stage \in Seq(PlanItems), NEW r, NEW limits
    PROVE  /\ Steps(stage, r, limits, StepsOf(stage, r, limits))
           /\ \A i \in 0..Len(stage) : SpentOn(stage, r, limits, i) \in Nat
           /\ SpentOn(stage, r, limits, 0) = 0
           /\ SpentOn(stage, r, limits, Len(stage)) = StageTime(stage, r, limits)
<1>1. Steps(stage, r, limits, StepsOf(stage, r, limits))
  BY StageFold DEF StepsOf
<1> DEFINE f == StepsOf(stage, r, limits)
<1>2. f \in [0..Len(stage) -> StageSums] /\ f[0] = NoTime
  BY <1>1 DEF Steps
<1> HIDE DEF f
<1>3. \A i \in 0..Len(stage) : f[i].done + f[i].wave \in Nat
  BY <1>2 DEF StageSums
<1>4. f[0].done + f[0].wave = 0
  BY <1>2 DEF NoTime
<1> QED
  BY <1>1, <1>3, <1>4 DEF f, SpentOn, Steps

LEMMA SpentGrows ==
    ASSUME NEW stage \in Seq(PlanItems), NEW r, NEW limits,
           NEW i \in 0..Len(stage), NEW j \in 0..Len(stage), i <= j
    PROVE  SpentOn(stage, r, limits, i) <= SpentOn(stage, r, limits, j)
<1> DEFINE f == StepsOf(stage, r, limits)
           t(k) == SpentOn(stage, r, limits, k)
           P == {k \in Nat : i + k <= Len(stage) => t(i) <= t(i + k)}
<1>1. /\ Steps(stage, r, limits, f) /\ Len(stage) \in Nat
      /\ \A k \in 0..Len(stage) : t(k) \in Nat
  BY SpentTyped
<1>2. ASSUME NEW k \in 1..Len(stage) PROVE t(k - 1) <= t(k)
  <2>1. /\ f[k - 1] \in StageSums /\ f[k] = AddItem(f[k - 1], stage[k], TimeOf(stage[k], r, limits))
        /\ TimeOf(stage[k], r, limits) \in Nat
    <3>1. TimeOf(stage[k], r, limits) \in Nat
      BY TimeTyped
    <3> HIDE DEF f
    <3>2. k - 1 \in 0..Len(stage) /\ f \in [0..Len(stage) -> StageSums]
      BY <1>1 DEF Steps
    <3> QED
      BY <1>1, <3>1, <3>2 DEF Steps
  <2> HIDE DEF f
  <2>2. f[k - 1].done + f[k - 1].wave <= f[k].done + f[k].wave
    BY <2>1, ItemAdds
  <2> QED
    BY <2>2 DEF f, SpentOn
<1>3. 0 \in P
  BY <1>1
<1>4. ASSUME NEW k \in Nat, k \in P PROVE k + 1 \in P
  <2> SUFFICES ASSUME i + (k + 1) <= Len(stage) PROVE t(i) <= t(i + (k + 1))
    OBVIOUS
  <2>1. i + k <= Len(stage) /\ i + (k + 1) \in 1..Len(stage) /\ (i + (k + 1)) - 1 = i + k
    BY <1>1
  <2>2. t(i) <= t(i + k) /\ t(i + k) <= t(i + (k + 1))
    BY <1>2, <1>4, <2>1
  <2>3. t(i) \in Nat /\ t(i + k) \in Nat /\ t(i + (k + 1)) \in Nat
    BY <1>1, <2>1
  <2> HIDE DEF t
  <2> QED
    BY <2>2, <2>3
<1> HIDE DEF P
<1>5. j - i \in P
  <2>1. j - i \in Nat
    BY <1>1
  <2> QED
    BY <1>3, <1>4, <2>1, Induction
<1>6. i + (j - i) = j /\ j <= Len(stage)
  BY <1>1
<1> QED
  BY <1>5, <1>6 DEF P

LEMMA SleepTakes ==
    ASSUME NEW stage \in Seq(PlanItems), NEW r, NEW limits, NEW i \in 1..Len(stage),
           stage[i].kind = "sleep"
    PROVE  SpentOn(stage, r, limits, i) = SpentOn(stage, r, limits, i - 1) + Seconds(stage[i], r)
<1> DEFINE f == StepsOf(stage, r, limits)
<1>0. Steps(stage, r, limits, f) /\ i - 1 \in 0..Len(stage) /\ TimeOf(stage[i], r, limits) \in Nat
  BY SpentTyped, TimeTyped
<1>1. f[i - 1] \in StageSums /\ f[i] = AddItem(f[i - 1], stage[i], TimeOf(stage[i], r, limits))
  BY <1>0 DEF Steps
<1>2. TimeOf(stage[i], r, limits) = Seconds(stage[i], r)
  BY DEF TimeOf, TimeoutOf
<1> HIDE DEF f
<1>3. f[i] = [wave |-> 0, done |-> f[i - 1].done + f[i - 1].wave + Seconds(stage[i], r)]
  BY <1>0, <1>1, <1>2, ItemAdds
<1>4. f[i].done + f[i].wave = f[i - 1].done + f[i - 1].wave + Seconds(stage[i], r)
  BY <1>0, <1>1, <1>2, <1>3 DEF StageSums
<1> QED
  BY <1>4 DEF f, SpentOn

\* A batch that begins with the stage or after a sleep takes what its longest run takes.
BeginsBatch(stage, i) == i = 1 \/ stage[i - 1].kind = "sleep"
LEMMA BatchTakes ==
    ASSUME NEW stage \in Seq(PlanItems), NEW r, NEW limits, NEW b \in 1..Len(stage),
           BeginsBatch(stage, b), NEW e \in b + 1..Len(stage) + 1,
           \A j \in b..e - 1 : stage[j].kind = "task"
    PROVE  /\ \A j \in b..e - 1 : SpentOn(stage, r, limits, b - 1) + TimeOf(stage[j], r, limits)
                                  <= SpentOn(stage, r, limits, e - 1)
           /\ \E j \in b..e - 1 : SpentOn(stage, r, limits, b - 1) + TimeOf(stage[j], r, limits)
                                  = SpentOn(stage, r, limits, e - 1)
<1> DEFINE f == StepsOf(stage, r, limits)
           t(j) == TimeOf(stage[j], r, limits)
<1>1. /\ Len(stage) \in Nat /\ f \in [0..Len(stage) -> StageSums]
      /\ \A i \in 1..Len(stage) : f[i] = AddItem(f[i - 1], stage[i], t(i)) /\ t(i) \in Nat
      /\ f[0] = NoTime
  <2>1. Steps(stage, r, limits, f) /\ Len(stage) \in Nat
    BY SpentTyped
  <2>2. \A i \in 1..Len(stage) : t(i) \in Nat
    BY TimeTyped
  <2> HIDE DEF f
  <2> QED
    BY <2>1, <2>2 DEF Steps
<1>2. f[b - 1].wave = 0
  <2>1. CASE b = 1
    BY <1>1, <2>1 DEF NoTime
  <2>2. CASE b # 1
    <3>1. b - 1 \in 1..Len(stage) /\ stage[b - 1].kind # "task" /\ (b - 1) - 1 \in 0..Len(stage)
      BY <1>1, <2>2 DEF BeginsBatch
    <3> HIDE DEF t, f
    <3>2. f[b - 1] = AddItem(f[(b - 1) - 1], stage[b - 1], t(b - 1)) /\ t(b - 1) \in Nat
          /\ f[(b - 1) - 1] \in StageSums
      BY <1>1, <3>1
    <3> QED
      BY <3>1, <3>2, ItemAdds
  <2> QED
    BY <2>1, <2>2
<1> HIDE DEF t, f
<1> DEFINE Covers(m) ==
               /\ f[m].done = f[b - 1].done
               /\ \A j \in b..m : t(j) <= f[m].wave
               /\ \E j \in b..m : t(j) = f[m].wave
           P == {k \in Nat : b + k <= e - 1 => Covers(b + k)}
<1>3. ASSUME NEW m \in b..e - 1
      PROVE  /\ m \in 1..Len(stage) /\ m - 1 \in 0..Len(stage) /\ f[m - 1] \in StageSums /\ t(m) \in Nat
             /\ f[m] = [wave |-> Later(f[m - 1].wave, t(m)), done |-> f[m - 1].done]
  <2>1. m \in 1..Len(stage) /\ m - 1 \in 0..Len(stage) /\ stage[m].kind = "task"
    BY <1>1
  <2>2. f[m - 1] \in StageSums /\ t(m) \in Nat /\ f[m] = AddItem(f[m - 1], stage[m], t(m))
    BY <1>1, <2>1
  <2> QED
    BY <2>1, <2>2, ItemAdds
<1>4. 0 \in P
  <2>1. b \in b..e - 1 /\ b + 0 = b /\ b..b = {b}
    BY <1>1
  <2>2. f[b] = [wave |-> Later(0, t(b)), done |-> f[b - 1].done] /\ t(b) \in Nat
    BY <1>2, <1>3, <2>1
  <2>3. f[b].wave = t(b) /\ f[b].done = f[b - 1].done
    BY <2>2 DEF Later
  <2>4. Covers(b)
    BY <2>1, <2>2, <2>3
  <2> QED
    BY <2>1, <2>4
<1>5. ASSUME NEW k \in Nat, k \in P PROVE k + 1 \in P
  <2> SUFFICES ASSUME b + (k + 1) <= e - 1 PROVE Covers(b + (k + 1))
    OBVIOUS
  <2> DEFINE m == b + k
  <2>1. m \in b..e - 1 /\ m + 1 \in b..e - 1 /\ (m + 1) - 1 = m /\ b + (k + 1) = m + 1 /\ m \in Nat
    BY <1>1
  <2>2. Covers(m)
    BY <1>1, <1>5, <2>1
  <2> HIDE DEF m
  <2>3. f[m] \in StageSums /\ t(m + 1) \in Nat
        /\ f[m + 1] = [wave |-> Later(f[m].wave, t(m + 1)), done |-> f[m].done]
    BY <1>3, <2>1
  <2>4. f[m + 1].done = f[b - 1].done /\ f[m].wave \in Nat
        /\ f[m + 1].wave = Later(f[m].wave, t(m + 1))
    BY <2>2, <2>3 DEF StageSums
  <2>5. ASSUME NEW j \in b..m + 1 PROVE t(j) <= f[m + 1].wave
    <3>1. CASE j = m + 1
      BY <2>3, <2>4, <3>1 DEF Later
    <3>2. CASE j # m + 1
      <4>1. j \in b..m /\ j \in b..e - 1
        BY <1>1, <2>1, <3>2
      <4>2. t(j) <= f[m].wave /\ t(j) \in Nat
        BY <1>3, <2>2, <4>1
      <4> QED
        BY <2>3, <2>4, <4>2 DEF Later
    <3> QED
      BY <3>1, <3>2
  <2>6. \E j \in b..m + 1 : t(j) = f[m + 1].wave
    <3>1. CASE f[m + 1].wave = t(m + 1)
      BY <1>1, <2>1, <3>1
    <3>2. CASE f[m + 1].wave # t(m + 1)
      <4>1. f[m + 1].wave = f[m].wave
        BY <2>4, <3>2 DEF Later
      <4> QED
        BY <1>1, <2>1, <2>2, <4>1
    <3> QED
      BY <3>1, <3>2
  <2>7. Covers(m + 1)
    BY <2>4, <2>5, <2>6
  <2> QED
    BY <2>1, <2>7
<1> DEFINE k == (e - 1) - b
<1>6. k \in Nat /\ b + k = e - 1 /\ e - 1 \in b..e - 1
  BY <1>1
<1> HIDE DEF P
<1>7. k \in P
  <2> HIDE DEF k
  <2> QED
    BY <1>4, <1>5, <1>6, Induction
<1> HIDE DEF k
<1>8. Covers(e - 1)
  <2> HIDE DEF Covers
  <2>1. b + k <= e - 1
    BY <1>1, <1>6
  <2>2. Covers(b + k)
    BY <1>7, <2>1 DEF P
  <2> QED
    BY <1>6, <2>2
<1>9. /\ SpentOn(stage, r, limits, b - 1) = f[b - 1].done + f[b - 1].wave
      /\ SpentOn(stage, r, limits, e - 1) = f[e - 1].done + f[e - 1].wave
  BY DEF SpentOn, f
<1>10. /\ b - 1 \in 0..Len(stage) /\ e - 1 \in 0..Len(stage)
       /\ \A j \in b..e - 1 : t(j) \in Nat
  BY <1>1, <1>3
<1>11. f[b - 1].done \in Nat /\ f[e - 1].wave \in Nat
  BY <1>1, <1>10 DEF StageSums
<1>12. ASSUME NEW j \in b..e - 1
       PROVE  SpentOn(stage, r, limits, b - 1) + t(j) <= SpentOn(stage, r, limits, e - 1)
  <2>1. t(j) <= f[e - 1].wave /\ f[e - 1].done = f[b - 1].done /\ t(j) \in Nat
    BY <1>8, <1>10
  <2> QED
    BY <1>2, <1>9, <1>11, <2>1
<1>13. \E j \in b..e - 1 : SpentOn(stage, r, limits, b - 1) + t(j) = SpentOn(stage, r, limits, e - 1)
  <2>1. PICK j \in b..e - 1 : t(j) = f[e - 1].wave
    BY <1>8
  <2>2. f[e - 1].done = f[b - 1].done
    BY <1>8
  <2>3. SpentOn(stage, r, limits, b - 1) + t(j) = SpentOn(stage, r, limits, e - 1)
    BY <1>2, <1>9, <1>11, <2>1, <2>2
  <2> QED
    BY <2>3
<1> QED
  BY <1>12, <1>13 DEF t

\* What the rounds, and the stages of a round, take.
StageTimes(p, r, limits) == [s \in DOMAIN p.stages |-> StageTime(p.stages[s], r, limits)]
RoundTimes(p, limits) ==
    [r \in 1..p.rounds |-> SumFunctionOnSet(StageTimes(p, r, limits), DOMAIN p.stages)]
BeforeStage(p, r, s, limits) == SumFunctionOnSet(StageTimes(p, r, limits), 1..s - 1)
BeforeRound(p, r, limits) == SumFunctionOnSet(RoundTimes(p, limits), 1..r - 1)
\* The time planned up to a place of the executor.
Planned(p, a, limits) ==
    BeforeRound(p, a.round, limits) + BeforeStage(p, a.round, a.stage, limits)
    + SpentOn(p.stages[a.stage], a.round, limits, a.item - 1)

LEMMA SumGoesOn ==
    ASSUME NEW n \in Nat, NEW f, Natural(f, 1..n), NEW k \in 1..n
    PROVE  /\ SumFunctionOnSet(f, 1..k - 1) \in Nat /\ f[k] \in Nat
           /\ SumFunctionOnSet(f, 1..k) = SumFunctionOnSet(f, 1..k - 1) + f[k]
           /\ SumFunctionOnSet(f, 1..k) <= SumFunctionOnSet(f, 1..n)
           /\ SumFunctionOnSet(f, 1..n) \in Nat
<1>1. IsFiniteSet(1..k) /\ IsFiniteSet(1..n) /\ IsFiniteSet(1..k - 1)
  BY FS_Interval
<1>2. /\ Natural(f, 1..k) /\ Natural(f, 1..k - 1) /\ 1..k \in SUBSET (1..n) /\ k \in 1..k
      /\ (1..k) \ {k} = 1..k - 1
  BY DEF Natural
<1>3. Counts(f, 1..k) /\ SumFunctionOnSet(f, 1..k - 1) \in Nat /\ SumFunctionOnSet(f, 1..n) \in Nat
  BY <1>1, <1>2, SumNat
<1>4. SumFunctionOnSet(f, 1..k) <= SumFunctionOnSet(f, 1..n)
  BY <1>1, <1>2, SumOfPart
<1>5. SumWithout(f, 1..k, k)
  BY <1>1, <1>2, <1>3, SumRemove
<1>6. f[k] \in Nat
  BY DEF Natural
<1>7. SumFunctionOnSet(f, 1..k) = SumFunctionOnSet(f, 1..k - 1) + f[k]
  <2> DEFINE R == (1..k) \ {k}
  <2>1. R = 1..k - 1
    BY <1>2
  <2>2. SumFunctionOnSet(f, 1..k) = f[k] + SumFunctionOnSet(f, R)
    BY <1>5 DEF SumWithout
  <2> HIDE DEF R
  <2> QED
    BY <1>3, <1>6, <2>1, <2>2
<1> QED
  BY <1>3, <1>4, <1>6, <1>7

LEMMA PlanTimes ==
    ASSUME NEW p \in Plans, NEW limits
    PROVE  /\ p.rounds \in Nat \ {0} /\ Len(p.stages) \in Nat \ {0} /\ DOMAIN p.stages = 1..Len(p.stages)
           /\ \A s \in 1..Len(p.stages) : p.stages[s] \in Seq(PlanItems)
           /\ \A r : Natural(StageTimes(p, r, limits), 1..Len(p.stages))
           /\ Natural(RoundTimes(p, limits), 1..p.rounds)
<1>1. /\ p.rounds \in Nat \ {0} /\ p.stages # <<>> /\ p.stages \in Seq(Seq(PlanItems))
      /\ \A s \in DOMAIN p.stages : p.stages[s] \in Seq(PlanItems)
  BY ItemsTyped
<1>2. Len(p.stages) \in Nat \ {0} /\ DOMAIN p.stages = 1..Len(p.stages)
  BY <1>1
<1>3. \A s \in 1..Len(p.stages) : p.stages[s] \in Seq(PlanItems)
  BY <1>1, <1>2
<1>4. ASSUME NEW s \in 1..Len(p.stages), NEW r PROVE StageTime(p.stages[s], r, limits) \in Nat
  <2>1. p.stages[s] \in Seq(PlanItems) /\ Len(p.stages[s]) \in Nat
    BY <1>3
  <2>2. Len(p.stages[s]) \in 0..Len(p.stages[s])
    BY <2>1
  <2> QED
    BY <2>1, <2>2, SpentTyped
<1>5. \A r : Natural(StageTimes(p, r, limits), 1..Len(p.stages))
  BY <1>2, <1>4 DEF Natural, StageTimes
<1>6. \A r : SumFunctionOnSet(StageTimes(p, r, limits), DOMAIN p.stages) \in Nat
  <2>1. IsFiniteSet(DOMAIN p.stages) /\ \A r : Natural(StageTimes(p, r, limits), DOMAIN p.stages)
    BY <1>2, <1>5, FS_Interval
  <2> QED
    BY <2>1, SumNat
<1>7. Natural(RoundTimes(p, limits), 1..p.rounds)
  BY <1>6 DEF Natural, RoundTimes
<1> QED
  BY <1>1, <1>2, <1>3, <1>5, <1>7

Places(p) == [round : 1..p.rounds, stage : 1..Len(p.stages), item : Nat \ {0}, abort : BOOLEAN]

\* Up to the end of a stage and of a round.
LEMMA PlannedTyped ==
    ASSUME NEW p \in Plans, NEW limits, NEW r \in 1..p.rounds, NEW s \in 1..Len(p.stages)
    PROVE  /\ BeforeRound(p, r, limits) \in Nat /\ BeforeStage(p, r, s, limits) \in Nat
           /\ StageTime(p.stages[s], r, limits) \in Nat
           /\ BeforeStage(p, r, s + 1, limits) = BeforeStage(p, r, s, limits) + StageTime(p.stages[s], r, limits)
           /\ BeforeRound(p, r, limits) + BeforeStage(p, r, s + 1, limits) <= BeforeRound(p, r + 1, limits)
           /\ BeforeRound(p, r, limits) + BeforeStage(p, r, Len(p.stages) + 1, limits) = BeforeRound(p, r + 1, limits)
           /\ BeforeStage(p, r, 1, limits) = 0 /\ BeforeRound(p, 1, limits) = 0
           /\ BeforeRound(p, r + 1, limits) \in Nat
           /\ BeforeRound(p, r + 1, limits) <= BeforeRound(p, p.rounds + 1, limits)
<1> DEFINE n == Len(p.stages)
           f == StageTimes(p, r, limits)
           g == RoundTimes(p, limits)
<1>1. /\ n \in Nat \ {0} /\ p.rounds \in Nat \ {0} /\ DOMAIN p.stages = 1..n
      /\ Natural(f, 1..n) /\ Natural(g, 1..p.rounds)
  BY PlanTimes
<1>2. g[r] = SumFunctionOnSet(f, 1..n) /\ f[s] = StageTime(p.stages[s], r, limits)
  BY <1>1 DEF RoundTimes, StageTimes
<1>3. /\ BeforeStage(p, r, s, limits) = SumFunctionOnSet(f, 1..s - 1)
      /\ BeforeStage(p, r, s + 1, limits) = SumFunctionOnSet(f, 1..s)
      /\ BeforeStage(p, r, n + 1, limits) = SumFunctionOnSet(f, 1..n)
      /\ BeforeStage(p, r, 1, limits) = SumFunctionOnSet(f, {})
  <2>1. (s + 1) - 1 = s /\ (n + 1) - 1 = n /\ 1..1 - 1 = {}
    BY <1>1
  <2> HIDE DEF n
  <2> QED
    BY <2>1 DEF BeforeStage
<1>4. /\ BeforeRound(p, r, limits) = SumFunctionOnSet(g, 1..r - 1)
      /\ BeforeRound(p, r + 1, limits) = SumFunctionOnSet(g, 1..r)
      /\ BeforeRound(p, p.rounds + 1, limits) = SumFunctionOnSet(g, 1..p.rounds)
      /\ BeforeRound(p, 1, limits) = SumFunctionOnSet(g, {})
  <2>1. (r + 1) - 1 = r /\ (p.rounds + 1) - 1 = p.rounds /\ 1..1 - 1 = {}
    BY <1>1
  <2> QED
    BY <2>1 DEF BeforeRound
<1> HIDE DEF f, g, n
<1>5. SumFunctionOnSet(f, {}) = 0 /\ SumFunctionOnSet(g, {}) = 0
  BY SumEmpty
<1>6. s \in 1..n /\ n \in Nat /\ p.rounds \in Nat
  BY <1>1 DEF n
<1>7. /\ SumFunctionOnSet(f, 1..s - 1) \in Nat /\ f[s] \in Nat
      /\ SumFunctionOnSet(f, 1..s) = SumFunctionOnSet(f, 1..s - 1) + f[s]
      /\ SumFunctionOnSet(f, 1..s) <= SumFunctionOnSet(f, 1..n)
      /\ SumFunctionOnSet(f, 1..n) \in Nat
  BY <1>1, <1>6, SumGoesOn
<1>8. /\ SumFunctionOnSet(g, 1..r - 1) \in Nat /\ g[r] \in Nat
      /\ SumFunctionOnSet(g, 1..r) = SumFunctionOnSet(g, 1..r - 1) + g[r]
      /\ SumFunctionOnSet(g, 1..r) <= SumFunctionOnSet(g, 1..p.rounds)
  BY <1>1, <1>6, SumGoesOn
<1>9. /\ BeforeRound(p, r, limits) \in Nat /\ BeforeStage(p, r, s, limits) \in Nat
      /\ StageTime(p.stages[s], r, limits) \in Nat
      /\ BeforeStage(p, r, s + 1, limits) = BeforeStage(p, r, s, limits) + StageTime(p.stages[s], r, limits)
  BY <1>2, <1>3, <1>4, <1>7, <1>8
<1>10. /\ BeforeRound(p, r, limits) + BeforeStage(p, r, n + 1, limits) = BeforeRound(p, r + 1, limits)
       /\ BeforeStage(p, r, 1, limits) = 0 /\ BeforeRound(p, 1, limits) = 0
       /\ BeforeRound(p, r + 1, limits) \in Nat
       /\ BeforeRound(p, r + 1, limits) <= BeforeRound(p, p.rounds + 1, limits)
  BY <1>2, <1>3, <1>4, <1>5, <1>7, <1>8
<1>11. BeforeRound(p, r, limits) + BeforeStage(p, r, s + 1, limits) <= BeforeRound(p, r + 1, limits)
  BY <1>2, <1>3, <1>4, <1>7, <1>8
<1> QED
  BY <1>9, <1>10, <1>11 DEF n

LEMMA PlanTimeIs ==
    ASSUME plan \in Plans, NEW limits
    PROVE  PlanTime(limits) = BeforeRound(plan, plan.rounds + 1, limits)
<1>1. plan.rounds \in Nat /\ (plan.rounds + 1) - 1 = plan.rounds
  BY PlanTimes
<1>2. \A f : SumFunction(f) = SumFunctionOnSet(f, DOMAIN f)
  BY DEF SumFunction, SumFunctionOnSet, FoldFunction
<1>3. \A r : RoundTime(r, limits) = SumFunctionOnSet(StageTimes(plan, r, limits), DOMAIN plan.stages)
  BY <1>2 DEF RoundTime, StageTimes
<1>4. [r \in 1..plan.rounds |-> RoundTime(r, limits)] = RoundTimes(plan, limits)
  BY <1>3 DEF RoundTimes
<1>5. PlanTime(limits) = SumFunctionOnSet(RoundTimes(plan, limits), 1..plan.rounds)
  <2>1. DOMAIN RoundTimes(plan, limits) = 1..plan.rounds
    BY DEF RoundTimes
  <2>2. PlanTime(limits) = SumFunction(RoundTimes(plan, limits))
    BY <1>4 DEF PlanTime
  <2> QED
    BY <1>2, <2>1, <2>2
<1> QED
  BY <1>1, <1>5 DEF BeforeRound

LEMMA PlaceTyped ==
    ASSUME NEW p \in Plans, NEW a \in Places(p), NEW limits, a.item <= Len(p.stages[a.stage]) + 1
    PROVE  /\ a.round \in 1..p.rounds /\ a.stage \in 1..Len(p.stages)
           /\ p.stages[a.stage] \in Seq(PlanItems) /\ Len(p.stages[a.stage]) \in Nat
           /\ a.item \in 1..Len(p.stages[a.stage]) + 1 /\ a.item - 1 \in 0..Len(p.stages[a.stage])
           /\ SpentOn(p.stages[a.stage], a.round, limits, a.item - 1) \in Nat
           /\ BeforeRound(p, a.round, limits) \in Nat /\ BeforeStage(p, a.round, a.stage, limits) \in Nat
           /\ Planned(p, a, limits) \in Nat
<1>1. /\ a.round \in 1..p.rounds /\ a.stage \in 1..Len(p.stages) /\ a.item \in Nat \ {0}
  BY DEF Places
<1>2. p.stages[a.stage] \in Seq(PlanItems) /\ Len(p.stages[a.stage]) \in Nat
  BY <1>1, PlanTimes
<1>3. a.item \in 1..Len(p.stages[a.stage]) + 1 /\ a.item - 1 \in 0..Len(p.stages[a.stage])
  BY <1>1, <1>2
<1>4. SpentOn(p.stages[a.stage], a.round, limits, a.item - 1) \in Nat
  BY <1>2, <1>3, SpentTyped
<1>5. BeforeRound(p, a.round, limits) \in Nat /\ BeforeStage(p, a.round, a.stage, limits) \in Nat
  BY <1>1, PlannedTyped
<1> QED
  BY <1>1, <1>2, <1>3, <1>4, <1>5 DEF Planned

\* Behind the last item of a stage, of a round, of the plan; and before the first.
LEMMA PlaceEnds ==
    ASSUME NEW p \in Plans, NEW a \in Places(p), NEW limits, a.item <= Len(p.stages[a.stage]) + 1
    PROVE  /\ Planned(p, a, limits) <= BeforeRound(p, a.round + 1, limits)
           /\ BeforeRound(p, a.round + 1, limits) \in Nat
           /\ BeforeRound(p, a.round + 1, limits) <= BeforeRound(p, p.rounds + 1, limits)
           /\ BeforeRound(p, p.rounds + 1, limits) \in Nat
           /\ a.item = Len(p.stages[a.stage]) + 1 =>
                 /\ Planned(p, a, limits)
                    = BeforeRound(p, a.round, limits) + BeforeStage(p, a.round, a.stage + 1, limits)
                 /\ a.stage = Len(p.stages) => Planned(p, a, limits) = BeforeRound(p, a.round + 1, limits)
<1> DEFINE stage == p.stages[a.stage]
           r == a.round
           s == a.stage
<1>1. /\ r \in 1..p.rounds /\ s \in 1..Len(p.stages) /\ stage \in Seq(PlanItems) /\ Len(stage) \in Nat
      /\ a.item - 1 \in 0..Len(stage) /\ a.item \in Nat
      /\ SpentOn(stage, r, limits, a.item - 1) \in Nat
      /\ BeforeRound(p, r, limits) \in Nat /\ BeforeStage(p, r, s, limits) \in Nat
  BY PlaceTyped DEF Places
<1>2. /\ SpentOn(stage, r, limits, Len(stage)) = StageTime(stage, r, limits)
      /\ SpentOn(stage, r, limits, a.item - 1) <= SpentOn(stage, r, limits, Len(stage))
  <2>1. Len(stage) \in 0..Len(stage) /\ a.item - 1 <= Len(stage)
    BY <1>1
  <2> HIDE DEF stage, r, s
  <2> QED
    BY <1>1, <2>1, SpentTyped, SpentGrows
<1>3. /\ StageTime(stage, r, limits) \in Nat
      /\ BeforeStage(p, r, s + 1, limits) = BeforeStage(p, r, s, limits) + StageTime(stage, r, limits)
      /\ BeforeRound(p, r, limits) + BeforeStage(p, r, s + 1, limits) <= BeforeRound(p, r + 1, limits)
      /\ BeforeRound(p, r, limits) + BeforeStage(p, r, Len(p.stages) + 1, limits) = BeforeRound(p, r + 1, limits)
      /\ BeforeRound(p, r + 1, limits) \in Nat
      /\ BeforeRound(p, r + 1, limits) <= BeforeRound(p, p.rounds + 1, limits)
  BY <1>1, PlannedTyped
<1>4. Planned(p, a, limits)
      = BeforeRound(p, r, limits) + BeforeStage(p, r, s, limits) + SpentOn(stage, r, limits, a.item - 1)
  BY DEF Planned
<1>5. BeforeRound(p, p.rounds + 1, limits) \in Nat
  <2>1. p.rounds \in 1..p.rounds /\ 1 \in 1..Len(p.stages)
    BY PlanTimes
  <2> QED
    BY <2>1, PlannedTyped
<1> HIDE DEF stage, r, s
<1>6. Planned(p, a, limits) <= BeforeRound(p, r + 1, limits)
  BY <1>1, <1>2, <1>3, <1>4
<1>7. ASSUME a.item = Len(stage) + 1
      PROVE  Planned(p, a, limits) = BeforeRound(p, r, limits) + BeforeStage(p, r, s + 1, limits)
  <2>1. a.item - 1 = Len(stage)
    BY <1>1, <1>7
  <2> QED
    BY <1>1, <1>2, <1>3, <1>4, <2>1
<1>8. ASSUME a.item = Len(stage) + 1, s = Len(p.stages)
      PROVE  Planned(p, a, limits) = BeforeRound(p, r + 1, limits)
  BY <1>3, <1>7, <1>8
<1> QED
  BY <1>3, <1>5, <1>6, <1>7, <1>8 DEF stage, r, s

LEMMA PlaceBegins ==
    ASSUME NEW p \in Plans, NEW limits, NEW a \in Places(p), a.item = 1
    PROVE  /\ Planned(p, a, limits)
              = BeforeRound(p, a.round, limits) + BeforeStage(p, a.round, a.stage, limits)
           /\ a.stage = 1 => Planned(p, a, limits) = BeforeRound(p, a.round, limits)
<1>1. a.round \in 1..p.rounds /\ a.stage \in 1..Len(p.stages) /\ a.item - 1 = 0
  BY DEF Places
<1>2. p.stages[a.stage] \in Seq(PlanItems)
  BY <1>1, PlanTimes
<1>3. SpentOn(p.stages[a.stage], a.round, limits, 0) = 0
  BY <1>2, SpentTyped
<1>4. BeforeRound(p, a.round, limits) \in Nat /\ BeforeStage(p, a.round, a.stage, limits) \in Nat
      /\ BeforeStage(p, a.round, 1, limits) = 0
  BY <1>1, PlannedTyped
<1>5. Planned(p, a, limits)
      = BeforeRound(p, a.round, limits) + BeforeStage(p, a.round, a.stage, limits) + 0
  BY <1>1, <1>3 DEF Planned
<1> QED
  BY <1>4, <1>5

\* The executor keeps to the plan.

WaveRuns == [item : Nat \ {0}, since : Nat, tries : Nat, status : {"active", "succeeded", "failed"}]
\* The executor stands before a batch or a sleep, or behind the last item.
Parted ==
    at.item = 1 \/ at.item > Len(Stage) \/ Stage[at.item].kind = "sleep" \/ Stage[at.item - 1].kind = "sleep"
DeadlineTypes ==
    /\ plan \in Plans /\ now \in Nat /\ until \in Nat /\ late \in 0..MaxLate
    /\ history \subseteq {"retried", "failed", "uneven"}
    /\ phase \in {"next", "waiting", "pause", "sleeping", "ended", "timed_out"}
    /\ at \in Places(plan) /\ at.item <= Len(Stage) + 1 /\ Parted
    /\ wave \in Seq(WaveRuns) /\ \A n \in DOMAIN wave : wave[n].item <= Len(Stage)
    /\ phase \in {"waiting", "pause"} => wave # <<>>
    /\ phase \in {"next", "sleeping", "ended"} => wave = <<>>
\* Nothing is later than the timeouts of the plan so far allow, by more than others were late.
OnTime ==
    "retried" \notin history =>
        /\ phase # "pause"
        /\ phase \in {"next", "waiting", "sleeping"} => now <= Planned(plan, at, TRUE) + late
        /\ phase = "sleeping" => until <= Planned(plan, at, TRUE) + late
        /\ phase = "waiting" =>
              \A n \in DOMAIN wave : wave[n].since + Limit(wave[n]) <= Planned(plan, at, TRUE) + late
        /\ phase = "timed_out" => late >= Grace
\* What everything takes if nothing fails and nobody is late.
EndOf(run) == run.since + Seconds(Stage[run.item], at.round)
WaveToPlan(end) ==
    /\ \A n \in DOMAIN wave :
          /\ wave[n].since <= now /\ EndOf(wave[n]) <= end
          /\ ~Active(wave[n]) => wave[n].status = "succeeded" /\ EndOf(wave[n]) <= now
    /\ ~Active(wave[1]) => now <= end
    /\ (\E n \in DOMAIN wave : EndOf(wave[n]) = end) \/ end <= now
ToPlan ==
    history = {} /\ late = 0 =>
        /\ ~at.abort
        /\ phase = "next" => now = Planned(plan, at, FALSE)
        /\ phase = "sleeping" => until = Planned(plan, at, FALSE) /\ now <= until
        /\ phase = "waiting" => WaveToPlan(Planned(plan, at, FALSE))
        /\ phase = "ended" => now = PlanTime(FALSE)
DeadlineInv == DeadlineTypes /\ OnTime /\ ToPlan

LEMMA StageTyped ==
    ASSUME DeadlineTypes
    PROVE  /\ Stage = plan.stages[at.stage] /\ Stage \in Seq(PlanItems) /\ Len(Stage) \in Nat
           /\ plan.rounds \in Nat /\ Len(plan.stages) \in Nat
           /\ at.round \in 1..plan.rounds /\ at.stage \in 1..Len(plan.stages)
           /\ at.item \in 1..Len(Stage) + 1 /\ at.abort \in BOOLEAN
           /\ \A limits : Planned(plan, at, limits) \in Nat
           /\ \A i \in 1..Len(Stage) : Stage[i] \in PlanItems /\ Stage[i].kind \in {"task", "sleep"}
           /\ MinTimeout \in Nat /\ Slack \in Nat /\ WaitLimit \in Nat /\ RetryDelay \in Nat
           /\ Grace \in Nat /\ ChildGrace \in Nat /\ MaxLate \in Nat /\ late \in Nat
<1>1. plan \in Plans /\ at \in Places(plan) /\ at.item <= Len(plan.stages[at.stage]) + 1 /\ late \in 0..MaxLate
  BY DEF DeadlineTypes, Stage
<1>2. /\ Stage \in Seq(PlanItems) /\ Len(Stage) \in Nat
      /\ at.item \in 1..Len(Stage) + 1 /\ \A limits : Planned(plan, at, limits) \in Nat
  BY <1>1, PlaceTyped DEF Stage
<1>3. \A i \in 1..Len(Stage) : Stage[i] \in PlanItems
  BY <1>2
<1>4. \A x \in PlanItems : x.kind \in {"task", "sleep"}
  BY ItemsTyped
<1>5. plan.rounds \in Nat /\ Len(plan.stages) \in Nat
  BY <1>1, PlanTimes
<1>6. at.round \in 1..plan.rounds /\ at.stage \in 1..Len(plan.stages) /\ at.abort \in BOOLEAN
  BY <1>1 DEF Places
<1>7. /\ MinTimeout \in Nat /\ Slack \in Nat /\ WaitLimit \in Nat /\ RetryDelay \in Nat
      /\ Grace \in Nat /\ ChildGrace \in Nat /\ MaxLate \in Nat
  BY ItemsTyped
<1> QED
  BY <1>1, <1>2, <1>3, <1>4, <1>5, <1>6, <1>7 DEF Stage

LEMMA NextSleepIs ==
    ASSUME DeadlineTypes
    PROVE  /\ NextSleep \in at.item..Len(Stage) + 1
           /\ \A j \in at.item..NextSleep - 1 : Stage[j].kind = "task"
           /\ NextSleep <= Len(Stage) => Stage[NextSleep].kind = "sleep"
<1> DEFINE sleeps == {i \in at.item..Len(Stage) : Stage[i].kind = "sleep"}
<1>1. /\ Len(Stage) \in Nat /\ at.item \in 1..Len(Stage) + 1
      /\ \A i \in 1..Len(Stage) : Stage[i].kind \in {"task", "sleep"}
  BY StageTyped
<1>2. \A j \in at.item..Len(Stage) : j \notin sleeps => Stage[j].kind = "task"
  BY <1>1
<1>3. CASE sleeps = {}
  <2>1. NextSleep = Len(Stage) + 1
    BY <1>3 DEF NextSleep
  <2> QED
    BY <1>1, <1>2, <1>3, <2>1
<1>4. CASE sleeps # {}
  <2>1. sleeps \in SUBSET Nat
    BY <1>1
  <2>2. \E i \in sleeps : \A j \in sleeps : i <= j
    BY <1>4, <2>1, HasLeast
  <2>3. NextSleep = CHOOSE i \in sleeps : \A j \in sleeps : i <= j
    BY <1>4 DEF NextSleep
  <2>4. NextSleep \in sleeps /\ \A j \in sleeps : NextSleep <= j
    BY <2>2, <2>3
  <2>5. ASSUME NEW j \in at.item..NextSleep - 1 PROVE Stage[j].kind = "task"
    <3>1. j \in at.item..Len(Stage) /\ ~(NextSleep <= j)
      BY <1>1, <2>4
    <3> QED
      BY <1>2, <2>4, <3>1
  <2> QED
    BY <1>1, <2>4, <2>5
<1> QED
  BY <1>3, <1>4

LEMMA StartToPlan == DeadlineInit => DeadlineInv
<1> SUFFICES ASSUME DeadlineInit PROVE DeadlineInv
  OBVIOUS
<1>1. /\ plan \in Plans /\ now = 0 /\ phase = "next" /\ until = 0
      /\ at = [round |-> 1, stage |-> 1, item |-> 1, abort |-> FALSE]
      /\ wave = <<>> /\ loose = {} /\ late = 0 /\ history = {}
  BY DEF DeadlineInit
<1>2. plan.rounds \in Nat \ {0} /\ Len(plan.stages) \in Nat \ {0} /\ plan.stages[1] \in Seq(PlanItems)
  BY <1>1, PlanTimes
<1>3. at \in Places(plan) /\ 1 \in 1..plan.rounds /\ 1 \in 1..Len(plan.stages)
  BY <1>1, <1>2 DEF Places
<1>4. ASSUME NEW limits PROVE Planned(plan, at, limits) = 0
  <2>1. at.item = 1 /\ at.stage = 1 /\ at.round = 1
    BY <1>1
  <2>2. Planned(plan, at, limits) = BeforeRound(plan, 1, limits)
    BY <1>1, <1>3, <2>1, PlaceBegins
  <2> QED
    BY <1>1, <1>3, <2>2, PlannedTyped
<1>5. DeadlineTypes
  <2>1. Len(Stage) \in Nat /\ 0 \in 0..MaxLate
    BY <1>1, <1>2, ItemsTyped DEF Stage
  <2>2. wave \in Seq(WaveRuns) /\ DOMAIN wave = {}
    BY <1>1
  <2> QED
    BY <1>1, <1>3, <2>1, <2>2 DEF DeadlineTypes, Parted
<1>6. Planned(plan, at, TRUE) = 0 /\ Planned(plan, at, FALSE) = 0
  BY <1>4
<1>7. OnTime
  <2>0. phase = "next" /\ now = 0 /\ late = 0
    BY <1>1
  <2> DEFINE x == Planned(plan, at, TRUE)
  <2>x. x = 0
    BY <1>6
  <2> HIDE DEF x
  <2>1. now <= x + late
    BY <2>0, <2>x
  <2> QED
    BY <2>0, <2>1 DEF OnTime, x
<1>8. ToPlan
  BY <1>1, <1>6 DEF ToPlan
<1> QED
  BY <1>5, <1>7, <1>8 DEF DeadlineInv

LEMMA StartWaveKeeps == DeadlineInv /\ StartWave => DeadlineInv'
<1> SUFFICES ASSUME DeadlineInv, StartWave PROVE DeadlineInv'
  OBVIOUS
<1>0. DeadlineTypes /\ OnTime /\ ToPlan
  BY DEF DeadlineInv
<1> DEFINE b == at.item
           e == NextSleep
           r == at.round
           there == [at EXCEPT !.item = e]
<1>1. /\ phase = "next" /\ ~at.abort /\ b < e
      /\ wave' = [n \in 1..e - b |->
                    [item |-> b + n - 1, since |-> now, tries |-> 0, status |-> "active"]]
      /\ phase' = "waiting" /\ until' = now + WaitLimit /\ at' = there
      /\ plan' = plan /\ now' = now /\ late' = late /\ history' = history
  BY DEF StartWave
<1>2. /\ Stage \in Seq(PlanItems) /\ Len(Stage) \in Nat /\ b \in 1..Len(Stage) + 1
      /\ WaitLimit \in Nat /\ late \in Nat /\ now \in Nat /\ at \in Places(plan) /\ plan \in Plans
      /\ \A i \in 1..Len(Stage) : Stage[i] \in PlanItems
  BY <1>0, StageTyped DEF DeadlineTypes
<1>3. /\ e \in b..Len(Stage) + 1 /\ \A j \in b..e - 1 : Stage[j].kind = "task"
      /\ e <= Len(Stage) => Stage[e].kind = "sleep"
  BY <1>0, NextSleepIs
<1>4. there \in Places(plan) /\ there.item = e /\ there.round = r /\ there.stage = at.stage /\ there.abort = at.abort
  BY <1>2, <1>3 DEF Places
<1>5. Stage' = Stage
  BY <1>1, <1>4 DEF Stage
<1>6. b \in 1..Len(Stage) /\ e \in b + 1..Len(Stage) + 1 /\ BeginsBatch(Stage, b)
  <2>1. b \in 1..Len(Stage) /\ e \in b + 1..Len(Stage) + 1
    BY <1>1, <1>2, <1>3
  <2>2. b \in b..e - 1 /\ Stage[b].kind = "task"
    BY <1>3, <2>1
  <2> QED
    BY <1>0, <1>2, <2>1, <2>2 DEF DeadlineTypes, Parted, BeginsBatch
<1> HIDE DEF e, there, b
<1>7. ASSUME NEW limits
      PROVE  /\ Planned(plan, there, limits) \in Nat /\ Planned(plan, at, limits) \in Nat
             /\ \A j \in b..e - 1 : Planned(plan, at, limits) + TimeOf(Stage[j], r, limits)
                                    <= Planned(plan, there, limits)
             /\ \E j \in b..e - 1 : Planned(plan, at, limits) + TimeOf(Stage[j], r, limits)
                                    = Planned(plan, there, limits)
  <2> DEFINE x == BeforeRound(plan, r, limits) + BeforeStage(plan, r, at.stage, limits)
             t(i) == SpentOn(Stage, r, limits, i)
  <2>1. there.item <= Len(plan.stages[there.stage]) + 1 /\ at.item <= Len(plan.stages[at.stage]) + 1
    BY <1>2, <1>3, <1>4 DEF Stage, b
  <2>2. /\ Planned(plan, there, limits) \in Nat /\ Planned(plan, at, limits) \in Nat
        /\ BeforeRound(plan, r, limits) \in Nat /\ BeforeStage(plan, r, at.stage, limits) \in Nat
        /\ t(b - 1) \in Nat /\ t(e - 1) \in Nat
    <3>1. /\ Planned(plan, there, limits) \in Nat /\ SpentOn(plan.stages[there.stage], there.round, limits, there.item - 1) \in Nat
      BY <1>2, <1>4, <2>1, PlaceTyped
    <3>2. /\ Planned(plan, at, limits) \in Nat /\ SpentOn(plan.stages[at.stage], at.round, limits, at.item - 1) \in Nat
          /\ BeforeRound(plan, r, limits) \in Nat /\ BeforeStage(plan, r, at.stage, limits) \in Nat
      BY <1>2, <2>1, PlaceTyped
    <3> QED
      BY <1>4, <3>1, <3>2 DEF Stage, b
  <2>3. Planned(plan, at, limits) = x + t(b - 1) /\ Planned(plan, there, limits) = x + t(e - 1)
    BY <1>4 DEF Planned, Stage, b
  <2>4. /\ \A j \in b..e - 1 : t(b - 1) + TimeOf(Stage[j], r, limits) <= t(e - 1)
        /\ \E j \in b..e - 1 : t(b - 1) + TimeOf(Stage[j], r, limits) = t(e - 1)
    BY <1>2, <1>3, <1>6, BatchTakes
  <2>5. x \in Nat /\ \A j \in b..e - 1 : TimeOf(Stage[j], r, limits) \in Nat
    <3>1. \A j \in b..e - 1 : j \in 1..Len(Stage)
      BY <1>2, <1>6
    <3>2. \A j \in b..e - 1 : TimeOf(Stage[j], r, limits) \in Nat
      BY <1>2, <3>1, TimeTyped
    <3>3. x \in Nat
      BY <2>2
    <3> QED
      BY <3>2, <3>3
  <2> HIDE DEF x, t
  <2>6. ASSUME NEW j \in b..e - 1
        PROVE  Planned(plan, at, limits) + TimeOf(Stage[j], r, limits) <= Planned(plan, there, limits)
    BY <2>2, <2>3, <2>4, <2>5
  <2>7. PICK j \in b..e - 1 : t(b - 1) + TimeOf(Stage[j], r, limits) = t(e - 1)
    BY <2>4
  <2>8. Planned(plan, at, limits) + TimeOf(Stage[j], r, limits) = Planned(plan, there, limits)
    BY <2>2, <2>3, <2>5, <2>7
  <2> QED
    BY <2>2, <2>6, <2>8
<1>8. /\ DOMAIN wave' = 1..e - b /\ e - b \in Nat /\ e - b >= 1
      /\ \A n \in 1..e - b :
            /\ wave'[n] = [item |-> b + n - 1, since |-> now, tries |-> 0, status |-> "active"]
            /\ wave'[n].item = b + n - 1 /\ wave'[n].since = now /\ wave'[n].status = "active"
            /\ b + n - 1 \in b..e - 1 /\ b + n - 1 \in 1..Len(Stage)
      /\ \A j \in b..e - 1 : j - b + 1 \in 1..e - b /\ b + (j - b + 1) - 1 = j
  BY <1>1, <1>2, <1>6
<1>9. DeadlineTypes'
  <2>1. wave' \in Seq(WaveRuns) /\ wave' # <<>>
    <3>1. \A n \in 1..e - b : wave'[n] \in WaveRuns
      BY <1>2, <1>6, <1>8 DEF WaveRuns
    <3>2. wave' \in [1..e - b -> WaveRuns]
      BY <1>1, <1>8, <3>1
    <3> QED
      BY <1>8, <3>2
  <2>2. Parted'
    BY <1>1, <1>2, <1>3, <1>4, <1>5, <1>6 DEF Parted
  <2>3. \A n \in DOMAIN wave' : wave'[n].item <= Len(Stage)
    BY <1>2, <1>8
  <2>4. /\ plan' \in Plans /\ now' \in Nat /\ until' \in Nat /\ late' \in 0..MaxLate
        /\ history' \subseteq {"retried", "failed", "uneven"} /\ phase' = "waiting"
    BY <1>0, <1>1, <1>2 DEF DeadlineTypes
  <2>5. at' \in Places(plan') /\ at'.item <= Len(Stage') + 1
    BY <1>1, <1>2, <1>4, <1>5, <1>6
  <2> QED
    BY <1>5, <2>1, <2>2, <2>3, <2>4, <2>5 DEF DeadlineTypes
<1>10. OnTime'
  <2> DEFINE x == Planned(plan, at, TRUE)
             y == Planned(plan, there, TRUE)
  <2>1. x \in Nat /\ y \in Nat /\ \A j \in b..e - 1 : x + TimeOf(Stage[j], r, TRUE) <= y
    BY <1>7
  <2>2. ASSUME NEW j \in b..e - 1
        PROVE  TimeOf(Stage[j], r, TRUE) = PollTimeout(Stage[j], r) /\ PollTimeout(Stage[j], r) \in Nat
    <3>1. j \in 1..Len(Stage) /\ Stage[j].kind = "task"
      BY <1>3, <1>6
    <3> QED
      BY <1>2, <3>1, TimesTyped DEF TimeOf, TimeoutOf
  <2> SUFFICES ASSUME "retried" \notin history PROVE OnTime'
    BY <1>1 DEF OnTime
  <2>3. now <= x + late
    BY <1>0, <1>1 DEF OnTime
  <2>4. b \in b..e - 1
    BY <1>6
  <2> HIDE DEF x, y
  <2>5. now <= y + late
    <3>1. x + PollTimeout(Stage[b], r) <= y /\ PollTimeout(Stage[b], r) \in Nat
      BY <2>1, <2>2, <2>4
    <3> QED
      BY <1>2, <2>1, <2>3, <3>1
  <2>6. ASSUME NEW n \in 1..e - b PROVE wave'[n].since + Limit(wave[n])' <= y + late
    <3> DEFINE j == b + n - 1
    <3>1. wave'[n].since = now /\ wave'[n].item = j /\ j \in b..e - 1
      BY <1>8
    <3>2. Limit(wave[n])' = PollTimeout(Stage[j], r)
      BY <1>1, <1>4, <1>5, <3>1 DEF Limit
    <3>3. x + PollTimeout(Stage[j], r) <= y /\ PollTimeout(Stage[j], r) \in Nat
      BY <2>1, <2>2, <3>1
    <3> HIDE DEF j
    <3> QED
      BY <1>2, <2>1, <2>3, <3>1, <3>2, <3>3
  <2>7. Planned(plan, at, TRUE)' = y
    BY <1>1 DEF y
  <2> QED
    BY <1>1, <1>8, <2>5, <2>6, <2>7 DEF OnTime
<1>11. ToPlan'
  <2> SUFFICES ASSUME history = {}, late = 0 PROVE ToPlan'
    BY <1>1 DEF ToPlan
  <2> DEFINE x == Planned(plan, at, FALSE)
             y == Planned(plan, there, FALSE)
  <2>1. now = x
    BY <1>0, <1>1 DEF ToPlan
  <2>2. /\ x \in Nat /\ y \in Nat /\ \A j \in b..e - 1 : x + TimeOf(Stage[j], r, FALSE) <= y
        /\ \E j \in b..e - 1 : x + TimeOf(Stage[j], r, FALSE) = y
    BY <1>7
  <2> HIDE DEF x, y
  <2> DEFINE w == wave'
             End(n) == w[n].since + Seconds(Stage[w[n].item], r)
  <2>3. ASSUME NEW n \in 1..e - b
        PROVE  w[n].status = "active" /\ w[n].since = now /\ End(n) = x + TimeOf(Stage[b + n - 1], r, FALSE)
    BY <1>8, <2>1 DEF TimeOf
  <2>4. ASSUME NEW n \in 1..e - b PROVE End(n) <= y
    BY <1>8, <2>2, <2>3
  <2>5. \E n \in 1..e - b : End(n) = y
    <3>1. PICK j \in b..e - 1 : x + TimeOf(Stage[j], r, FALSE) = y
      BY <2>2
    <3> DEFINE n == j - b + 1
    <3>2. n \in 1..e - b /\ b + n - 1 = j
      BY <1>8
    <3> HIDE DEF n, End
    <3>3. End(n) = x + TimeOf(Stage[b + n - 1], r, FALSE)
      BY <2>3, <3>2
    <3> QED
      BY <3>1, <3>2, <3>3
  <2>6. Planned(plan, at, FALSE)' = y
    BY <1>1 DEF y
  <2>7. 1 \in 1..e - b
    BY <1>8
  <2>8. at'.round = r /\ DOMAIN w = 1..e - b /\ now' = now /\ now \in Nat
    BY <1>1, <1>2, <1>4, <1>8
  <2>9. WaveToPlan(Planned(plan, at, FALSE))'
    <3>1. ASSUME NEW n \in 1..e - b
          PROVE  w[n].since <= now' /\ End(n) <= y /\ w[n].status = "active"
      <4>1. now <= now
        BY <2>8
      <4> HIDE DEF w, End
      <4> QED
        BY <2>3, <2>4, <2>8, <4>1
    <3> QED
      BY <1>5, <2>5, <2>6, <2>7, <2>8, <3>1 DEF WaveToPlan, EndOf, Active
  <2> QED
    BY <1>1, <1>4, <2>9 DEF ToPlan
<1> QED
  BY <1>9, <1>10, <1>11 DEF DeadlineInv

LEMMA ItemMoves ==
    ASSUME DeadlineTypes, NEW k \in 1..Len(Stage) + 1, NEW limits
    PROVE  \E x \in Nat :
              /\ SpentOn(Stage, at.round, limits, k - 1) \in Nat
              /\ SpentOn(Stage, at.round, limits, at.item - 1) \in Nat
              /\ Planned(plan, at, limits) = x + SpentOn(Stage, at.round, limits, at.item - 1)
              /\ Planned(plan, [at EXCEPT !.item = k], limits) = x + SpentOn(Stage, at.round, limits, k - 1)
<1> DEFINE there == [at EXCEPT !.item = k]
           x == BeforeRound(plan, at.round, limits) + BeforeStage(plan, at.round, at.stage, limits)
<1>1. plan \in Plans /\ at \in Places(plan) /\ at.item <= Len(plan.stages[at.stage]) + 1
      /\ Stage = plan.stages[at.stage] /\ Len(Stage) \in Nat
  BY StageTyped DEF DeadlineTypes, Stage
<1>2. /\ there \in Places(plan) /\ there.item = k /\ there.round = at.round /\ there.stage = at.stage
      /\ there.item <= Len(plan.stages[there.stage]) + 1
  BY <1>1 DEF Places
<1> HIDE DEF there
<1>3. SpentOn(plan.stages[there.stage], there.round, limits, there.item - 1) \in Nat
  BY <1>1, <1>2, PlaceTyped
<1>4. /\ SpentOn(plan.stages[at.stage], at.round, limits, at.item - 1) \in Nat
      /\ BeforeRound(plan, at.round, limits) \in Nat /\ BeforeStage(plan, at.round, at.stage, limits) \in Nat
  BY <1>1, PlaceTyped
<1>5. Planned(plan, at, limits) = x + SpentOn(Stage, at.round, limits, at.item - 1)
  BY <1>1 DEF Planned
<1>6. Planned(plan, there, limits) = x + SpentOn(Stage, at.round, limits, k - 1)
  BY <1>1, <1>2 DEF Planned
<1>7. x \in Nat
  BY <1>4
<1> HIDE DEF x
<1> QED
  BY <1>1, <1>2, <1>3, <1>4, <1>5, <1>6, <1>7 DEF there

LEMMA GoToSleepKeeps == DeadlineInv /\ GoToSleep => DeadlineInv'
<1> SUFFICES ASSUME DeadlineInv, GoToSleep PROVE DeadlineInv'
  OBVIOUS
<1>0. DeadlineTypes /\ OnTime /\ ToPlan
  BY DEF DeadlineInv
<1> DEFINE k == at.item + 1
           there == [at EXCEPT !.item = k]
           takes == Seconds(Stage[at.item], at.round)
<1>1. /\ phase = "next" /\ ~at.abort /\ at.item = NextSleep /\ at.item <= Len(Stage)
      /\ phase' = "sleeping" /\ until' = now + takes /\ at' = there
      /\ plan' = plan /\ now' = now /\ late' = late /\ history' = history /\ wave' = wave
  BY DEF GoToSleep
<1>2. /\ Stage \in Seq(PlanItems) /\ Len(Stage) \in Nat /\ at.item \in 1..Len(Stage)
      /\ late \in Nat /\ now \in Nat /\ at \in Places(plan) /\ plan \in Plans
      /\ Stage[at.item].kind = "sleep" /\ Stage[at.item] \in PlanItems
  BY <1>0, <1>1, StageTyped, NextSleepIs DEF DeadlineTypes
<1>3. takes \in Nat
  BY <1>2, TimesTyped
<1>4. /\ k \in 1..Len(Stage) + 1 /\ k - 1 = at.item
      /\ there \in Places(plan) /\ there.item = k /\ there.stage = at.stage /\ there.abort = at.abort
  BY <1>2 DEF Places
<1>5. Stage' = Stage
  BY <1>1, <1>4 DEF Stage
<1>6. ASSUME NEW limits
      PROVE  /\ Planned(plan, there, limits) = Planned(plan, at, limits) + takes
             /\ Planned(plan, at, limits) \in Nat
  <2>1. SpentOn(Stage, at.round, limits, at.item) = SpentOn(Stage, at.round, limits, at.item - 1) + takes
    BY <1>2, SleepTakes
  <2> HIDE DEF k, takes
  <2>2. PICK x \in Nat :
              /\ SpentOn(Stage, at.round, limits, k - 1) \in Nat
              /\ SpentOn(Stage, at.round, limits, at.item - 1) \in Nat
              /\ Planned(plan, at, limits) = x + SpentOn(Stage, at.round, limits, at.item - 1)
              /\ Planned(plan, there, limits) = x + SpentOn(Stage, at.round, limits, k - 1)
    BY <1>0, <1>4, ItemMoves
  <2> HIDE DEF there
  <2> QED
    BY <1>3, <1>4, <2>1, <2>2
<1> HIDE DEF there, takes
<1>7. DeadlineTypes'
  <2>1. Parted'
    BY <1>1, <1>2, <1>4, <1>5 DEF Parted
  <2>2. /\ plan' \in Plans /\ now' \in Nat /\ until' \in Nat /\ late' \in 0..MaxLate
        /\ history' \subseteq {"retried", "failed", "uneven"} /\ phase' = "sleeping"
    BY <1>0, <1>1, <1>2, <1>3 DEF DeadlineTypes
  <2>3. at' \in Places(plan') /\ at'.item <= Len(Stage') + 1
    BY <1>1, <1>2, <1>4, <1>5
  <2>4. wave = <<>> /\ wave \in Seq(WaveRuns) /\ DOMAIN wave = {}
    BY <1>0, <1>1 DEF DeadlineTypes
  <2> QED
    BY <1>1, <2>1, <2>2, <2>3, <2>4 DEF DeadlineTypes
<1>8. OnTime'
  <2> DEFINE x == Planned(plan, at, TRUE)
             y == Planned(plan, there, TRUE)
  <2>1. x \in Nat /\ y = x + takes /\ Planned(plan, at, TRUE)' = y
    BY <1>1, <1>6
  <2> SUFFICES ASSUME "retried" \notin history PROVE OnTime'
    BY <1>1 DEF OnTime
  <2>2. now <= x + late
    BY <1>0, <1>1 DEF OnTime
  <2> HIDE DEF x, y
  <2>3. now <= y + late /\ now + takes <= y + late
    BY <1>2, <1>3, <2>1, <2>2
  <2> QED
    BY <1>1, <2>1, <2>3 DEF OnTime
<1>9. ToPlan'
  <2> DEFINE x == Planned(plan, at, FALSE)
             y == Planned(plan, there, FALSE)
  <2>1. x \in Nat /\ y = x + takes /\ Planned(plan, at, FALSE)' = y
    BY <1>1, <1>6
  <2> SUFFICES ASSUME history = {}, late = 0 PROVE ToPlan'
    BY <1>1 DEF ToPlan
  <2>2. now = x
    BY <1>0, <1>1 DEF ToPlan
  <2> HIDE DEF x, y
  <2>3. now + takes = y /\ now <= now + takes
    BY <1>2, <1>3, <2>1, <2>2
  <2> QED
    BY <1>1, <1>4, <2>1, <2>3 DEF ToPlan
<1> QED
  BY <1>7, <1>8, <1>9 DEF DeadlineInv

LEMMA LeaveStageKeeps == DeadlineInv /\ LeaveStage => DeadlineInv'
<1> SUFFICES ASSUME DeadlineInv, LeaveStage PROVE DeadlineInv'
  OBVIOUS
<1>0. DeadlineTypes /\ OnTime /\ ToPlan
  BY DEF DeadlineInv
<1>1. /\ phase = "next" /\ (at.abort \/ at.item > Len(Stage))
      /\ plan' = plan /\ now' = now /\ late' = late /\ history' = history /\ wave' = wave /\ until' = until
  BY DEF LeaveStage
<1>2. /\ Stage = plan.stages[at.stage] /\ Len(Stage) \in Nat /\ at.item \in 1..Len(Stage) + 1
      /\ late \in Nat /\ now \in Nat /\ at \in Places(plan) /\ plan \in Plans /\ wave = <<>>
      /\ at.round \in 1..plan.rounds /\ at.stage \in 1..Len(plan.stages) /\ at.abort \in BOOLEAN
      /\ plan.rounds \in Nat \ {0} /\ Len(plan.stages) \in Nat \ {0}
      /\ at.item <= Len(plan.stages[at.stage]) + 1
      /\ \A s \in 1..Len(plan.stages) : Len(plan.stages[s]) \in Nat
  <2>1. Stage = plan.stages[at.stage] /\ Len(Stage) \in Nat /\ at.item \in 1..Len(Stage) + 1
        /\ late \in Nat /\ at.round \in 1..plan.rounds /\ at.stage \in 1..Len(plan.stages) /\ at.abort \in BOOLEAN
    BY <1>0, StageTyped
  <2>2. now \in Nat /\ at \in Places(plan) /\ plan \in Plans /\ wave = <<>>
    BY <1>0, <1>1 DEF DeadlineTypes
  <2>3. plan.rounds \in Nat \ {0} /\ Len(plan.stages) \in Nat \ {0}
        /\ \A s \in 1..Len(plan.stages) : plan.stages[s] \in Seq(PlanItems)
    BY <2>2, PlanTimes
  <2> QED
    BY <2>1, <2>2, <2>3
<1>3. at.abort \/ at.item = Len(plan.stages[at.stage]) + 1
  BY <1>1, <1>2
<1>4. ASSUME NEW limits
      PROVE  /\ Planned(plan, at, limits) \in Nat
             /\ Planned(plan, at, limits) <= BeforeRound(plan, at.round + 1, limits)
             /\ BeforeRound(plan, at.round + 1, limits) \in Nat
             /\ at.item = Len(plan.stages[at.stage]) + 1 =>
                   /\ Planned(plan, at, limits)
                      = BeforeRound(plan, at.round, limits) + BeforeStage(plan, at.round, at.stage + 1, limits)
                   /\ at.stage = Len(plan.stages) => Planned(plan, at, limits) = BeforeRound(plan, at.round + 1, limits)
  BY <1>0, <1>2, StageTyped, PlaceEnds
<1>5. /\ "retried" \notin history => now <= Planned(plan, at, TRUE) + late
      /\ history = {} /\ late = 0 => ~at.abort /\ now = Planned(plan, at, FALSE)
  BY <1>0, <1>1 DEF OnTime, ToPlan
\* The executor goes on at the beginning of a stage, with what is planned up to there.
<1>6. ASSUME NEW a \in Places(plan), a.item = 1, at' = a, phase' = phase,
             a.abort => at.abort,
             \A limits \in BOOLEAN : Planned(plan, a, limits) \in Nat /\ Planned(plan, at, limits) <= Planned(plan, a, limits),
             ~at.abort => Planned(plan, a, FALSE) = Planned(plan, at, FALSE)
      PROVE  DeadlineInv'
  <2>1. Len(Stage') \in Nat /\ 1 <= Len(Stage') + 1
    <3>1. a.stage \in 1..Len(plan.stages)
      BY <1>6 DEF Places
    <3>2. Len(plan.stages[a.stage]) \in Nat
      BY <1>2, <3>1
    <3> QED
      BY <1>1, <1>6, <3>2 DEF Stage
  <2>2. DeadlineTypes'
    <3>1. DOMAIN wave = {} /\ wave \in Seq(WaveRuns)
      BY <1>2
    <3> QED
      BY <1>0, <1>1, <1>2, <1>6, <2>1, <3>1 DEF DeadlineTypes, Parted
  <2>3. OnTime'
    <3> DEFINE x == Planned(plan, at, TRUE)
               y == Planned(plan, a, TRUE)
    <3>1. x \in Nat /\ y \in Nat /\ x <= y /\ Planned(plan, at, TRUE)' = y
      BY <1>1, <1>4, <1>6
    <3>2. "retried" \notin history => now <= x + late
      BY <1>5
    <3> HIDE DEF x, y
    <3>3. "retried" \notin history => now <= y + late
      BY <1>2, <3>1, <3>2
    <3> QED
      BY <1>1, <1>6, <3>1, <3>3 DEF OnTime
  <2>4. ToPlan'
    <3> SUFFICES ASSUME history = {}, late = 0 PROVE ToPlan'
      BY <1>1 DEF ToPlan
    <3>1. ~at.abort /\ now = Planned(plan, at, FALSE)
      BY <1>5
    <3>2. ~a.abort /\ Planned(plan, at, FALSE)' = Planned(plan, a, FALSE)
      BY <1>1, <1>6, <3>1
    <3>3. now = Planned(plan, a, FALSE)
      BY <1>6, <3>1
    <3> QED
      BY <1>1, <1>6, <3>2, <3>3 DEF ToPlan
  <2> QED
    BY <2>2, <2>3, <2>4 DEF DeadlineInv
<1>7. CASE ~at.abort /\ at.stage < Len(plan.stages)
  <2> DEFINE a == [at EXCEPT !.stage = @ + 1, !.item = 1]
  <2>1. at' = a /\ phase' = phase
    BY <1>7 DEF LeaveStage
  <2>2. a \in Places(plan) /\ a.item = 1 /\ a.abort = at.abort /\ a.stage = at.stage + 1 /\ a.round = at.round
    <3> DEFINE n == Len(plan.stages)
               R == 1..plan.rounds
               I == Nat \ {0}
    <3>1. at \in [round : R, stage : 1..n, item : I, abort : BOOLEAN]
      BY <1>2 DEF Places
    <3>2. at.stage + 1 \in 1..n /\ 1 \in I
      BY <1>2, <1>7
    <3> HIDE DEF n, R, I
    <3>3. a \in [round : R, stage : 1..n, item : I, abort : BOOLEAN]
      BY <3>1, <3>2
    <3>4. a.item = 1 /\ a.abort = at.abort /\ a.stage = at.stage + 1 /\ a.round = at.round
      BY <3>1
    <3> QED
      BY <3>3, <3>4 DEF Places, n, R, I
  <2> HIDE DEF a
  <2>3. ASSUME NEW limits
        PROVE Planned(plan, a, limits) = Planned(plan, at, limits) /\ Planned(plan, at, limits) \in Nat
    <3>1. Planned(plan, a, limits)
          = BeforeRound(plan, a.round, limits) + BeforeStage(plan, a.round, a.stage, limits)
      BY <1>2, <2>2, PlaceBegins
    <3> QED
      BY <1>3, <1>4, <1>7, <2>2, <3>1
  <2>4. \A limits \in BOOLEAN : Planned(plan, a, limits) \in Nat /\ Planned(plan, at, limits) <= Planned(plan, a, limits)
    <3> SUFFICES ASSUME NEW limits \in BOOLEAN
                 PROVE  Planned(plan, a, limits) \in Nat /\ Planned(plan, at, limits) <= Planned(plan, a, limits)
      OBVIOUS
    <3> DEFINE x == Planned(plan, at, limits)
    <3>1. x \in Nat /\ Planned(plan, a, limits) = x
      BY <2>3
    <3> HIDE DEF x
    <3>2. x <= x
      BY <3>1
    <3> QED
      BY <3>1, <3>2 DEF x
  <2> QED
    BY <1>6, <2>1, <2>2, <2>3, <2>4
<1>8. CASE ~(~at.abort /\ at.stage < Len(plan.stages)) /\ at.round < plan.rounds
  <2> DEFINE a == [round |-> at.round + 1, stage |-> 1, item |-> 1, abort |-> FALSE]
  <2>1. at' = a /\ phase' = phase
    BY <1>8 DEF LeaveStage
  <2>2. a \in Places(plan) /\ a.item = 1 /\ a.abort = FALSE /\ a.stage = 1 /\ a.round = at.round + 1
    BY <1>2, <1>8 DEF Places
  <2> HIDE DEF a
  <2>3. ASSUME NEW limits
        PROVE  Planned(plan, a, limits) = BeforeRound(plan, at.round + 1, limits)
    BY <1>2, <2>2, PlaceBegins
  <2>4. ~at.abort => at.stage = Len(plan.stages) /\ at.item = Len(plan.stages[at.stage]) + 1
    BY <1>2, <1>3, <1>8
  <2>5. ~at.abort => Planned(plan, a, FALSE) = Planned(plan, at, FALSE)
    BY <1>4, <2>3, <2>4
  <2>6. \A limits \in BOOLEAN : Planned(plan, a, limits) \in Nat /\ Planned(plan, at, limits) <= Planned(plan, a, limits)
    BY <1>4, <2>3
  <2> QED
    BY <1>6, <2>1, <2>2, <2>5, <2>6
<1>9. CASE ~(~at.abort /\ at.stage < Len(plan.stages)) /\ ~(at.round < plan.rounds)
  <2>1. phase' = "ended" /\ at' = at
    BY <1>9 DEF LeaveStage
  <2>2. Stage' = Stage
    BY <1>1, <2>1 DEF Stage
  <2>3. DeadlineTypes'
    BY <1>0, <1>1, <1>2, <2>1, <2>2 DEF DeadlineTypes, Parted
  <2>4. OnTime'
    BY <1>1, <2>1 DEF OnTime
  <2>5. ToPlan'
    <3> SUFFICES ASSUME history = {}, late = 0 PROVE ToPlan'
      BY <1>1 DEF ToPlan
    <3>1. ~at.abort /\ now = Planned(plan, at, FALSE)
      BY <1>5
    <3>2. at.stage = Len(plan.stages) /\ at.item = Len(plan.stages[at.stage]) + 1 /\ at.round = plan.rounds
      BY <1>2, <1>3, <1>9, <3>1
    <3>3. now = BeforeRound(plan, plan.rounds + 1, FALSE)
      BY <1>4, <3>1, <3>2
    <3>4. now = PlanTime(FALSE)
      BY <1>2, <3>3, PlanTimeIs
    <3>5. PlanTime(FALSE)' = PlanTime(FALSE)
      BY <1>1 DEF PlanTime, RoundTime
    <3> QED
      BY <1>1, <2>1, <3>1, <3>4, <3>5 DEF ToPlan
  <2> QED
    BY <2>3, <2>4, <2>5 DEF DeadlineInv
<1> QED
  BY <1>7, <1>8, <1>9

\* What is planned depends on the place, not on whether the round is to be left.
LEMMA PlannedSame ==
    ASSUME NEW p, NEW a, NEW c, NEW limits, a.round = c.round, a.stage = c.stage, a.item = c.item
    PROVE  Planned(p, a, limits) = Planned(p, c, limits)
BY DEF Planned

LEMMA LooseKeeps ==
    ASSUME DeadlineInv, UNCHANGED <<plan, now, at, phase, until, wave, late, history>>
    PROVE  DeadlineInv'
<1>1. DeadlineTypes'
  BY DEF DeadlineInv, DeadlineTypes, Parted, Stage
<1>2. Stage' = Stage /\ PlanTime(FALSE)' = PlanTime(FALSE)
  BY DEF Stage, PlanTime, RoundTime
<1>3. OnTime'
  BY <1>2 DEF DeadlineInv, OnTime, Limit
<1>4. ToPlan'
  BY <1>2 DEF DeadlineInv, ToPlan, WaveToPlan, EndOf, Active
<1> QED
  BY <1>1, <1>3, <1>4 DEF DeadlineInv

LEMMA SleepOverKeeps == DeadlineInv /\ SleepOver => DeadlineInv'
<1> SUFFICES ASSUME DeadlineInv, SleepOver PROVE DeadlineInv'
  OBVIOUS
<1>0. DeadlineTypes /\ OnTime /\ ToPlan
  BY DEF DeadlineInv
<1>1. /\ phase = "sleeping" /\ now >= until /\ phase' = "next"
      /\ UNCHANGED <<plan, now, at, until, wave, late, history>>
  BY DEF SleepOver
<1>2. Stage' = Stage /\ wave = <<>> /\ now \in Nat /\ until \in Nat
  BY <1>0, <1>1 DEF Stage, DeadlineTypes
<1>3. DeadlineTypes'
  BY <1>0, <1>1, <1>2 DEF DeadlineTypes, Parted
<1>4. OnTime'
  BY <1>0, <1>1 DEF OnTime
<1>5. ToPlan'
  <2> SUFFICES ASSUME history = {}, late = 0 PROVE ToPlan'
    BY <1>1 DEF ToPlan
  <2>1. until = Planned(plan, at, FALSE) /\ now <= until /\ ~at.abort
    BY <1>0, <1>1 DEF ToPlan
  <2>2. now \in Nat /\ until \in Nat /\ now >= until /\ now <= until
    BY <1>1, <1>2, <2>1
  <2>3. now = until
    BY <2>2
  <2> QED
    BY <1>1, <2>1, <2>3 DEF ToPlan
<1> QED
  BY <1>3, <1>4, <1>5 DEF DeadlineInv

LEMMA GovernKeeps == DeadlineInv /\ Govern => DeadlineInv'
<1> SUFFICES ASSUME DeadlineInv, Govern PROVE DeadlineInv'
  OBVIOUS
<1>0. DeadlineTypes /\ OnTime /\ ToPlan
  BY DEF DeadlineInv
<1>1. /\ Working /\ now >= Deadline + Grace /\ phase' = "timed_out"
      /\ UNCHANGED <<plan, now, at, until, wave, late, history>>
  BY DEF Govern
<1>2. /\ Stage' = Stage /\ plan \in Plans /\ at \in Places(plan) /\ at.item <= Len(plan.stages[at.stage]) + 1
      /\ now \in Nat /\ late \in Nat /\ Grace \in Nat
  BY <1>0, <1>1, StageTyped DEF Stage, DeadlineTypes
<1>3. DeadlineTypes'
  BY <1>0, <1>1, <1>2 DEF DeadlineTypes, Parted
<1>4. OnTime'
  <2> SUFFICES ASSUME "retried" \notin history PROVE late >= Grace
    BY <1>1 DEF OnTime
  <2> DEFINE x == Planned(plan, at, TRUE)
             y == BeforeRound(plan, at.round + 1, TRUE)
             z == BeforeRound(plan, plan.rounds + 1, TRUE)
  <2>1. phase \in {"next", "waiting", "sleeping"}
    BY <1>0, <1>1 DEF OnTime, Working, DeadlineTypes
  <2>2. now <= x + late
    BY <1>0, <2>1 DEF OnTime
  <2>3. x \in Nat
    BY <1>0, StageTyped
  <2>4. x <= y /\ y \in Nat /\ y <= z /\ z \in Nat
    BY <1>2, PlaceEnds
  <2>5. Deadline = z
    BY <1>2, PlanTimeIs DEF Deadline
  <2> HIDE DEF x, y, z
  <2> QED
    BY <1>1, <1>2, <2>2, <2>3, <2>4, <2>5
<1>5. ToPlan'
  <2> SUFFICES ASSUME history = {}, late = 0 PROVE ~at.abort
    BY <1>1 DEF ToPlan
  <2> QED
    BY <1>0 DEF ToPlan
<1> QED
  BY <1>3, <1>4, <1>5 DEF DeadlineInv

\* A run of the batch that changes remains a run of the batch.
LEMMA WaveTyped ==
    ASSUME DeadlineTypes, NEW n \in DOMAIN wave
    PROVE  /\ wave[n] \in WaveRuns /\ wave[n].item \in 1..Len(Stage)
           /\ wave[n].since \in Nat /\ wave[n].tries \in Nat
           /\ wave[n].status \in {"active", "succeeded", "failed"}
           /\ Stage[wave[n].item] \in PlanItems
           /\ \A s \in {"active", "succeeded", "failed"} :
                 [wave EXCEPT ![n].status = s] \in Seq(WaveRuns)
           /\ [wave EXCEPT ![n].since = now, ![n].tries = @ + 1, ![n].status = "active"] \in Seq(WaveRuns)
<1>1. wave \in Seq(WaveRuns) /\ wave[n] \in WaveRuns /\ now \in Nat /\ wave[n].item <= Len(Stage)
  BY DEF DeadlineTypes
<1>2. /\ wave[n].item \in Nat \ {0} /\ wave[n].since \in Nat /\ wave[n].tries \in Nat
      /\ wave[n].status \in {"active", "succeeded", "failed"}
  BY <1>1 DEF WaveRuns
<1>3. Len(Stage) \in Nat /\ \A i \in 1..Len(Stage) : Stage[i] \in PlanItems
  BY StageTyped
<1>4. wave[n].item \in 1..Len(Stage)
  BY <1>1, <1>2, <1>3
<1>5. ASSUME NEW s \in {"active", "succeeded", "failed"}
      PROVE  [wave EXCEPT ![n].status = s] \in Seq(WaveRuns)
  <2>1. [wave[n] EXCEPT !.status = s] \in WaveRuns
    BY <1>1 DEF WaveRuns
  <2> QED
    BY <1>1, <2>1
<1>6. [wave EXCEPT ![n].since = now, ![n].tries = @ + 1, ![n].status = "active"] \in Seq(WaveRuns)
  <2> DEFINE new == [item |-> wave[n].item, since |-> now, tries |-> wave[n].tries + 1, status |-> "active"]
             w == [wave EXCEPT ![n].since = now, ![n].tries = @ + 1, ![n].status = "active"]
  <2>1. new \in WaveRuns
    BY <1>1, <1>2 DEF WaveRuns
  <2>2. DOMAIN w = DOMAIN wave /\ \A m \in DOMAIN wave : m # n => w[m] = wave[m]
    OBVIOUS
  <2>3. w[n] = new
    <3>1. wave[n] = [item |-> wave[n].item, since |-> wave[n].since,
                     tries |-> wave[n].tries, status |-> wave[n].status]
      BY <1>1 DEF WaveRuns
    <3> QED
      BY <3>1
  <2>4. w = [m \in DOMAIN wave |-> w[m]]
    BY <2>2
  <2> HIDE DEF w, new
  <2>5. \A m \in DOMAIN wave : w[m] \in WaveRuns
    BY <1>1, <2>1, <2>2, <2>3
  <2>6. DOMAIN wave = 1..Len(wave) /\ Len(wave) \in Nat
    BY <1>1
  <2>7. w \in Seq(WaveRuns)
    BY <2>4, <2>5, <2>6
  <2> QED
    BY <2>7 DEF w
<1> QED
  BY <1>1, <1>2, <1>3, <1>4, <1>5, <1>6

LEMMA TryAgainKeeps == DeadlineInv /\ TryAgain => DeadlineInv'
<1> SUFFICES ASSUME DeadlineInv, TryAgain PROVE DeadlineInv'
  OBVIOUS
<1>0. DeadlineTypes /\ OnTime /\ ToPlan
  BY DEF DeadlineInv
<1>1. /\ phase = "pause" /\ phase' = "waiting" /\ until' = now + WaitLimit
      /\ wave' = [wave EXCEPT ![1].since = now, ![1].tries = @ + 1, ![1].status = "active"]
      /\ UNCHANGED <<plan, now, at, late, history>>
  BY DEF TryAgain
<1>2. "retried" \in history
  BY <1>0, <1>1 DEF OnTime
<1>3. /\ Stage' = Stage /\ now \in Nat /\ WaitLimit \in Nat /\ wave # <<>> /\ wave \in Seq(WaveRuns)
      /\ \A n \in DOMAIN wave : wave[n].item <= Len(Stage) /\ wave[n] \in WaveRuns
  BY <1>0, <1>1, StageTyped DEF Stage, DeadlineTypes
<1>4. 1 \in DOMAIN wave
  BY <1>3
<1>5. wave' \in Seq(WaveRuns) /\ DOMAIN wave' = DOMAIN wave /\ wave' # <<>>
  <2>1. wave' \in Seq(WaveRuns)
    BY <1>0, <1>1, <1>4, WaveTyped
  <2>2. DOMAIN wave' = DOMAIN wave
    BY <1>1
  <2> QED
    BY <1>4, <2>1, <2>2
<1>6. \A n \in DOMAIN wave : wave'[n].item = wave[n].item
  BY <1>1, <1>3, <1>4 DEF WaveRuns
<1>7. DeadlineTypes'
  <2>1. until' \in Nat /\ Parted'
    BY <1>0, <1>1, <1>3 DEF DeadlineTypes, Parted
  <2> QED
    BY <1>0, <1>1, <1>3, <1>5, <1>6, <2>1 DEF DeadlineTypes
<1>8. OnTime' /\ ToPlan'
  BY <1>1, <1>2 DEF OnTime, ToPlan
<1> QED
  BY <1>7, <1>8 DEF DeadlineInv

LEMMA LaterStill ==
    ASSUME NEW a \in Nat, NEW x \in Nat, NEW l \in Nat, NEW m \in Nat, l <= m, a <= x + l
    PROVE  a <= x + m
OBVIOUS

LEMMA TickKeeps == DeadlineInv /\ Tick => DeadlineInv'
<1> SUFFICES ASSUME DeadlineInv, Tick PROVE DeadlineInv'
  OBVIOUS
<1>0. DeadlineTypes /\ OnTime /\ ToPlan
  BY DEF DeadlineInv
<1>1. /\ Working /\ now' = now + 1 /\ late' = late + (IF Due THEN 1 ELSE 0) /\ late' <= MaxLate
      /\ UNCHANGED <<plan, at, phase, until, wave, loose, history>>
  BY DEF Tick
<1>2. /\ Stage' = Stage /\ now \in Nat /\ until \in Nat /\ late \in Nat /\ MaxLate \in Nat
      /\ wave \in Seq(WaveRuns)
      /\ phase = "waiting" => 1 \in DOMAIN wave /\ Head(wave) = wave[1]
  BY <1>0, <1>1, StageTyped DEF Stage, DeadlineTypes
<1>3. late' \in Nat /\ late <= late' /\ (Due => late' = late + 1) /\ (~Due => late' = late)
  BY <1>1, <1>2
<1>4. DeadlineTypes'
  <2>1. now' \in Nat /\ late' \in 0..MaxLate
    BY <1>1, <1>2, <1>3
  <2> QED
    BY <1>0, <1>1, <1>2, <2>1 DEF DeadlineTypes, Parted
<1>5. ASSUME NEW n \in DOMAIN wave, phase = "waiting"
      PROVE  wave[n].since \in Nat /\ Limit(wave[n]) \in Nat
  BY <1>0, WaveTyped, TimesTyped DEF Limit
<1>6. OnTime'
  <2> DEFINE x == Planned(plan, at, TRUE)
  <2>1. x \in Nat /\ Planned(plan, at, TRUE)' = x
    BY <1>0, <1>1, StageTyped
  <2> SUFFICES ASSUME "retried" \notin history PROVE OnTime'
    BY <1>1 DEF OnTime
  <2>2. /\ phase # "pause"
        /\ phase \in {"next", "waiting", "sleeping"} => now <= x + late
        /\ phase = "sleeping" => until <= x + late
        /\ phase = "waiting" =>
              \A n \in DOMAIN wave : wave[n].since + Limit(wave[n]) <= x + late
    BY <1>0 DEF OnTime
  <2>3. phase \in {"next", "waiting", "sleeping"}
    BY <1>0, <1>1, <2>2 DEF Working, DeadlineTypes
  <2> HIDE DEF x
  <2>4. now' <= x + late'
    <3>1. CASE Due
      BY <1>1, <1>2, <1>3, <2>1, <2>2, <2>3, <3>1
    <3>2. CASE ~Due /\ phase = "sleeping"
      <4>1. ~(now >= until) /\ until <= x + late
        BY <2>2, <3>2 DEF Due
      <4> QED
        BY <1>1, <1>2, <1>3, <2>1, <3>2, <4>1
    <3>3. CASE ~Due /\ phase = "waiting"
      <4>1. Active(wave[1]) /\ 1 \in DOMAIN wave
        BY <1>2, <3>3 DEF Due, Over
      <4>2. ~(now - wave[1].since >= Limit(wave[1]))
        BY <3>3, <4>1 DEF Due
      <4>3. wave[1].since \in Nat /\ Limit(wave[1]) \in Nat /\ wave[1].since + Limit(wave[1]) <= x + late
        BY <1>5, <2>2, <3>3, <4>1
      <4> QED
        BY <1>1, <1>2, <1>3, <2>1, <3>3, <4>2, <4>3
    <3> QED
      BY <2>3, <3>1, <3>2, <3>3 DEF Due
  <2>5. phase = "sleeping" => until <= x + late'
    <3>1. x \in Nat /\ late \in Nat /\ late' \in Nat /\ late <= late' /\ until \in Nat
      BY <1>2, <1>3, <2>1
    <3>2. until <= x + late => until <= x + late'
      BY <3>1, LaterStill
    <3> QED
      BY <2>2, <3>2
  <2>6. ASSUME phase = "waiting", NEW n \in DOMAIN wave
        PROVE  wave[n].since + Limit(wave[n]) <= x + late'
    <3>1. wave[n].since + Limit(wave[n]) <= x + late
          /\ wave[n].since \in Nat /\ Limit(wave[n]) \in Nat
      BY <1>5, <2>2, <2>6
    <3> QED
      BY <1>2, <1>3, <2>1, <3>1
  <2>7. \A n : Limit(wave[n])' = Limit(wave[n])
    BY <1>1, <1>2 DEF Limit
  <2>8. phase' = phase /\ wave' = wave /\ until' = until
    BY <1>1
  <2>9. phase' = "waiting" => \A n \in DOMAIN wave' : wave'[n].since + Limit(wave[n])' <= x + late'
    BY <2>6, <2>7, <2>8
  <2> QED
    BY <2>1, <2>2, <2>3, <2>4, <2>5, <2>8, <2>9 DEF OnTime
<1>7. ToPlan'
  <2> SUFFICES ASSUME history = {}, late' = 0 PROVE ToPlan'
    BY <1>1 DEF ToPlan
  <2>1. ~Due /\ late = 0
    BY <1>2, <1>3
  <2> DEFINE y == Planned(plan, at, FALSE)
  <2>2. y \in Nat /\ Planned(plan, at, FALSE)' = y
    BY <1>0, <1>1, StageTyped
  <2>3. /\ ~at.abort
        /\ phase = "sleeping" => until = y /\ now <= until
        /\ phase = "waiting" => WaveToPlan(y)
    BY <1>0, <2>1 DEF ToPlan
  <2>4. phase # "next" /\ phase # "ended"
    BY <1>1, <2>1 DEF Due, Working
  <2> HIDE DEF y
  <2>5. phase = "sleeping" => now' <= until
    <3>1. phase = "sleeping" => ~(now >= until)
      BY <2>1 DEF Due
    <3> QED
      BY <1>1, <1>2, <3>1
  <2>6. phase = "waiting" => WaveToPlan(Planned(plan, at, FALSE))'
    <3> SUFFICES ASSUME phase = "waiting" PROVE WaveToPlan(Planned(plan, at, FALSE))'
      OBVIOUS
    <3>1. Active(wave[1]) /\ 1 \in DOMAIN wave
      BY <1>2, <2>1 DEF Due, Over
    <3> DEFINE e(n) == EndOf(wave[n])
    <3>2. ASSUME NEW n \in DOMAIN wave PROVE e(n) \in Nat /\ wave[n].since \in Nat /\ EndOf(wave[n])' = e(n)
      <4>1. wave[n].since \in Nat /\ Stage[wave[n].item] \in PlanItems
        BY <1>0, WaveTyped
      <4>2. Seconds(Stage[wave[n].item], at.round) \in Nat
        BY <4>1, TimesTyped
      <4> QED
        BY <1>1, <1>2, <4>1, <4>2 DEF EndOf
    <3>3. /\ \A n \in DOMAIN wave :
                /\ wave[n].since <= now /\ e(n) <= y
                /\ ~Active(wave[n]) => wave[n].status = "succeeded" /\ e(n) <= now
          /\ (\E n \in DOMAIN wave : e(n) = y) \/ y <= now
      BY <2>3 DEF WaveToPlan
    <3> HIDE DEF e
    <3>4. ASSUME NEW n \in DOMAIN wave
          PROVE  /\ wave[n].since <= now' /\ e(n) <= y
                 /\ ~Active(wave[n]) => wave[n].status = "succeeded" /\ e(n) <= now'
      BY <1>1, <1>2, <3>2, <3>3
    <3>5. (\E n \in DOMAIN wave : e(n) = y) \/ y <= now'
      BY <1>1, <1>2, <2>2, <3>3
    <3>6. wave' = wave /\ \A n : Active(wave[n])' = Active(wave[n])
      BY <1>1 DEF Active
    <3>7. /\ \A n \in DOMAIN wave' :
                /\ wave'[n].since <= now' /\ EndOf(wave[n])' <= y
                /\ ~Active(wave[n])' => wave'[n].status = "succeeded" /\ EndOf(wave[n])' <= now'
          /\ (\E n \in DOMAIN wave' : EndOf(wave[n])' = y) \/ y <= now'
          /\ Active(wave[1])'
      BY <3>1, <3>2, <3>4, <3>5, <3>6
    <3> QED
      BY <2>2, <3>7 DEF WaveToPlan
  <2> QED
    BY <1>1, <2>2, <2>3, <2>4, <2>5, <2>6 DEF ToPlan
<1> QED
  BY <1>4, <1>6, <1>7 DEF DeadlineInv

LEMMA RunOverKeeps == ASSUME DeadlineInv, NEW m \in DOMAIN wave, RunOver(m) PROVE DeadlineInv'
<1>0. DeadlineTypes /\ OnTime /\ ToPlan
  BY DEF DeadlineInv
<1>1. PICK ok \in BOOLEAN :
         /\ wave' = [wave EXCEPT ![m].status = IF ok THEN "succeeded" ELSE "failed"]
         /\ history' = Recalled("uneven", ~ok \/ now - wave[m].since # Seconds(Stage[wave[m].item], at.round))
  BY DEF RunOver
<1>2. /\ phase \in {"waiting", "pause"} /\ Active(wave[m])
      /\ UNCHANGED <<plan, now, at, phase, until, loose, late>>
  BY DEF RunOver
<1>3. /\ Stage' = Stage /\ now \in Nat /\ wave # <<>> /\ wave \in Seq(WaveRuns)
      /\ \A n \in DOMAIN wave : wave[n].item <= Len(Stage) /\ wave[n] \in WaveRuns
      /\ history \subseteq history' /\ history' \subseteq history \cup {"uneven"}
  BY <1>0, <1>1, <1>2 DEF Stage, DeadlineTypes, Recalled
<1>4. wave' \in Seq(WaveRuns) /\ DOMAIN wave' = DOMAIN wave /\ wave' # <<>>
  <2>1. wave' \in Seq(WaveRuns)
    BY <1>0, <1>1, WaveTyped
  <2>2. DOMAIN wave' = DOMAIN wave
    BY <1>1
  <2> QED
    BY <2>1, <2>2
<1>5. /\ \A n \in DOMAIN wave : wave'[n].item = wave[n].item /\ wave'[n].since = wave[n].since
      /\ \A n \in DOMAIN wave : n # m => wave'[n] = wave[n]
      /\ wave'[m].status = IF ok THEN "succeeded" ELSE "failed"
  BY <1>1, <1>3 DEF WaveRuns
<1>6. DeadlineTypes'
  <2>1. Parted' /\ history' \subseteq {"retried", "failed", "uneven"}
    BY <1>0, <1>2, <1>3 DEF DeadlineTypes, Parted
  <2> QED
    BY <1>0, <1>2, <1>3, <1>4, <1>5, <2>1 DEF DeadlineTypes
<1>7. OnTime'
  <2> SUFFICES ASSUME "retried" \notin history PROVE OnTime'
    BY <1>3 DEF OnTime
  <2> DEFINE x == Planned(plan, at, TRUE)
  <2>1. /\ phase = "waiting" /\ now <= x + late
        /\ \A n \in DOMAIN wave : wave[n].since + Limit(wave[n]) <= x + late
    BY <1>0, <1>2 DEF OnTime
  <2>2. \A n \in DOMAIN wave : Limit(wave[n])' = Limit(wave[n])
    BY <1>2, <1>3, <1>5 DEF Limit
  <2>3. \A n \in DOMAIN wave' : wave'[n].since + Limit(wave[n])' <= x + late'
    BY <1>2, <1>4, <1>5, <2>1, <2>2
  <2>4. Planned(plan, at, TRUE)' = x
    BY <1>2
  <2> QED
    BY <1>2, <2>1, <2>3, <2>4 DEF OnTime
<1>8. ToPlan'
  <2> SUFFICES ASSUME history' = {}, late = 0 PROVE ToPlan'
    BY <1>2 DEF ToPlan
  <2> DEFINE y == Planned(plan, at, FALSE)
             e(n) == EndOf(wave[n])
  <2>1. history = {} /\ ok /\ now - wave[m].since = Seconds(Stage[wave[m].item], at.round)
    BY <1>1, <1>3 DEF Recalled
  <2>2. ~at.abort /\ "retried" \notin history /\ (phase = "waiting" => WaveToPlan(y))
    BY <1>0, <2>1 DEF ToPlan
  <2>3. phase = "waiting"
    BY <1>0, <1>2, <2>2 DEF OnTime
  <2>4. /\ \A n \in DOMAIN wave :
              /\ wave[n].since <= now /\ e(n) <= y
              /\ ~Active(wave[n]) => wave[n].status = "succeeded" /\ e(n) <= now
        /\ ~Active(wave[1]) => now <= y
        /\ (\E n \in DOMAIN wave : e(n) = y) \/ y <= now
    BY <2>2, <2>3 DEF WaveToPlan
  <2>5. e(m) = now
    <3>1. wave[m].since \in Nat /\ Stage[wave[m].item] \in PlanItems
      BY <1>0, WaveTyped
    <3>2. Seconds(Stage[wave[m].item], at.round) \in Nat
      BY <3>1, TimesTyped
    <3> QED
      BY <1>3, <2>1, <3>1, <3>2 DEF EndOf
  <2>6. \A n \in DOMAIN wave : EndOf(wave[n])' = e(n)
    BY <1>2, <1>3, <1>5 DEF EndOf
  <2>7. y \in Nat /\ Planned(plan, at, FALSE)' = y /\ now' = now
    BY <1>0, <1>2, StageTyped
  <2> HIDE DEF y, e
  <2>8. \A n \in DOMAIN wave : n # m => Active(wave[n])' = Active(wave[n]) /\ wave'[n].status = wave[n].status
    BY <1>5 DEF Active
  <2>9. wave'[m].status = "succeeded"
    BY <1>5, <2>1
  <2>10. e(m) <= now /\ now <= now
    BY <1>3, <2>5
  <2>11. ASSUME NEW n \in DOMAIN wave
         PROVE  /\ wave'[n].since <= now /\ e(n) <= y
                /\ ~Active(wave[n])' => wave'[n].status = "succeeded" /\ e(n) <= now
    <3>1. wave'[n].since <= now /\ e(n) <= y
      BY <1>5, <2>4
    <3>2. CASE n = m
      BY <2>9, <2>10, <3>1, <3>2
    <3>3. CASE n # m
      BY <2>4, <2>8, <3>1, <3>3
    <3> QED
      BY <3>2, <3>3
  <2>12. ~Active(wave[1])' => now <= y
    <3>1. 1 \in DOMAIN wave
      BY <1>3
    <3>2. CASE m = 1
      BY <2>4, <2>5, <3>1, <3>2
    <3>3. CASE m # 1
      BY <2>4, <2>8, <3>1, <3>3
    <3> QED
      BY <3>2, <3>3
  <2>13. WaveToPlan(Planned(plan, at, FALSE))'
    <3>1. /\ \A n \in DOMAIN wave' :
                /\ wave'[n].since <= now' /\ EndOf(wave[n])' <= y
                /\ ~Active(wave[n])' => wave'[n].status = "succeeded" /\ EndOf(wave[n])' <= now'
          /\ (\E n \in DOMAIN wave' : EndOf(wave[n])' = y) \/ y <= now'
          /\ ~Active(wave[1])' => now' <= y
      BY <1>4, <2>4, <2>6, <2>7, <2>11, <2>12
    <3> QED
      BY <2>7, <3>1 DEF WaveToPlan
  <2> QED
    BY <1>2, <2>2, <2>3, <2>13 DEF ToPlan
<1> QED
  BY <1>6, <1>7, <1>8 DEF DeadlineInv

LEMMA ObserveKeeps == DeadlineInv /\ Observe => DeadlineInv'
<1> SUFFICES ASSUME DeadlineInv, Observe PROVE DeadlineInv'
  OBVIOUS
<1>0. DeadlineTypes /\ OnTime /\ ToPlan
  BY DEF DeadlineInv
<1> DEFINE run == Head(wave)
           failed == run.status # "succeeded"
<1>1. phase = "waiting" /\ Over /\ plan' = plan /\ now' = now /\ late' = late
  BY DEF Observe
<1>2. /\ now \in Nat /\ WaitLimit \in Nat /\ RetryDelay \in Nat /\ late \in Nat
      /\ wave # <<>> /\ wave \in Seq(WaveRuns) /\ plan \in Plans
      /\ history \subseteq {"retried", "failed", "uneven"}
      /\ \A n \in DOMAIN wave : wave[n].item <= Len(Stage)
  BY <1>0, <1>1, StageTyped DEF DeadlineTypes
<1>3. /\ run = wave[1] /\ DOMAIN wave = 1..Len(wave) /\ Len(wave) \in Nat \ {0} /\ 1 \in DOMAIN wave
      /\ run \in WaveRuns
  BY <1>2
<1>4. CASE /\ phase' = "pause" /\ until' = now + RetryDelay
           /\ wave' = [wave EXCEPT ![1].status = "failed"]
           /\ history' = history \cup {"retried"} /\ UNCHANGED at
  <2>1. OnTime' /\ ToPlan'
    BY <1>4 DEF OnTime, ToPlan
  <2>2. Stage' = Stage /\ until' \in Nat
    BY <1>1, <1>2, <1>4 DEF Stage
  <2>3. wave' \in Seq(WaveRuns) /\ DOMAIN wave' = DOMAIN wave /\ wave' # <<>>
    <3>1. wave' \in Seq(WaveRuns)
      BY <1>0, <1>3, <1>4, WaveTyped
    <3>2. DOMAIN wave' = DOMAIN wave
      BY <1>4
    <3> QED
      BY <1>3, <3>1, <3>2
  <2>4. \A n \in DOMAIN wave : wave'[n].item = wave[n].item
    BY <1>2, <1>3, <1>4 DEF WaveRuns
  <2>5. history' \subseteq {"retried", "failed", "uneven"} /\ Parted'
    BY <1>0, <1>1, <1>2, <1>4, <2>2 DEF Parted, DeadlineTypes
  <2>6. DeadlineTypes'
    BY <1>0, <1>1, <1>2, <1>4, <2>2, <2>3, <2>4, <2>5 DEF DeadlineTypes
  <2> QED
    BY <2>1, <2>6 DEF DeadlineInv
<1>5. CASE /\ phase' = IF Len(wave) = 1 THEN "next" ELSE "waiting"
           /\ until' = now + WaitLimit /\ wave' = Tail(wave)
           /\ history' = Recalled("failed", failed)
           /\ at' = [at EXCEPT !.abort = @ \/ (failed /\ Stage[run.item].abort)]
  <2> DEFINE k == Len(wave)
             a == at'
  <2>1. /\ at \in Places(plan) /\ at.item <= Len(Stage) + 1 /\ Parted /\ at.abort \in BOOLEAN
    BY <1>0, StageTyped DEF DeadlineTypes
  <2>2. /\ a \in Places(plan) /\ a.item = at.item /\ a.stage = at.stage /\ a.round = at.round
        /\ a.abort <=> at.abort \/ (failed /\ Stage[run.item].abort)
    <3> DEFINE c == at.abort \/ (failed /\ Stage[run.item].abort)
    <3>1. c \in BOOLEAN
      OBVIOUS
    <3>2. a = [at EXCEPT !.abort = c]
      BY <1>5
    <3> HIDE DEF c
    <3>3. a \in Places(plan) /\ a.item = at.item /\ a.stage = at.stage /\ a.round = at.round /\ a.abort = c
      BY <2>1, <3>1, <3>2 DEF Places
    <3> QED
      BY <3>3 DEF c
  <2>3. Stage' = Stage
    BY <1>1, <2>2 DEF Stage
  <2>4. /\ Tail(wave) \in Seq(WaveRuns) /\ Len(Tail(wave)) = k - 1 /\ DOMAIN Tail(wave) = 1..k - 1
        /\ k \in Nat \ {0} /\ \A n \in 1..k - 1 : Tail(wave)[n] = wave[n + 1] /\ n + 1 \in DOMAIN wave
    BY <1>2, <1>3
  <2>5. /\ wave' \in Seq(WaveRuns) /\ DOMAIN wave' = 1..k - 1
        /\ k # 1 => wave' # <<>> /\ 1 \in 1..k - 1
        /\ k = 1 => wave' = <<>>
        /\ \A n \in 1..k - 1 : wave'[n] = wave[n + 1] /\ n + 1 \in DOMAIN wave
    <3> DEFINE w == Tail(wave)
    <3>1. wave' = w
      BY <1>5
    <3> HIDE DEF w, k
    <3>2. w \in Seq(WaveRuns) /\ DOMAIN w = 1..k - 1 /\ Len(w) = k - 1 /\ k \in Nat \ {0}
      BY <2>4 DEF w
    <3>3. k # 1 => 1 \in 1..k - 1
      BY <3>2
    <3>4. k = 1 => w = <<>>
      BY <3>2
    <3>5. \A n \in 1..k - 1 : w[n] = wave[n + 1] /\ n + 1 \in DOMAIN wave
      BY <2>4 DEF w
    <3> QED
      BY <3>1, <3>2, <3>3, <3>4, <3>5
  <2>6. \A limits : Planned(plan, at, limits)' = Planned(plan, at, limits)
    BY <1>1, <2>2 DEF Planned
  <2>7. DeadlineTypes'
    <3>1. Parted' /\ history' \subseteq {"retried", "failed", "uneven"} /\ until' \in Nat
      BY <1>2, <1>5, <2>1, <2>2, <2>3 DEF Parted, Recalled
    <3>2. phase' \in {"next", "waiting"} /\ (phase' = "next" => k = 1) /\ (phase' = "waiting" => k # 1)
      BY <1>5
    <3>3. \A n \in DOMAIN wave' : wave'[n].item <= Len(Stage)
      BY <1>2, <2>5
    <3>4. at' \in Places(plan') /\ at'.item <= Len(Stage') + 1
      BY <1>1, <2>1, <2>2, <2>3
    <3> QED
      BY <1>0, <1>1, <2>3, <2>5, <3>1, <3>2, <3>3, <3>4 DEF DeadlineTypes
  <2>8. OnTime'
    <3> DEFINE x == Planned(plan, at, TRUE)
    <3> SUFFICES ASSUME "retried" \notin history PROVE OnTime'
      BY <1>5 DEF OnTime, Recalled
    <3>1. now <= x + late /\ \A n \in DOMAIN wave : wave[n].since + Limit(wave[n]) <= x + late
      BY <1>0, <1>1 DEF OnTime
    <3>2. Planned(plan, at, TRUE)' = x
      BY <2>6
    <3>3. \A n \in DOMAIN wave' : Limit(wave[n])' = Limit(wave[n + 1])
      BY <2>2, <2>3, <2>5 DEF Limit
    <3>4. phase' \in {"next", "waiting"}
      BY <1>5
    <3> HIDE DEF x
    <3>5. \A n \in DOMAIN wave' : wave'[n].since + Limit(wave[n])' <= x + late'
      BY <1>1, <2>5, <3>1, <3>3
    <3> QED
      BY <1>1, <3>1, <3>2, <3>4, <3>5 DEF OnTime
  <2>9. ToPlan'
    <3> SUFFICES ASSUME history' = {}, late = 0 PROVE ToPlan'
      BY <1>1 DEF ToPlan
    <3> DEFINE y == Planned(plan, at, FALSE)
               e(n) == EndOf(wave[n])
    <3>1. history = {} /\ wave[1].status = "succeeded"
      BY <1>3, <1>5 DEF Recalled
    <3>2. ~at.abort /\ WaveToPlan(y)
      BY <1>0, <1>1, <3>1 DEF ToPlan
    <3>3. ~a.abort
      BY <1>3, <2>2, <3>1, <3>2
    <3>4. ~Active(wave[1])
      BY <3>1 DEF Active
    <3>5. /\ \A n \in DOMAIN wave :
                /\ wave[n].since <= now /\ e(n) <= y
                /\ ~Active(wave[n]) => wave[n].status = "succeeded" /\ e(n) <= now
          /\ now <= y
          /\ (\E n \in DOMAIN wave : e(n) = y) \/ y <= now
      BY <3>2, <3>4 DEF WaveToPlan
    <3>6. y \in Nat /\ Planned(plan, at, FALSE)' = y
      BY <1>0, <2>6, StageTyped
    <3>7. \A n \in 1..k - 1 : EndOf(wave[n])' = e(n + 1)
      BY <2>2, <2>3, <2>5 DEF EndOf
    <3> HIDE DEF y, e
    <3>8. e(1) <= now
      BY <1>3, <3>4, <3>5
    <3>9. CASE k = 1
      <4>1. \A n \in DOMAIN wave : n = 1
        BY <1>3, <3>9
      <4>2. y <= now
        BY <3>5, <3>8, <4>1
      <4>3. now = y
        BY <1>2, <3>5, <3>6, <4>2
      <4> QED
        BY <1>1, <1>5, <3>3, <3>6, <3>9, <4>3 DEF ToPlan
    <3>10. CASE k # 1
      <4>1. phase' = "waiting"
        BY <1>5, <3>10
      <4>2. (\E n \in 1..k - 1 : e(n + 1) = y) \/ y <= now
        <5>1. CASE y <= now
          BY <5>1
        <5>2. CASE \E n \in DOMAIN wave : e(n) = y
          <6>1. PICK n \in DOMAIN wave : e(n) = y
            BY <5>2
          <6>2. CASE n = 1
            BY <3>8, <6>1, <6>2
          <6>3. CASE n # 1
            <7>1. n - 1 \in 1..k - 1 /\ (n - 1) + 1 = n
              BY <1>3, <6>3
            <7> QED
              BY <6>1, <7>1
          <6> QED
            BY <6>2, <6>3
        <5> QED
          BY <3>5, <5>1, <5>2
      <4>3. ASSUME NEW n \in 1..k - 1
            PROVE  /\ wave'[n].since <= now /\ EndOf(wave[n])' <= y
                   /\ ~Active(wave[n])' => wave'[n].status = "succeeded" /\ EndOf(wave[n])' <= now
        <5>1. wave'[n] = wave[n + 1] /\ n + 1 \in DOMAIN wave /\ EndOf(wave[n])' = e(n + 1)
          BY <2>5, <3>7
        <5>2. Active(wave[n])' <=> Active(wave[n + 1])
          BY <5>1 DEF Active
        <5> QED
          BY <3>5, <5>1, <5>2
      <4>4. (\E n \in 1..k - 1 : EndOf(wave[n])' = y) \/ y <= now
        BY <3>7, <4>2
      <4>6. WaveToPlan(Planned(plan, at, FALSE))'
        BY <1>1, <2>5, <3>5, <3>6, <4>3, <4>4 DEF WaveToPlan
      <4> QED
        BY <3>3, <4>1, <4>6 DEF ToPlan
    <3> QED
      BY <3>9, <3>10
  <2> QED
    BY <2>7, <2>8, <2>9 DEF DeadlineInv
<1> QED
  BY <1>4, <1>5 DEF Observe

LEMMA DeadlineSteps == DeadlineInv /\ [DeadlineNext]_deadlineVars => DeadlineInv'
<1> SUFFICES ASSUME DeadlineInv, [DeadlineNext]_deadlineVars PROVE DeadlineInv'
  OBVIOUS
<1>1. ASSUME NEW n \in DOMAIN wave, RunOver(n) PROVE DeadlineInv'
  BY <1>1, RunOverKeeps
<1>2. ASSUME NEW d \in loose, LooseRunOver(d) PROVE DeadlineInv'
  BY <1>2, LooseKeeps DEF LooseRunOver
<1>3. CASE UNCHANGED deadlineVars
  BY <1>3, LooseKeeps DEF deadlineVars
<1> QED
  BY <1>1, <1>2, <1>3, StartWaveKeeps, GoToSleepKeeps, LeaveStageKeeps, ObserveKeeps, TryAgainKeeps,
     SleepOverKeeps, TickKeeps, GovernKeeps DEF DeadlineNext

LEMMA InvTimes == DeadlineInv => DeadlineTypeOK /\ TimesAgree
<1> SUFFICES ASSUME DeadlineInv PROVE DeadlineTypeOK /\ TimesAgree
  OBVIOUS
<1>1. DeadlineTypes /\ OnTime /\ ToPlan
  BY DEF DeadlineInv
<1>2. DeadlineTypeOK
  BY <1>1 DEF DeadlineTypes, DeadlineTypeOK, Places
<1>3. TimesAgree
  BY <1>1 DEF OnTime, ToPlan, TimesAgree, Estimate
<1> QED
  BY <1>2, <1>3

\* The watchdog ends no plan run whose runs keep their timeouts and are not retried, unless its
\* executor has been behind for the grace; and a plan run in which every run takes its duration
\* ends when its estimate says (plan_service.py, _build_plan_execution_estimate).
THEOREM TimesAreKept == DeadlineSpec => []TimesAgree
<1>1. DeadlineSpec => []DeadlineInv
  BY StartToPlan, DeadlineSteps, PTL DEF DeadlineSpec
<1> QED
  BY <1>1, InvTimes, PTL

\* The same beside the other services.
THEOREM DeadlinesHoldThere == MCSpec => []DeadlinesHold
<1> DEFINE Inv == part = "deadlines" => DeadlineInv
<1>1. MCInit => Inv
  BY StartToPlan DEF MCInit
<1>2. Inv /\ [MCNext]_mcVars => Inv'
  <2> SUFFICES ASSUME Inv, [MCNext]_mcVars PROVE Inv'
    OBVIOUS
  <2>1. part' = part /\ (part = "deadlines" => [DeadlineNext]_deadlineVars)
    BY DEF MCNext, mcVars
  <2> QED
    BY <2>1, DeadlineSteps
<1>3. Inv => DeadlinesHold
  BY InvTimes DEF DeadlinesHold
<1> QED
  BY <1>1, <1>2, <1>3, PTL DEF MCSpec
=============================================================================
