------------------------------ MODULE Webhooks ------------------------------
(***************************************************************************)
(* Who is told that a plan run has ended (notification_service.py).  The   *)
(* executor of the plan run, once it has closed it, and the recovery of    *)
(* stale plan runs, once it has ended one (plan_executor.py,               *)
(* plan_service.py), each walk through the enabled hooks: a record is      *)
(* committed for a hook, the message is sent in several attempts, and the  *)
(* outcome is committed.  Users and starting servers edit hooks meanwhile. *)
(*                                                                         *)
(* One such round is followed.  The rounds of the executor and of the      *)
(* recovery share only the hooks, which they do not write, so that a hook  *)
(* may be told twice of one end; and a round may stop anywhere (there is   *)
(* no fairness): a crash loses what is left of it.                         *)
(***************************************************************************)
EXTENDS Integers

CONSTANTS
    Hooks,          \* ids of hooks, numbers
    RetryCap,       \* 5 in the code: retries beyond it are not made
    MaxEdits        \* bounds the changes of hooks

ASSUME HookAssumption == Hooks \subseteq Nat /\ RetryCap \in Nat /\ MaxEdits \in Nat

VARIABLES
    ended,      \* "active" or the status that the plan run has ended with
    hook,       \* per hook: its row, or NoHook
    changes,    \* edits made
    round,      \* the round: [step, event, left, loaded, allowed, attempts, result, spoilt]
    record,     \* per hook: the row of webhook_send_records of this round
    received    \* per hook: messages of this round that have reached the endpoint

hookVars == <<ended, hook, changes, round, record, received>>

Events == {"completed", "failed"}
NoHook == [on |-> FALSE, wants |-> {}, retries |-> 0]
HookRows == [on : BOOLEAN, wants : {{"completed"}, Events}, retries : {0, RetryCap + 1}]
NoRecord == [status |-> "none", attempts |-> 0]
NoRound == [step |-> "off", event |-> "none", left |-> {}, loaded |-> {}, allowed |-> 0,
            attempts |-> 0, result |-> "none", spoilt |-> {}]

\* _plan_run_event_type
EventOf(status) ==
    CASE status = "succeeded" -> "completed" [] status \in {"failed", "stopped"} -> "failed"
      [] OTHER -> "none"
\* max(1, min(retries, cap) + 1)
AttemptsOf(row) == 1 + (IF row.retries < RetryCap THEN row.retries ELSE RetryCap)
-----------------------------------------------------------------------------
(* The end of the plan run *)

\* stop_plan_run tells nobody: the executor, if it lives, will.
UserStops ==
    /\ ended = "active" /\ ended' = "stopped"
    /\ UNCHANGED <<hook, changes, round, record, received>>

\* The recovery ends what is active; the executor's closing finds an end or writes its own.
CloseAndTell ==
    /\ round.step = "off" /\ round' = [round EXCEPT !.step = "told"]
    /\ \/ ended # "active" /\ UNCHANGED ended
       \/ ended' \in {"succeeded", "failed", "stopped"}
    /\ UNCHANGED <<hook, changes, record, received>>
-----------------------------------------------------------------------------
(* trigger_plan_run_terminal_webhooks *)

\* All enabled hooks are loaded at once; they are told in the order of their ids.
Load ==
    /\ round.step = "told"
    /\ LET on == {h \in Hooks : hook[h].on}
       IN round' = [round EXCEPT !.step = "looking", !.event = EventOf(ended),
                                 !.loaded = on, !.left = on]
    /\ UNCHANGED <<ended, hook, changes, record, received>>

\* The loop is at the hook with the least id of those that are left.
AtHook(h) == h \in round.left /\ \A g \in round.left : h <= g
\* A hook that is not wanted is passed over; the row is read again after every commit, but
\* for whether it is enabled.
PassOver(h) ==
    /\ round.step = "looking" /\ AtHook(h) /\ round.event \notin hook[h].wants
    /\ round' = [round EXCEPT !.left = @ \ {h}]
    /\ UNCHANGED <<ended, hook, changes, record, received>>
Finish ==
    /\ round.step = "looking" /\ round.left = {}
    /\ round' = [round EXCEPT !.step = "done"]
    /\ UNCHANGED <<ended, hook, changes, record, received>>

\* Mutant: an exception leaves the loop.
GivesUp(h) == [round EXCEPT !.step = "done", !.spoilt = @ \cup {h}]
\* An exception is logged and rolled back, and the loop goes on: the text could not be rendered,
\* or a commit was refused, which leaves the session usable.
GoesOn(h) == [round EXCEPT !.step = "looking", !.left = @ \ {h}, !.spoilt = @ \cup {h}]
\* A statement that the database refuses, or a lost connection, leaves the session waiting for a
\* rollback and the hooks expired: the handler reads the hook's id before it rolls back, that
\* read raises, and the exception leaves the loop.  The callers catch it.
Breaks(h) == [round EXCEPT !.step = "broken", !.left = @ \ {h}, !.spoilt = @ \cup {h}]
\* Which of the two an exception does.
Excepts(h) == round' \in {GoesOn(h), Breaks(h)}

\* _dispatch_webhook: the text is rendered and the record committed and read back, or one of
\* them fails: reading back is after the commit.
BeginRecord(h) ==
    /\ round.step = "looking" /\ AtHook(h) /\ round.event \in hook[h].wants
    /\ \/ /\ record' = [record EXCEPT ![h] = [status |-> "pending", attempts |-> 0]]
          /\ round' = [round EXCEPT !.step = "sending", !.attempts = 0,
                                    !.allowed = AttemptsOf(hook[h])]
       \/ /\ record' \in {record, [record EXCEPT ![h] = [status |-> "pending", attempts |-> 0]]}
          /\ Excepts(h)
    /\ UNCHANGED <<ended, hook, changes, received>>

\* The message arrives or not; the answer to one that has arrived may be lost or an error.
\* Nothing more is sent after a success.
Attempt(h) ==
    /\ round.step = "sending" /\ AtHook(h)
    /\ \E arrives, ok \in BOOLEAN :
          /\ ok => arrives
          /\ round' = [round EXCEPT
                !.attempts = @ + 1, !.result = IF ok THEN "success" ELSE "failed",
                !.step = IF ok \/ round.attempts + 1 = round.allowed THEN "storing" ELSE @]
          /\ received' = [received EXCEPT ![h] = @ + IF arrives THEN 1 ELSE 0]
    /\ UNCHANGED <<ended, hook, changes, record>>

\* The outcome is committed, or that fails.
Store(h) ==
    /\ round.step = "storing" /\ AtHook(h)
    /\ \/ /\ record' = [record EXCEPT ![h] = [status |-> round.result, attempts |-> round.attempts]]
          /\ round' = [round EXCEPT !.step = "looking", !.left = @ \ {h}]
       \/ UNCHANGED record /\ Excepts(h)
    /\ UNCHANGED <<ended, hook, changes, received>>
-----------------------------------------------------------------------------
\* create_webhook_config, update_webhook_config, sync_webhook_configs_from_file
EditHook(h) ==
    /\ changes < MaxEdits /\ changes' = changes + 1
    /\ \E row \in HookRows : row # hook[h] /\ hook' = [hook EXCEPT ![h] = row]
    /\ UNCHANGED <<ended, round, record, received>>
-----------------------------------------------------------------------------
HookInit ==
    /\ ended = "active" /\ changes = 0 /\ round = NoRound
    /\ hook \in [Hooks -> HookRows \cup {NoHook}]
    /\ record = [h \in Hooks |-> NoRecord] /\ received = [h \in Hooks |-> 0]
HookNext ==
    \/ UserStops \/ CloseAndTell \/ Load \/ Finish
    \/ \E h \in Hooks :
          PassOver(h) \/ BeginRecord(h) \/ Attempt(h) \/ Store(h) \/ EditHook(h)
HookSpec == HookInit /\ [][HookNext]_hookVars
-----------------------------------------------------------------------------
(* Properties *)

HookTypeOK ==
    /\ ended \in {"active", "succeeded", "failed", "stopped"}
    /\ \A h \in Hooks : hook[h] \in HookRows \cup {NoHook}
    /\ round.step \in {"off", "told", "looking", "sending", "storing", "done", "broken"}
    /\ round.left \subseteq round.loaded
    /\ \A h \in Hooks : record[h].status \in {"none", "pending", "success", "failed"}

\* Whatever fails, is edited or crashes: no endpoint hears of an end that has not been
\* committed or without a record, a record that says success counts the attempts that
\* brought the message, one that says failed has used up the attempts of its hook.
RecordsTell ==
    \A h \in Hooks :
        /\ received[h] > 0 => record[h] # NoRecord /\ ended # "active"
        /\ record[h].status = "success" => received[h] \in 1..record[h].attempts
        /\ record[h].status = "failed" /\ changes = 0 => record[h].attempts = AttemptsOf(hook[h])

\* A hook whose endpoint, text or commit fails keeps no other from being told: a round that is
\* over has an outcome for every enabled hook that wants the event, but for those whose own
\* record could not be written; a round that a refused statement has broken has one for every
\* such hook before the one it broke at.  (An edit in the middle of the round may make a hook
\* want it too late.)
OthersAreTold ==
    round.step \in {"done", "broken"} /\ changes = 0 =>
        \A h \in round.loaded \ round.spoilt :
            \/ round.event \in hook[h].wants => record[h].status \in {"success", "failed"}
            \/ round.step = "broken" /\ \A g \in round.spoilt : g < h

\* What the records say is what was sent, and no hook is forgotten because of another.
HooksAreTold == RecordsTell /\ OthersAreTold
=============================================================================
