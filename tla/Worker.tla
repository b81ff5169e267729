------------------------------- MODULE Worker -------------------------------
(***************************************************************************)
(* The event loop of one worker (service_runtime.py, run): the ingestion   *)
(* supervisor, the Gamma bootstrap and the Gamma loop hand batches of      *)
(* events to one handler, which evaluates and dispatches them under one    *)
(* lock; a listener reloads rules and alerts when Postgres notifies it     *)
(* that the rules changed, and swaps them in under the same lock; run      *)
(* starts these tasks and stops them one after the other.                  *)
(*                                                                         *)
(* The worker is configured with Gamma tags, a poll interval and the       *)
(* database stores.  Connection and heartbeat of the supervisor are not    *)
(* here; what the event handler makes of an event is RuleRuntime and       *)
(* Delivery; how the alerts get into the cache is AlertConfig.             *)
(***************************************************************************)
EXTENDS Integers, Sequences

CONSTANTS
  RuleSet,     \* rule sets that can be active
  NoRules,     \* no rule set is active
  Alerts,      \* contents of the alert and binding tables
  Knows,       \* [RuleSet -> the Alerts whose rules are all in the set]
  FirstRules, FirstAlerts,  \* what the worker started with
  MaxChanges,  \* bound on the commits to the rule tables
  MaxEvents    \* bound on the events of a batch

ASSUME WorkerAssumption ==
  /\ NoRules \notin RuleSet
  /\ FirstRules \in RuleSet /\ FirstAlerts \in Alerts
  /\ Knows \in [RuleSet -> SUBSET Alerts] /\ FirstAlerts \in Knows[FirstRules]
  /\ MaxChanges \in Nat /\ MaxEvents \in Nat \ {0}

VARIABLES
  active,   \* the active rule set in Postgres
  changes,  \* number of commits to the rule tables so far
  alerts,   \* alerts and bindings in Postgres
  cached,   \* alerts and bindings the Redis snapshot may still hold
  inbox,    \* commits whose NOTIFY waits on the listener's connection
  lost,     \* history: commits whose NOTIFY nobody received or no reload followed
  reload,   \* the listener
  loaded,   \* bindings, alert_by_id and channel_bindings in use
  queue,    \* the pipeline lock: its holder, then those waiting for it
  task,     \* the tasks that hand batches over
  phase     \* where run() stands

vars == <<active, changes, alerts, cached, inbox, lost, reload, loaded, queue, task, phase>>
stored == <<active, changes, alerts, cached>>

-----------------------------------------------------------------------------

Task == {"ws", "boot", "gamma"}

\* What is in use: the rules as of a commit, and the alerts.
Config == [asOf : Nat, alerts : Alerts]

\* `left' counts the events of the batch still to be evaluated; `seen' is history: the
\* configurations the batch has been evaluated or dispatched under.
Batch == [stage : {"off", "ready", "batch", "sending", "done"}, left : Nat,
          seen : SUBSET Config]
Idle(stage) == [stage |-> stage, left |-> 0, seen |-> {}]
InBatch(t) == task[t].stage \in {"batch", "sending"}

\* `serves' is the commit whose notification is being handled, 0 for none.
Listener == [stage : {"off", "backoff", "listening", "rules", "alerts", "waiting", "done"},
             serves : Nat, asOf : Nat, rules : RuleSet, alerts : Alerts]
ListenerAt(stage) == [stage |-> stage, serves |-> 0, asOf |-> 0, rules |-> FirstRules,
                      alerts |-> FirstAlerts]

\* Who takes the pipeline lock, and who has asked for it by now.
Member == Task \cup {"reload"}
Asking == {t \in Task : InBatch(t)} \cup {x \in {"reload"} : reload.stage = "waiting"}

\* LISTEN is in force on an open connection.
Connected == reload.stage \in {"listening", "rules", "alerts", "waiting"}

\* psycopg's synchronous queries keep the event loop from running anything else.
LoopFree == reload.stage \notin {"rules", "alerts"}

Init ==
  /\ active = FirstRules /\ changes = 0 /\ alerts = FirstAlerts /\ cached = FirstAlerts
  /\ inbox = {} /\ lost = {} /\ reload = ListenerAt("off")
  /\ loaded = [asOf |-> 0, alerts |-> FirstAlerts]
  /\ queue = <<>>
  /\ task = [t \in Task |-> Idle(IF t = "gamma" THEN "off" ELSE "ready")]
  /\ phase = "boot"

\* Mutant: a release wakes nobody, the first to come takes the lock.
Barge(q, x) == IF q = <<>> THEN <<x>> ELSE <<Head(q), x>> \o Tail(q)

(* asyncio.Lock is fair: a release wakes the first waiter, and whoever comes while there
   are waiters joins their end.  A cancelled waiter leaves. *)
Acquire(q, x) == Append(q, x)
Holds(x) == queue # <<>> /\ Head(queue) = x
Without(q, x) ==
  IF \E i \in DOMAIN q : q[i] = x
  THEN LET i == CHOOSE j \in DOMAIN q : q[j] = x
       IN  [j \in 1 .. Len(q) - 1 |-> IF j < i THEN q[j] ELSE q[j + 1]]
  ELSE q

-----------------------------------------------------------------------------
(* Postgres and the users. *)

\* A commit to the rule tables, seen by the trigger notify_rules_changed: it may edit
\* the active set, activate another one, or leave none active.  One commit stands for
\* one notification; a commit that touches several rows sends several.
ChangeRules(s) ==
  /\ changes < MaxChanges
  /\ changes' = changes + 1 /\ active' = s
  /\ IF Connected THEN inbox' = inbox \cup {changes'} /\ UNCHANGED lost
                  ELSE lost' = lost \cup {changes'} /\ UNCHANGED inbox
  /\ UNCHANGED <<alerts, cached, reload, loaded, queue, task, phase>>

\* An API request changes alerts or bindings; those tables have no trigger.
ChangeAlerts(a) ==
  /\ a # alerts
  /\ alerts' = a
  /\ UNCHANGED <<active, changes, cached, inbox, lost, reload, loaded, queue, task, phase>>

-----------------------------------------------------------------------------
(* The reload listener. *)

\* connect and LISTEN; nothing is reloaded on account of what happened before.
Connect ==
  /\ reload.stage = "backoff"
  /\ reload' = ListenerAt("listening")
  /\ UNCHANGED <<stored, inbox, lost, loaded, queue, task, phase>>

\* The connection ends and its notifications with it, the one being handled included.
ListenerFails ==
  /\ reload' = ListenerAt("backoff")
  /\ inbox' = {} /\ lost' = lost \cup inbox \cup ({reload.serves} \ {0})
  /\ UNCHANGED <<active, changes, alerts, loaded, queue, task, phase>>

\* The connection breaks, or two seconds pass without a notification: wait_for then
\* cancels the generator, which is finished when __anext__ is called again.
ConnectionEnds == reload.stage = "listening" /\ ListenerFails /\ UNCHANGED cached

\* The next notification is taken.
Notice(n) ==
  /\ reload.stage = "listening"
  /\ n \in inbox /\ \A m \in inbox : n <= m
  /\ inbox' = inbox \ {n}
  /\ reload' = [reload EXCEPT !.stage = "rules", !.serves = n]
  /\ UNCHANGED <<stored, lost, loaded, queue, task, phase>>

\* _load_runtime_rules: strict, no active rule set is an error.  It runs several queries
\* that each see what is committed by then; here they are one step, and what a commit
\* between two of them would mix is left out.
LoadRules ==
  /\ reload.stage = "rules"
  /\ IF active = NoRules
     THEN ListenerFails /\ UNCHANGED cached
     ELSE /\ reload' = [reload EXCEPT !.stage = "alerts", !.asOf = changes, !.rules = active]
          /\ UNCHANGED <<stored, inbox, lost, loaded, queue, task, phase>>

\* _load_runtime_alert_config, from the cache or from Postgres, and _build_rule_bindings:
\* an alert of a rule that was not loaded is an error, else the listener asks for the lock.
LoadAlerts ==
  /\ reload.stage = "alerts"
  /\ \E a \in {alerts, cached} :
       /\ cached' = a
       /\ IF a \notin Knows[reload.rules]
          THEN ListenerFails
          ELSE /\ reload' = [reload EXCEPT !.stage = "waiting", !.alerts = a]
               /\ queue' = Acquire(queue, "reload")
               /\ UNCHANGED <<active, changes, alerts, inbox, lost, loaded, task, phase>>

\* Postgres or Redis cannot be reached.
LoadFails == reload.stage \in {"rules", "alerts"} /\ ListenerFails /\ UNCHANGED cached

\* Mutant: what arrived during the reload is taken for covered by it.
SwapAndDrain ==
  /\ reload.stage = "waiting" /\ Holds("reload")
  /\ loaded' = [asOf |-> reload.asOf, alerts |-> reload.alerts]
  /\ queue' = Tail(queue)
  /\ reload' = ListenerAt("listening") /\ inbox' = {}
  /\ UNCHANGED <<stored, lost, task, phase>>

\* Mutant: the lists are replaced without the lock.
SwapUnlocked ==
  /\ reload.stage = "waiting"
  /\ loaded' = [asOf |-> reload.asOf, alerts |-> reload.alerts]
  /\ queue' = Without(queue, "reload")
  /\ reload' = ListenerAt("listening")
  /\ UNCHANGED <<stored, inbox, lost, task, phase>>

\* The body of `async with event_pipeline_lock' in _reload_runtime_bindings.
Swap ==
  /\ reload.stage = "waiting" /\ Holds("reload")
  /\ loaded' = [asOf |-> reload.asOf, alerts |-> reload.alerts]
  /\ queue' = Tail(queue)
  /\ reload' = ListenerAt("listening")
  /\ UNCHANGED <<stored, inbox, lost, task, phase>>

-----------------------------------------------------------------------------
(* The tasks that hand batches over, and the handler on_events. *)

\* A batch is there: on_events is called and asks for the lock.
StartBatch(t) ==
  /\ LoopFree /\ task[t].stage = "ready" /\ phase # "stopped"
  /\ \E n \in 1 .. MaxEvents :
       task' = [task EXCEPT ![t] = [stage |-> "batch", left |-> n, seen |-> {}]]
  /\ queue' = Acquire(queue, t)
  /\ UNCHANGED <<stored, inbox, lost, reload, loaded, phase>>

\* evaluate_event on the next event, which decides nothing, or the handler goes on to
\* await a dispatch.
Evaluate(t) ==
  /\ LoopFree /\ Holds(t) /\ task[t].stage = "batch" /\ task[t].left > 0
  /\ \E next \in {"batch", "sending"} :
       task' = [task EXCEPT ![t] = [stage |-> next, left |-> @.left - 1,
                                    seen |-> @.seen \cup {loaded}]]
  /\ UNCHANGED <<stored, inbox, lost, reload, loaded, queue, phase>>

\* The dispatch has gone over channel_bindings and returned.
Dispatched(t) ==
  /\ LoopFree /\ task[t].stage = "sending"
  /\ task' = [task EXCEPT ![t].stage = "batch", ![t].seen = @ \cup {loaded}]
  /\ UNCHANGED <<stored, inbox, lost, reload, loaded, queue, phase>>

\* The handler returns.  After the bootstrap's batch run() starts the other tasks.
FinishBatch(t) ==
  /\ LoopFree /\ Holds(t) /\ task[t].stage = "batch" /\ task[t].left = 0
  /\ queue' = Tail(queue)
  /\ IF t = "boot"
     THEN /\ task' = [task EXCEPT !["boot"] = Idle("done"), !["gamma"] = Idle("ready")]
          /\ reload' = ListenerAt("backoff") /\ phase' = "run"
     ELSE /\ task' = [task EXCEPT ![t] = Idle("ready")]
          /\ UNCHANGED <<reload, phase>>
  /\ UNCHANGED <<stored, inbox, lost, loaded>>

\* Where the exception of a batch leads: the supervisor reconnects or ends, the Gamma
\* loop ends, run() fails.
After(t) == CASE t = "ws" -> {"ready", "done"} [] OTHER -> {"done"}

\* Mutant: the lock is not given back on an error.
BatchFailsHolding(t) ==
  /\ LoopFree /\ InBatch(t) /\ Holds(t)
  /\ \E next \in After(t) : task' = [task EXCEPT ![t] = Idle(next)]
  /\ phase' = IF t = "boot" THEN "stopGamma" ELSE phase
  /\ UNCHANGED <<stored, inbox, lost, reload, loaded, queue>>

\* evaluate_event or dispatch raises, the rest of the batch is dropped.
BatchFails(t) ==
  /\ LoopFree /\ InBatch(t) /\ Holds(t)
  /\ \E next \in After(t) : task' = [task EXCEPT ![t] = Idle(next)]
  /\ queue' = Tail(queue)
  /\ phase' = IF t = "boot" THEN "stopGamma" ELSE phase
  /\ UNCHANGED <<stored, inbox, lost, reload, loaded>>

-----------------------------------------------------------------------------
(* run(): the end.  Cancelling a task takes it out of the lock, and out of its batch. *)

Cancel(t) == task' = [task EXCEPT ![t] = Idle("done")] /\ queue' = Without(queue, t)

\* The worker is interrupted, or the first Gamma poll fails.
Interrupt ==
  /\ LoopFree /\ phase \in {"boot", "run"}
  /\ phase' = "stopGamma" /\ Cancel("boot")
  /\ UNCHANGED <<stored, inbox, lost, reload, loaded>>

\* The supervisor ended, with an error it does not survive.
SupervisorEnds ==
  /\ LoopFree /\ phase = "run" /\ task["ws"].stage = "done"
  /\ phase' = "stopGamma"
  /\ UNCHANGED <<stored, inbox, lost, reload, loaded, queue, task>>

\* _await_gamma_task_cancelled
StopGamma ==
  /\ LoopFree /\ phase = "stopGamma"
  /\ phase' = "stopReload" /\ Cancel("gamma")
  /\ UNCHANGED <<stored, inbox, lost, reload, loaded>>

\* Mutant: the listener is cancelled but its place in the lock's queue stays.
StopReloadInQueue ==
  /\ LoopFree /\ phase = "stopReload"
  /\ phase' = "stopWs"
  /\ reload' = ListenerAt("done")
  /\ inbox' = {} /\ lost' = lost \cup inbox \cup ({reload.serves} \ {0})
  /\ UNCHANGED <<stored, loaded, task, queue>>

\* rules_reload_task.cancel() and the wait for it.
StopReload ==
  /\ LoopFree /\ phase = "stopReload"
  /\ phase' = "stopWs"
  /\ reload' = ListenerAt("done")
  /\ inbox' = {} /\ lost' = lost \cup inbox \cup ({reload.serves} \ {0})
  /\ queue' = Without(queue, "reload")
  /\ UNCHANGED <<stored, loaded, task>>

\* _shutdown_supervisor: stop_event is set, the supervisor may finish its batch and is
\* cancelled after two seconds.  If it has ended with an error meanwhile, wait_for raises
\* it again and run() ends with it, without ws_client.close() and the last log line, and
\* with the same tasks and the same lock.
StopWs ==
  /\ phase = "stopWs"
  /\ phase' = "stopped" /\ Cancel("ws")
  /\ UNCHANGED <<stored, inbox, lost, reload, loaded>>

TaskStep(t) == Evaluate(t) \/ Dispatched(t) \/ FinishBatch(t)
ReloadStep == Connect \/ (\E n \in inbox : Notice(n)) \/ LoadRules \/ LoadAlerts \/ Swap
StopStep == SupervisorEnds \/ StopGamma \/ StopReload \/ StopWs

Next ==
  \/ \E s \in RuleSet \cup {NoRules} : ChangeRules(s)
  \/ \E a \in Alerts : ChangeAlerts(a)
  \/ ReloadStep \/ ConnectionEnds \/ LoadFails
  \/ \E t \in Task : StartBatch(t) \/ TaskStep(t) \/ BatchFails(t)
  \/ Interrupt \/ StopStep

\* The loop runs what is ready, queries and sends return or raise; new batches, failures
\* and the world outside are not fair.
Fairness ==
  /\ \A t \in Task : WF_vars(TaskStep(t))
  /\ WF_vars(ReloadStep) /\ WF_vars(StopStep)

Spec == Init /\ [][Next]_vars /\ Fairness

-----------------------------------------------------------------------------
(* Properties. *)

\* q is a line of exactly the members of S, each at one place.
IsLine(q, S) ==
  /\ q \in Seq(Member)
  /\ \A i, j \in DOMAIN q : q[i] = q[j] => i = j
  /\ {q[i] : i \in DOMAIN q} = S

Types ==
  /\ active \in RuleSet \cup {NoRules} /\ changes \in Nat
  /\ alerts \in Alerts /\ cached \in Alerts
  /\ inbox \subseteq 1 .. changes /\ lost \subseteq 1 .. changes
  /\ reload \in Listener /\ loaded \in Config
  /\ task \in [Task -> Batch]
  /\ phase \in {"boot", "run", "stopGamma", "stopReload", "stopWs", "stopped"}

\* Every variable has its type, and the lock's queue holds exactly those that asked for
\* the lock and have neither given it back nor been cancelled, once each.
TypeOK == Types /\ IsLine(queue, Asking)

\* All events of a batch are evaluated, and all their decisions dispatched, under the
\* rules, alerts and bindings of one reload, although the handler awaits in between
\* (event_pipeline_lock).
OneConfigPerBatch ==
  \A t \in Task : InBatch(t) => task[t].seen \subseteq {loaded}

\* A change of the rules that the worker does not use yet is waiting on the connection,
\* is being reloaded, or its notification went down with a connection: the listener
\* itself forgets none, whatever arrives during a reload.
ChangesAccounted ==
  \A n \in loaded.asOf + 1 .. changes : n \in inbox \cup lost \cup {reload.serves}

\* A reload that waits for the lock gets it or is cancelled, however many batches come.
ReloadApplies == reload.stage = "waiting" ~> reload.stage # "waiting"

\* Once it begins, the shutdown ends, and when it has ended nothing holds or awaits the
\* lock and nothing is under way.
ShutdownCompletes ==
  phase = "stopGamma" ~>
    /\ phase = "stopped" /\ queue = <<>>
    /\ \A t \in Task : task[t].stage = "done"

\* "workers do not rely on stale in-process config": a running worker comes to use the
\* alerts that are in Postgres.
AlertsApplied == []<>(loaded.alerts = alerts \/ phase # "run")

=============================================================================
