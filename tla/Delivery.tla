------------------------------ MODULE Delivery ------------------------------
(***************************************************************************)
(* DeliveryDispatcher.dispatch (delivery_runtime.py) run by several worker *)
(* processes against one Redis.                                            *)
(*                                                                         *)
(* A Dispatch is one running call of dispatch(): a coroutine of a worker.  *)
(* It reads the user's mute key, writes the trigger audit record, then for *)
(* each channel of the alert resolves a binding and takes, in this order,  *)
(* the cooldown key, a backpressure slot and the idempotency key; only     *)
(* then does it send the accepted items one after the other, each with     *)
(* retries.  Every Redis command is one step, so dispatches of different   *)
(* workers interleave between any two commands; the coroutines of one      *)
(* worker switch only where the code awaits (LoopFree).                    *)
(*                                                                         *)
(* Redis keys with a TTL are kept as the time at which they expire; `clock'*)
(* is the wall clock the TTLs run on.                                      *)
(***************************************************************************)
EXTENDS Backpressure, Sequences, FiniteSetsExt

CONSTANTS
  Worker,           \* worker processes
  Dispatch,         \* coroutines running dispatch()
  WorkerOf,         \* [Dispatch -> Worker]
  ExecuteSends,     \* [Worker -> BOOLEAN]: FALSE is a dry-run worker
  TriggerKey,       \* trigger keys the rule runtime has reserved
  Scope,            \* (tenant, rule, version, scope_id) of a trigger
  ScopeOf,          \* [TriggerKey -> Scope]
  User, Alert,
  UserOf,           \* [Alert -> User]
  Channel,
  ChannelsOf,       \* [Alert -> Seq(Channel)]: alert.channels
  CooldownOf,       \* [Alert -> Nat]: alert.cooldown_seconds
  Registered,       \* channels with a provider in the registry
  Destination,
  NoDestination,    \* no verified binding for the user and channel
  Bindings,         \* the binding lists a worker may hold, as functions
  MaxAttempts,      \* dispatcher.max_attempts
  IdempotencyTTL,   \* dispatcher.delivery_idempotency_ttl_seconds
  MuteSeconds,      \* durations of /mute
  MaxTime,          \* bound on the clock
  MaxDispatches,    \* bound on the number of dispatch() calls
  MaxFaults         \* bound on failed Redis calls, raised errors and crashes

ASSUME DeliveryAssumption ==
  /\ TriggerKey # {} /\ Alert # {} /\ Bindings # {} /\ IsFiniteSet(Dispatch)
  /\ WorkerOf \in [Dispatch -> Worker]
  /\ ExecuteSends \in [Worker -> BOOLEAN]
  /\ ScopeOf \in [TriggerKey -> Scope]
  /\ UserOf \in [Alert -> User]
  /\ ChannelsOf \in [Alert -> Seq(Channel)]
  /\ CooldownOf \in [Alert -> Nat]
  /\ Registered \subseteq Channel
  /\ NoDestination \notin Destination
  /\ Bindings \subseteq [User \X Channel -> Destination \cup {NoDestination}]
  /\ MaxAttempts \in Nat \ {0}
  /\ IdempotencyTTL \in Nat \ {0}
  /\ MuteSeconds \subseteq Nat \ {0}
  /\ MaxTime \in Nat /\ MaxDispatches \in Nat /\ MaxFaults \in Nat

VARIABLES
  clock,
  audit,        \* trigger keys with an audit record
  auditIndex,   \* trigger keys in the list that all() reads
  cooldown,     \* [Scope \X Channel -> expiry of the cooldown key]
  idempotency,  \* [DeliveryKey -> expiry of the idempotency key]
  mute,         \* [User -> expiry of the mute key]
  attempts,     \* delivery attempts on record
  controller,   \* [Worker -> backpressure controller]
  call,         \* [Dispatch -> local state of the running dispatch()]
  launched,     \* dispatch() calls so far
  faults,       \* failures injected so far
  claims,       \* history: idempotency keys taken, numbered per key, with the time
  abandoned,    \* history: claims whose item was dropped without a terminal attempt
  received,     \* history: messages the recipient got
  leaked        \* history: [Worker -> slots nobody will release]

redis == <<audit, auditIndex, cooldown, idempotency, mute, attempts>>
history == <<claims, abandoned, received, leaked>>
vars == <<clock, redis, controller, call, launched, faults, history>>

-----------------------------------------------------------------------------

\* trigger_key:channel:destination
DeliveryKey == [trigger : TriggerKey, channel : Channel, destination : Destination]

\* A claim is one successful reservation of a delivery key: the n-th of that key.
Item == [key : DeliveryKey, n : Nat \ {0}]

Claim == [key : DeliveryKey, n : Nat \ {0}, at : Nat, passedAt : Nat, cooldown : Nat]

Receipt == [key : DeliveryKey, n : Nat \ {0}, no : 1 .. MaxAttempts]

\* The points at which a dispatch() call can be preempted or fail.
Stage == {"idle", "audit", "index", "prepare", "slot", "claim", "sending", "answered"}

Answer == {"none", "sent", "retryable", "permanent"}

Call == [stage   : Stage,
         trigger : TriggerKey,
         alert   : Alert,
         binding : Bindings,
         next    : Nat \ {0},          \* position in alert.channels
         items   : Seq(Item),          \* enqueued items not yet delivered
         attempt : 1 .. MaxAttempts,   \* attempt_no of the item being sent
         passedAt : Nat,               \* when the cooldown check let the channel pass
         answer  : Answer]

\* Between calls the parameters keep a value nothing reads.
IdleCall == [stage   |-> "idle",
             trigger |-> CHOOSE k \in TriggerKey : TRUE,
             alert   |-> CHOOSE a \in Alert : TRUE,
             binding |-> CHOOSE b \in Bindings : TRUE,
             next    |-> 1,
             items   |-> <<>>,
             attempt |-> 1,
             passedAt |-> 0,
             answer  |-> "none"]

\* Mutant: the last attempt is still recorded as one to retry.
AttemptStatusOffByOne(answer, no) ==
  IF answer = "sent" THEN "sent"
  ELSE IF answer = "retryable" /\ no <= MaxAttempts THEN "retrying"
  ELSE "failed"

\* The statuses DeliveryAttempt records (_attempt_status).
AttemptStatus(answer, no) ==
  IF answer = "sent" THEN "sent"
  ELSE IF answer = "retryable" /\ no < MaxAttempts THEN "retrying"
  ELSE "failed"

Attempt == [key : DeliveryKey, n : Nat \ {0}, no : 1 .. MaxAttempts,
            status : {"sent", "retrying", "failed"}]

Init ==
  /\ clock = 0
  /\ audit = {} /\ auditIndex = {}
  /\ cooldown = [s \in Scope \X Channel |-> 0]
  /\ idempotency = [k \in DeliveryKey |-> 0]
  /\ mute = [u \in User |-> 0]
  /\ attempts = {}
  /\ controller = [w \in Worker |-> FreshController]
  /\ call = [d \in Dispatch |-> IdleCall]
  /\ launched = 0 /\ faults = 0
  /\ claims = {} /\ abandoned = {} /\ received = {}
  /\ leaked = [w \in Worker |-> 0]

-----------------------------------------------------------------------------
(* The local state of a call. *)

\* No other coroutine of the worker is between two awaits.
LoopFree(d) ==
  \A o \in Dispatch \ {d} :
    WorkerOf[o] = WorkerOf[d] => call[o].stage \in {"idle", "sending", "answered"}

At(d, stage) == call[d].stage = stage /\ LoopFree(d)

Channels(d) == ChannelsOf[call[d].alert]
ChannelAt(d) == Channels(d)[call[d].next]
Resolved(d) == call[d].binding[<<UserOf[call[d].alert], ChannelAt(d)>>]
CooldownKey(d) == <<ScopeOf[call[d].trigger], ChannelAt(d)>>
KeyAt(d) ==
  [trigger |-> call[d].trigger, channel |-> ChannelAt(d), destination |-> Resolved(d)]

\* Mutants: SET without NX; a TTL one second short.
FreeWithoutNX(expiry) == TRUE
FreeEarly(expiry) == clock + 1 >= expiry

\* A key whose TTL is over: SET NX succeeds, GET finds nothing.
Free(expiry) == clock >= expiry

HasChannel(d) == call[d].next <= Len(Channels(d))

Goto(d, stage) == call' = [call EXCEPT ![d].stage = stage]
NextChannel(d) ==
  call' = [call EXCEPT ![d].stage = "prepare", ![d].next = @ + 1, ![d].passedAt = 0]
Return(d) == call' = [call EXCEPT ![d] = IdleCall]

SetController(w, b) == controller' = [controller EXCEPT ![w] = b]

\* Slots the call holds: one per enqueued item, one between slot and claim.
Held(d) == Len(call[d].items) + (IF call[d].stage = "claim" THEN 1 ELSE 0)

ItemsOf(d) == {call[d].items[i] : i \in 1 .. Len(call[d].items)}
ClaimCount(k) == Cardinality({c \in claims : c.key = k})

-----------------------------------------------------------------------------
(* dispatch(): mute check, audit record. *)

\* A muted user's decision is dropped before anything is written.
DispatchMuted(d, k, a) ==
  /\ call[d].stage = "idle" /\ LoopFree(d)
  /\ launched < MaxDispatches
  /\ ~Free(mute[UserOf[a]])
  /\ launched' = launched + 1
  /\ UNCHANGED <<clock, redis, controller, call, faults, history>>

\* The user is not muted, or the mute store fails and the check fails open.
DispatchStart(d, k, a, b) ==
  /\ call[d].stage = "idle" /\ LoopFree(d)
  /\ launched < MaxDispatches
  /\ \/ Free(mute[UserOf[a]]) /\ UNCHANGED faults
     \/ faults < MaxFaults /\ faults' = faults + 1
  /\ launched' = launched + 1
  /\ call' = [call EXCEPT ![d] = [IdleCall EXCEPT !.stage = "audit", !.trigger = k,
                                                  !.alert = a, !.binding = b]]
  /\ UNCHANGED <<clock, redis, controller, history>>

\* Mutant: a failing audit store does not stop the delivery.
AuditFailsOpen(d) ==
  /\ At(d, "audit") /\ Goto(d, "prepare")
  /\ UNCHANGED <<clock, redis, controller, launched, faults, history>>

\* save_once, first command: SET NX of the record.
AuditTrigger(d) ==
  /\ At(d, "audit")
  /\ Goto(d, IF call[d].trigger \in audit THEN "prepare" ELSE "index")
  /\ audit' = audit \cup {call[d].trigger}
  /\ UNCHANGED <<clock, auditIndex, cooldown, idempotency, mute, attempts, controller,
                 launched, faults, history>>

\* save_once, second command: RPUSH to the index list.
AuditIndex(d) ==
  /\ At(d, "index")
  /\ auditIndex' = auditIndex \cup {call[d].trigger}
  /\ Goto(d, "prepare")
  /\ UNCHANGED <<clock, audit, cooldown, idempotency, mute, attempts, controller,
                 launched, faults, history>>

-----------------------------------------------------------------------------
(* _prepare_channel_enqueue, once per channel of the alert. *)

SkipMissingBinding(d) ==
  /\ At(d, "prepare") /\ HasChannel(d)
  /\ Resolved(d) = NoDestination
  /\ NextChannel(d)
  /\ UNCHANGED <<clock, redis, controller, launched, faults, history>>

SkipCooldown(d) ==
  /\ At(d, "prepare") /\ HasChannel(d)
  /\ Resolved(d) # NoDestination
  /\ CooldownOf[call[d].alert] > 0
  /\ ~Free(cooldown[CooldownKey(d)])
  /\ NextChannel(d)
  /\ UNCHANGED <<clock, redis, controller, launched, faults, history>>

\* SET NX EX of the cooldown key; no key is written for a cooldown of 0.
PassCooldown(d) ==
  /\ At(d, "prepare") /\ HasChannel(d)
  /\ Resolved(d) # NoDestination
  /\ \/ CooldownOf[call[d].alert] = 0 /\ UNCHANGED cooldown
     \/ /\ CooldownOf[call[d].alert] > 0
        /\ Free(cooldown[CooldownKey(d)])
        /\ cooldown' = [cooldown EXCEPT ![CooldownKey(d)] =
                          clock + CooldownOf[call[d].alert]]
  /\ call' = [call EXCEPT ![d].stage = "slot", ![d].passedAt = clock]
  /\ UNCHANGED <<clock, audit, auditIndex, idempotency, mute, attempts, controller,
                 launched, faults, history>>

\* The cooldown key just taken stays, although nothing will be sent for it.
SkipBackpressure(d) ==
  /\ At(d, "slot")
  /\ ~HasSlot(controller[WorkerOf[d]])
  /\ SetController(WorkerOf[d], Refused(controller[WorkerOf[d]]))
  /\ NextChannel(d)
  /\ UNCHANGED <<clock, redis, launched, faults, history>>

ReserveSlot(d) ==
  /\ At(d, "slot")
  /\ HasSlot(controller[WorkerOf[d]])
  /\ SetController(WorkerOf[d], Reserved(controller[WorkerOf[d]]))
  /\ Goto(d, "claim")
  /\ UNCHANGED <<clock, redis, launched, faults, history>>

\* Mutant: the slot of a refused reservation is not given back.
SkipIdempotentKeepsSlot(d) ==
  /\ At(d, "claim") /\ ~Free(idempotency[KeyAt(d)])
  /\ NextChannel(d)
  /\ UNCHANGED <<clock, redis, controller, launched, faults, history>>

SkipIdempotent(d) ==
  /\ At(d, "claim")
  /\ ~Free(idempotency[KeyAt(d)])
  /\ SetController(WorkerOf[d], Released(controller[WorkerOf[d]]))
  /\ NextChannel(d)
  /\ UNCHANGED <<clock, redis, launched, faults, history>>

\* SET NX EX of the idempotency key; the item joins the list to deliver.
Enqueue(d) ==
  LET n == ClaimCount(KeyAt(d)) + 1
  IN /\ At(d, "claim")
     /\ Free(idempotency[KeyAt(d)])
     /\ idempotency' = [idempotency EXCEPT ![KeyAt(d)] = clock + IdempotencyTTL]
     /\ claims' = claims \cup {[key |-> KeyAt(d), n |-> n, at |-> clock,
                                passedAt |-> call[d].passedAt,
                                cooldown |-> CooldownOf[call[d].alert]]}
     /\ call' = [call EXCEPT ![d].stage = "prepare", ![d].next = @ + 1, ![d].passedAt = 0,
                             ![d].items = Append(@, [key |-> KeyAt(d), n |-> n])]
     /\ UNCHANGED <<clock, audit, auditIndex, cooldown, mute, attempts, controller,
                    launched, faults, abandoned, received, leaked>>

-----------------------------------------------------------------------------
(* Delivery of the enqueued items, in order. *)

\* A dry-run worker gives the slots back one by one and sends nothing.
ReleaseUnsent(d) ==
  /\ At(d, "prepare") /\ ~HasChannel(d)
  /\ ~ExecuteSends[WorkerOf[d]] /\ call[d].items # <<>>
  /\ SetController(WorkerOf[d], Released(controller[WorkerOf[d]]))
  /\ abandoned' = abandoned \cup {Head(call[d].items)}
  /\ call' = [call EXCEPT ![d].items = Tail(@)]
  /\ UNCHANGED <<clock, redis, launched, faults, claims, received, leaked>>

FinishEmpty(d) ==
  /\ At(d, "prepare") /\ ~HasChannel(d)
  /\ call[d].items = <<>>
  /\ Return(d)
  /\ UNCHANGED <<clock, redis, controller, launched, faults, history>>

StartSending(d) ==
  /\ At(d, "prepare") /\ ~HasChannel(d)
  /\ ExecuteSends[WorkerOf[d]] /\ call[d].items # <<>>
  /\ Goto(d, "sending")
  /\ UNCHANGED <<clock, redis, controller, launched, faults, history>>

HasProvider(d) == Head(call[d].items).key.channel \in Registered

ReceiptOf(d) == [key |-> Head(call[d].items).key, n |-> Head(call[d].items).n,
                 no |-> call[d].attempt]

\* The provider answers while the coroutine awaits it.  An answer other than
\* "sent" does not say that the recipient got nothing: a 5xx of a gateway or an
\* unreadable body may follow a message that was accepted.
ProviderAnswers(d, answer, delivered) ==
  /\ call[d].stage = "sending" /\ HasProvider(d)
  /\ answer = "sent" => delivered
  /\ received' = IF delivered THEN received \cup {ReceiptOf(d)} ELSE received
  /\ call' = [call EXCEPT ![d].stage = "answered", ![d].answer = answer]
  /\ UNCHANGED <<clock, redis, controller, launched, faults, claims, abandoned, leaked>>

Record(d) ==
  [key |-> Head(call[d].items).key, n |-> Head(call[d].items).n, no |-> call[d].attempt,
   status |-> AttemptStatus(call[d].answer, call[d].attempt)]

\* The next attempt after one of these failures.
Retry(d, failures, no) ==
  /\ At(d, "answered")
  /\ call[d].answer \in failures /\ call[d].attempt < MaxAttempts
  /\ call' = [call EXCEPT ![d].stage = "sending", ![d].attempt = no,
                          ![d].answer = "none"]
  /\ UNCHANGED <<clock, audit, auditIndex, cooldown, idempotency, mute, controller,
                 launched, faults, history>>

\* Mutants: the attempt is not counted; any failure is retried; the failed attempt is
\* not recorded.
RetryForever(d) ==
  Retry(d, {"retryable"}, call[d].attempt) /\ attempts' = attempts \cup {Record(d)}

RetryPermanent(d) ==
  /\ Retry(d, {"retryable", "permanent"}, call[d].attempt + 1)
  /\ attempts' = attempts \cup {Record(d)}

RetryUnrecorded(d) ==
  Retry(d, {"retryable"}, call[d].attempt + 1) /\ UNCHANGED attempts

\* save_for_user, then the next attempt.  The five commands of the save are one step, as
\* nothing else writes the attempt, and trimming the index lists cannot fail it.
RetryAttempt(d) ==
  /\ Retry(d, {"retryable"}, call[d].attempt + 1)
  /\ attempts' = attempts \cup {Record(d)}

\* save_for_user of the terminal attempt; the slot is released and the next item,
\* if there is one, is sent.
FinishItem(d) ==
  /\ At(d, "answered")
  /\ \/ call[d].answer \in {"sent", "permanent"}
     \/ call[d].attempt = MaxAttempts
  /\ attempts' = attempts \cup {Record(d)}
  /\ SetController(WorkerOf[d], Released(controller[WorkerOf[d]]))
  /\ IF Len(call[d].items) = 1
     THEN Return(d)
     ELSE call' = [call EXCEPT ![d].stage = "sending", ![d].items = Tail(@),
                               ![d].attempt = 1, ![d].answer = "none"]
  /\ UNCHANGED <<clock, audit, auditIndex, cooldown, idempotency, mute,
                 launched, faults, history>>

-----------------------------------------------------------------------------
(* Failures. *)

\* An exception leaves dispatch(): a Redis command fails (its effect, if it had
\* one, is that of the step before; a record of an attempt may be saved before one of
\* its index lists fails), provider.send raises, or the channel has no provider.  Only the item being sent releases its slot (the finally clause); the
\* slots of the items behind it, or of the channel being prepared, stay reserved.
DispatchRaises(d) ==
  LET sending == call[d].stage \in {"sending", "answered"}
      b == controller[WorkerOf[d]]
  IN /\ \/ call[d].stage \in {"audit", "index", "claim", "sending", "answered"}
        \/ /\ call[d].stage = "prepare"
           /\ HasChannel(d) \/ (ExecuteSends[WorkerOf[d]] /\ call[d].items # <<>>)
     /\ LoopFree(d)
     /\ \/ faults < MaxFaults /\ faults' = faults + 1
        \/ call[d].stage = "sending" /\ ~HasProvider(d) /\ UNCHANGED faults
     /\ SetController(WorkerOf[d], IF sending THEN Released(b) ELSE b)
     /\ leaked' = [leaked EXCEPT ![WorkerOf[d]] =
                     @ + Held(d) - (IF sending THEN 1 ELSE 0)]
     /\ abandoned' = abandoned \cup ItemsOf(d)
     /\ \/ UNCHANGED attempts
        \/ call[d].stage = "answered" /\ attempts' = attempts \cup {Record(d)}
     /\ Return(d)
     /\ UNCHANGED <<clock, audit, auditIndex, cooldown, idempotency, mute, launched,
                    claims, received>>

\* The worker process dies and a new one takes its place: its calls and its
\* controller are gone, what is in Redis stays.
Crash(w) ==
  LET dead == {d \in Dispatch : WorkerOf[d] = w}
  IN /\ faults < MaxFaults /\ faults' = faults + 1
     /\ \E d \in dead : call[d].stage # "idle"
     /\ call' = [d \in Dispatch |-> IF d \in dead THEN IdleCall ELSE call[d]]
     /\ SetController(w, FreshController)
     /\ leaked' = [leaked EXCEPT ![w] = 0]
     /\ abandoned' = abandoned \cup UNION {ItemsOf(d) : d \in dead}
     /\ UNCHANGED <<clock, redis, launched, claims, received>>

-----------------------------------------------------------------------------
(* The environment: time, and the user's /mute and /unmute. *)

Tick ==
  /\ clock < MaxTime
  /\ clock' = clock + 1
  /\ UNCHANGED <<redis, controller, call, launched, faults, history>>

SetMute(u, seconds) ==
  /\ mute' = [mute EXCEPT ![u] = clock + seconds]
  /\ UNCHANGED <<clock, audit, auditIndex, cooldown, idempotency, attempts, controller,
                 call, launched, faults, history>>

ClearMute(u) ==
  /\ mute' = [mute EXCEPT ![u] = 0]
  /\ UNCHANGED <<clock, audit, auditIndex, cooldown, idempotency, attempts, controller,
                 call, launched, faults, history>>

-----------------------------------------------------------------------------

\* What the coroutine of a running call does next.
Step(d) ==
  \/ AuditTrigger(d) \/ AuditIndex(d)
  \/ SkipMissingBinding(d) \/ SkipCooldown(d) \/ PassCooldown(d)
  \/ SkipBackpressure(d) \/ ReserveSlot(d)
  \/ SkipIdempotent(d) \/ Enqueue(d)
  \/ ReleaseUnsent(d) \/ FinishEmpty(d) \/ StartSending(d)
  \/ \E answer \in Answer \ {"none"}, delivered \in BOOLEAN :
       ProviderAnswers(d, answer, delivered)
  \/ RetryAttempt(d) \/ FinishItem(d)
  \/ DispatchRaises(d)

Next ==
  \/ \E d \in Dispatch :
       \/ \E k \in TriggerKey, a \in Alert : DispatchMuted(d, k, a)
       \/ \E k \in TriggerKey, a \in Alert, b \in Bindings : DispatchStart(d, k, a, b)
       \/ Step(d)
  \/ \E w \in Worker : Crash(w)
  \/ Tick
  \/ \E u \in User, seconds \in MuteSeconds : SetMute(u, seconds)
  \/ \E u \in User : ClearMute(u)

Spec == Init /\ [][Next]_vars

\* The event loop runs every ready coroutine, provider.send has a socket timeout,
\* and every Redis command returns or raises.
FairSpec == Spec /\ \A d \in Dispatch : WF_vars(Step(d))

-----------------------------------------------------------------------------
(* Properties. *)

\* Every variable has its type; a call's queue of items is never longer than the
\* alert's list of channels.
TypeOK ==
  /\ clock \in 0 .. MaxTime
  /\ audit \subseteq TriggerKey /\ auditIndex \subseteq TriggerKey
  /\ cooldown \in [Scope \X Channel -> Nat]
  /\ idempotency \in [DeliveryKey -> Nat]
  /\ mute \in [User -> Nat]
  /\ attempts \subseteq Attempt
  /\ controller \in [Worker -> Controller]
  /\ call \in [Dispatch -> Call]
  /\ launched \in 0 .. MaxDispatches /\ faults \in 0 .. MaxFaults
  /\ claims \subseteq Claim
  /\ abandoned \subseteq Item
  /\ received \subseteq Receipt
  /\ leaked \in [Worker -> Nat]

\* Slots are conserved: what a worker's controller counts as queued is exactly the
\* slots its running calls hold plus those an exception left behind, so no slot is
\* released twice or kept by a call that returned normally (reserve_slot and
\* release_slot around _prepare_channel_enqueue and _deliver_enqueued_items).
SlotAccounting ==
  \A w \in Worker :
    controller[w].queued =
      leaked[w] + MapThenSumSet(Held, {d \in Dispatch : WorkerOf[d] = w})

\* The saturation level is never below what the utilization demands, and it stays
\* raised below the warning threshold only for fewer samples than the recovery
\* window, counted from the last sample at or above the threshold
\* (_apply_state_transition).
SaturationTracksQueue == \A w \in Worker : Tracks(controller[w])

\* Whatever the number of workers, replays and crashes, two reservations of one
\* trigger, channel and destination lie at least the idempotency TTL apart.
ClaimSpacing ==
  \A c1, c2 \in claims :
    c1.key = c2.key /\ c1 # c2
      => c2.at >= c1.at + IdempotencyTTL \/ c1.at >= c2.at + IdempotencyTTL

\* Two deliveries accepted on one (rule, scope, channel) passed the cooldown at
\* least the cooldown of the earlier one apart, also when alerts with different
\* cooldowns share the key; only alerts without a cooldown are exempt.
CooldownSpacing ==
  \A c1, c2 \in claims :
    /\ c1 # c2
    /\ ScopeOf[c1.key.trigger] = ScopeOf[c2.key.trigger]
    /\ c1.key.channel = c2.key.channel
    /\ c1.cooldown > 0 /\ c2.cooldown > 0
    /\ c1.passedAt <= c2.passedAt
    => c2.passedAt >= c1.passedAt + c1.cooldown

\* No user is notified of a trigger without an audit record, whichever of the
\* dispatches of that trigger wrote it.
AuditPrecedesDelivery ==
  \A r \in received : r.key.trigger \in audit

InFlight == UNION {ItemsOf(d) : d \in Dispatch}

\* Every reserved delivery is still in flight, or has a terminal attempt (sent or
\* failed) on record, or was dropped by an exception, a crash or a dry run: a call
\* that returns normally leaves no accepted item without an outcome.
NoSilentDrop ==
  \A c \in claims :
    LET item == [key |-> c.key, n |-> c.n]
    IN \/ item \in InFlight \cup abandoned
       \/ \E a \in attempts : a.key = c.key /\ a.n = c.n /\ a.status # "retrying"

\* A message is sent only under a reservation, and its n-th copy only after n - 1
\* attempts of that reservation are on record as retrying.
SendsOnRecord ==
  \A r \in received :
    /\ \E c \in claims : c.key = r.key /\ c.n = r.n
    /\ \A i \in 1 .. r.no - 1 :
         [key |-> r.key, n |-> r.n, no |-> i, status |-> "retrying"] \in attempts

\* Once a terminal attempt of a reservation is on record nothing is sent for it.
TerminalIsFinal ==
  [][\A r \in received' \ received :
       ~\E a \in attempts : a.key = r.key /\ a.n = r.n /\ a.status # "retrying"]_vars

\* A running call returns: the retries are bounded and no step waits for another call.
DispatchReturns ==
  \A d \in Dispatch : call[d].stage # "idle" ~> call[d].stage = "idle"

\* "Must be idempotent when called with the same trigger_id to protect against retry
\* duplicates" (DeliveryProvider.send): the recipient gets one message per reservation.
NoDuplicateMessage ==
  \A r1, r2 \in received : r1.key = r2.key /\ r1.n = r2.n => r1 = r2

=============================================================================
