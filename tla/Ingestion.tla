----------------------------- MODULE Ingestion ------------------------------
(***************************************************************************)
(* Where a worker's events come from: the supervisor of the Polymarket     *)
(* WebSocket (supervisor.py), which connects, subscribes, pings, drops     *)
(* events it has seen, hands the others to on_events, and reconnects; and  *)
(* the loop that polls the Gamma API (gamma_periodic.py).  What on_events  *)
(* does, and the lock it takes, are in Worker.                             *)
(*                                                                         *)
(* What the mapper makes of a message depends on a few fields of it; the   *)
(* id of an event is a hash of its whole payload, so an event stands for   *)
(* its payload: a replay is the same event only if it is the same to the   *)
(* last byte.                                                              *)
(*                                                                         *)
(* Time is kept in counters: how long to wait, how long ago.  The code     *)
(* does nothing in between two waits that would take time.                 *)
(***************************************************************************)
EXTENDS Integers, Sequences, FiniteSetsExt

CONSTANTS
  Event,           \* events of the stream
  MaxSeen,         \* max_seen_event_ids
  PingInterval, PongTimeout, ReceiveTimeout, Reconnect,  \* of SupervisorConfig
  PollInterval,    \* the sleeps between two polls, with their jitter
  FirstBackoff,    \* the first back-off after a failed poll
  BackoffMax,      \* gamma_poll_backoff_max_seconds
  MaxGiven,        \* bound on the batches handed to on_events
  MaxFaults        \* bound on the errors and silences of the stream

ASSUME IngestionAssumption ==
  /\ {MaxSeen, ReceiveTimeout, FirstBackoff, BackoffMax} \subseteq Nat \ {0}
  /\ {PingInterval, PongTimeout, Reconnect, MaxGiven, MaxFaults} \subseteq Nat
  /\ PollInterval \subseteq Nat
  /\ \E longest \in PollInterval : \A p \in PollInterval : p <= longest

VARIABLES
  stage,      \* where the supervisor stands
  left,       \* what is left of its wait
  awaiting,   \* awaiting_pong
  sincePing,  \* time since last_ping_sent
  quiet,      \* time the loop has received nothing on this connection
  fatal,      \* the error on its way out ends the supervisor
  subscribed, \* the server has the subscription of this connection
  silent,     \* the server sends nothing more on this connection
  seen,       \* _seen_event_ids_order; _seen_event_ids is its elements
  given,      \* history: the events handed to on_events
  stop,       \* stop_event
  gamma,      \* the Gamma loop
  faults

link == <<awaiting, sincePing, quiet, subscribed, silent>>
vars == <<stage, left, link, fatal, seen, given, stop, gamma, faults>>

-----------------------------------------------------------------------------

Stage == {"connect", "subscribe", "head", "receive", "handle", "close", "backoff", "ended"}

\* `left' is what is left of a sleep, `idle' is how long ago the last poll ended.
Gamma == [stage : {"sleep", "poll", "handle", "backoff", "ended"}, left : Nat,
          backoff : Nat, idle : Nat]

\* No timer is read beyond these values.
LastPing == Max({PingInterval, PongTimeout}) + 1
LastQuiet == PingInterval + PongTimeout + 2 * ReceiveTimeout
LastIdle == Max(PollInterval) + Max({FirstBackoff, BackoffMax}) + 1
Count(n, last) == Min({n + 1, last})

Remembers(e) == \E i \in DOMAIN seen : seen[i] = e

Init ==
  /\ stage = "connect" /\ left = 0 /\ fatal = FALSE
  /\ awaiting = FALSE /\ sincePing = 0 /\ quiet = 0 /\ subscribed = FALSE /\ silent = FALSE
  /\ seen = <<>> /\ given = <<>>
  /\ stop = FALSE /\ faults = 0
  /\ \E p \in PollInterval :
       gamma = [stage |-> "sleep", left |-> p, backoff |-> FirstBackoff, idle |-> 0]

\* A message as far as recv_json, the supervisor and the mapper look at it: is it a JSON
\* object, is its type PONG or in EVENT_TYPE_MAP, has it a market id, and is the first
\* time field it has missing or text, a date, or a number datetime does not take.
Message == [object : BOOLEAN, wire : {"PONG", "mapped", "other", "none"},
            market : BOOLEAN, time : {"none", "date", "text", "year", "overflow"}]

Unsupported(m) == m.wire \in {"other", "none"} \/ ~m.market

Outcome(m) ==
  CASE ~m.object -> "ValueError"
    [] m.object /\ m.wire = "PONG" -> "pong"
    [] m.object /\ m.wire # "PONG" /\ Unsupported(m) -> "unsupported"
    [] OTHER -> IF m.time = "year" THEN "ValueError"
                ELSE IF m.time = "overflow" THEN "OverflowError" ELSE "event"

Outcomes == {Outcome(m) : m \in Message}

Goes(from, to) == stage = from /\ stage' = to

Fault == faults < MaxFaults /\ faults' = faults + 1

\* An error leaves _run_connected: OSError, ConnectionError, ValueError, InvalidStatus and
\* a heartbeat timeout are survived, any other error ends the supervisor.
Raise(kinds) == stage' = "close" /\ fatal' \in kinds

-----------------------------------------------------------------------------
(* The supervisor. *)

Connect ==
  /\ Goes("connect", "subscribe")
  /\ silent' = FALSE
  /\ UNCHANGED <<left, awaiting, sincePing, quiet, subscribed, fatal, seen, given, stop,
                 gamma, faults>>

\* Mutant: the subscription is sent on the first connection only.
SubscribeOnce ==
  /\ Goes("subscribe", "head")
  /\ subscribed' = (given = <<>> /\ faults = 0)
  /\ awaiting' = FALSE /\ sincePing' = 0 /\ quiet' = 0
  /\ UNCHANGED <<left, silent, fatal, seen, given, stop, gamma, faults>>

Subscribe ==
  /\ Goes("subscribe", "head")
  /\ subscribed' = TRUE
  /\ awaiting' = FALSE /\ sincePing' = 0 /\ quiet' = 0
  /\ UNCHANGED <<left, silent, fatal, seen, given, stop, gamma, faults>>

\* connect is refused, a send finds the connection closed, a receive is broken off.
\* ConnectionClosed, which the library raises once the server has closed, is not among
\* the errors that are survived.
ConnectionFails ==
  /\ stage \in {"connect", "subscribe", "receive"}
  /\ Raise(BOOLEAN) /\ Fault
  /\ UNCHANGED <<left, link, seen, given, stop, gamma>>

\* Mutant: the loop of a connection is left by errors only.
LoopsForEver == FALSE

LoopEnds == stop

\* `while not stop_event.is_set()' ends the connection in order.
LeaveLoop ==
  /\ LoopEnds /\ Goes("head", "close")
  /\ fatal' = FALSE
  /\ UNCHANGED <<left, link, seen, given, stop, gamma, faults>>

\* Mutant: a ping does not wait for the answer to the one before.
PingAgain == sincePing >= PingInterval

PingDue == ~awaiting /\ sincePing >= PingInterval

\* The head of the loop: a ping if one is due, then a receive.
AwaitMessage ==
  /\ ~LoopEnds /\ Goes("head", "receive")
  /\ left' = ReceiveTimeout
  /\ awaiting' = (awaiting \/ PingDue)
  /\ sincePing' = IF PingDue THEN 0 ELSE sincePing
  /\ UNCHANGED <<quiet, subscribed, silent, fatal, seen, given, stop, gamma, faults>>

PingFails ==
  /\ ~LoopEnds /\ stage = "head" /\ PingDue
  /\ Raise(BOOLEAN) /\ Fault
  /\ UNCHANGED <<left, link, seen, given, stop, gamma>>

\* wait_for times out.  Only here is the heartbeat looked at.
ReceiveTimesOut ==
  /\ stage = "receive" /\ left = 0
  /\ IF awaiting /\ sincePing > PongTimeout
     THEN Raise({FALSE})
     ELSE stage' = "head" /\ UNCHANGED fatal
  /\ UNCHANGED <<left, link, seen, given, stop, gamma, faults>>

\* A message with that outcome is there.
Receives(outcome) ==
  outcome \in Outcomes /\ stage = "receive" /\ ~silent /\ quiet' = 0

ReceivePong ==
  /\ Receives("pong") /\ stage' = "head"
  /\ awaiting' = FALSE
  /\ UNCHANGED <<left, sincePing, subscribed, silent, fatal, seen, given, stop, gamma, faults>>

\* UnsupportedPayloadError: the adapter returns no event.
ReceiveUnsupported ==
  /\ Receives("unsupported") /\ stage' = "head"
  /\ UNCHANGED <<left, awaiting, sincePing, subscribed, silent, fatal, seen, given, stop,
                 gamma, faults>>

\* An OverflowError is not among the errors that are survived.
ReceiveBroken ==
  /\ \E error \in {"ValueError", "OverflowError"} :
       Receives(error) /\ Raise({error = "OverflowError"})
  /\ Fault
  /\ UNCHANGED <<left, awaiting, sincePing, subscribed, silent, seen, given, stop, gamma>>

ReceiveDuplicate(e) ==
  /\ Receives("event") /\ Remembers(e) /\ stage' = "head"
  /\ UNCHANGED <<left, awaiting, sincePing, subscribed, silent, fatal, seen, given, stop,
                 gamma, faults>>

\* Mutant: the bound is checked before the id is added.
RememberOneMore(e) ==
  Append(IF Len(seen) > MaxSeen THEN Tail(seen) ELSE seen, e)

\* The oldest id beyond the bound is forgotten.
Remember(e) ==
  LET all == Append(seen, e)
  IN  IF Len(all) > MaxSeen THEN Tail(all) ELSE all

\* The id is remembered, then on_events is awaited.
ReceiveEvent(e) ==
  /\ Receives("event") /\ ~Remembers(e) /\ Len(given) < MaxGiven
  /\ stage' = "handle"
  /\ seen' = Remember(e) /\ given' = Append(given, e)
  /\ UNCHANGED <<left, awaiting, sincePing, subscribed, silent, fatal, stop, gamma, faults>>

Handled ==
  /\ Goes("handle", "head")
  /\ UNCHANGED <<left, link, fatal, seen, given, stop, gamma, faults>>

\* on_events raises; the event stays remembered.
HandlerFails ==
  /\ stage = "handle" /\ Raise(BOOLEAN) /\ Fault
  /\ UNCHANGED <<left, link, seen, given, stop, gamma>>

\* The `finally' clause: close, then the pause, before the error is raised again.
Close ==
  /\ stage = "close"
  /\ subscribed' = FALSE
  /\ IF stop THEN stage' = "ended" /\ UNCHANGED left
             ELSE stage' = "backoff" /\ left' = Reconnect
  /\ UNCHANGED <<awaiting, sincePing, quiet, silent, fatal, seen, given, stop, gamma, faults>>

\* close raises: its error takes the place of the other one, and whatever it is, leaves
\* the `finally' clause and run() at once.
CloseFails ==
  /\ Goes("close", "ended")
  /\ fatal' = TRUE
  /\ UNCHANGED <<left, link, seen, given, stop, gamma, faults>>

\* The condition of the loop in run().
GoesOn == ~fatal /\ ~stop

PauseEnds ==
  /\ stage = "backoff" /\ left = 0
  /\ stage' = IF GoesOn THEN "connect" ELSE "ended"
  /\ UNCHANGED <<left, link, fatal, seen, given, stop, gamma, faults>>

(* The server and the worker. *)

\* Nothing arrives any more, and nothing tells the client so.
ServerFallsSilent ==
  /\ subscribed /\ ~silent /\ Fault
  /\ silent' = TRUE
  /\ UNCHANGED <<stage, left, awaiting, sincePing, quiet, subscribed, fatal, seen, given,
                 stop, gamma>>

\* The worker shuts down.
Stop ==
  /\ ~stop /\ stop' = TRUE
  /\ UNCHANGED <<stage, left, link, fatal, seen, given, gamma, faults>>

-----------------------------------------------------------------------------
(* The Gamma loop. *)

supervisor == <<stage, left, link, fatal, seen, given>>

GammaGoes(from, to) == gamma.stage = from /\ gamma' = [gamma EXCEPT !.stage = to]

\* sleep_gamma_interval is over: poll_once.
GammaPolls ==
  /\ ~stop /\ gamma.left = 0 /\ GammaGoes("sleep", "poll")
  /\ UNCHANGED <<supervisor, stop, faults>>

\* The poll brings one event per market.
GammaBrings ==
  /\ gamma.stage = "poll"
  /\ gamma' = [gamma EXCEPT !.stage = "handle", !.idle = 0]
  /\ UNCHANGED <<supervisor, stop, faults>>

\* Mutant: the back-off is not capped.
Doubled(b) == b * 2

NextBackoff(b) == Min({b * 2, BackoffMax})

\* The poll fails: the loop sleeps its back-off, and then an interval.
GammaPollFails ==
  /\ gamma.stage = "poll"
  /\ gamma' = [stage |-> "backoff", left |-> gamma.backoff,
               backoff |-> NextBackoff(gamma.backoff), idle |-> 0]
  /\ UNCHANGED <<supervisor, stop, faults>>

GammaSleeps(p) ==
  \/ /\ ~stop /\ gamma.stage = "backoff" /\ gamma.left = 0
     /\ gamma' = [gamma EXCEPT !.stage = "sleep", !.left = p]
     /\ UNCHANGED <<supervisor, stop, faults>>
  \/ /\ ~stop /\ gamma.stage = "handle"   \* on_events is through
     /\ gamma' = [gamma EXCEPT !.stage = "sleep", !.left = p, !.backoff = FirstBackoff]
     /\ UNCHANGED <<supervisor, stop, faults>>

\* An error of on_events is raised on and ends the task.
GammaHandlerFails ==
  /\ GammaGoes("handle", "ended") /\ Fault
  /\ UNCHANGED <<supervisor, stop>>

\* stop_event ends a sleep and the loop; a poll or a batch under way is cancelled.
GammaEnds ==
  /\ stop /\ gamma.stage # "ended"
  /\ gamma' = [gamma EXCEPT !.stage = "ended"]
  /\ UNCHANGED <<supervisor, stop, faults>>

-----------------------------------------------------------------------------

\* Connecting, handling, closing and polling take as long as they take, the other waits
\* are timed.
Tick ==
  /\ stage \in {"connect", "handle", "close", "ended"} \/ (stage \in {"receive", "backoff"} /\ left > 0)
  /\ gamma.stage \in {"sleep", "backoff"} => gamma.left > 0
  /\ left' = IF stage \in {"receive", "backoff"} THEN left - 1 ELSE left
  /\ sincePing' = Count(sincePing, LastPing)
  /\ quiet' = IF stage = "receive" THEN Count(quiet, LastQuiet) ELSE quiet
  /\ gamma' = IF gamma.stage \in {"sleep", "backoff"}
              THEN [gamma EXCEPT !.left = @ - 1, !.idle = Count(@, LastIdle)]
              ELSE gamma
  /\ UNCHANGED <<stage, awaiting, subscribed, silent, fatal, seen, given, stop, faults>>

SupervisorStep ==
  Connect \/ Subscribe \/ LeaveLoop \/ AwaitMessage \/ ReceiveTimesOut \/ Handled \/ Close
  \/ PauseEnds

GammaStep ==
  \/ GammaPolls \/ GammaBrings \/ GammaPollFails \/ GammaEnds
  \/ \E p \in PollInterval : GammaSleeps(p)

Next ==
  \/ SupervisorStep
  \/ ConnectionFails \/ PingFails \/ HandlerFails \/ CloseFails
  \/ ReceivePong \/ ReceiveUnsupported \/ ReceiveBroken
  \/ \E e \in Event : ReceiveDuplicate(e) \/ ReceiveEvent(e)
  \/ ServerFallsSilent \/ Stop
  \/ GammaStep \/ GammaHandlerFails
  \/ Tick

\* asyncio runs what is ready and time goes on; connecting, handling and closing return.
Fairness == WF_vars(SupervisorStep) /\ WF_vars(GammaStep) /\ WF_vars(Tick)

Spec == Init /\ [][Next]_vars /\ Fairness

-----------------------------------------------------------------------------
(* Properties. *)

\* Every variable has its type; the memory of ids keeps to its size and holds no id twice,
\* without which the deque and the set of the code would come apart.
TypeOK ==
  /\ stage \in Stage /\ left \in Nat /\ fatal \in BOOLEAN
  /\ awaiting \in BOOLEAN /\ sincePing \in 0 .. LastPing /\ quiet \in 0 .. LastQuiet
  /\ subscribed \in BOOLEAN /\ silent \in BOOLEAN
  /\ seen \in Seq(Event) /\ Len(seen) <= MaxSeen
  /\ \A i, j \in DOMAIN seen : seen[i] = seen[j] => i = j
  /\ given \in Seq(Event) /\ Len(given) <= MaxGiven
  /\ stop \in BOOLEAN /\ gamma \in Gamma /\ faults \in 0 .. MaxFaults

\* The event is among the last MaxSeen that were handed over.
Recent(e) == \E i \in DOMAIN given : given[i] = e /\ Len(given) - i < MaxSeen

\* The memory of ids is exactly the window its size says, across reconnects and failed
\* batches: an event is handed over again only when MaxSeen others were in between
\* ("reconnect storm without duplicate enqueue"), and an event that is dropped as a
\* duplicate was among the last MaxSeen handed over.
WindowExact ==
  [][\A e \in Event :
       /\ given' = Append(given, e) => ~Recent(e)
       /\ ReceiveDuplicate(e) => Recent(e)]_vars

\* A connection on which nothing arrives is given up in bounded time, whether a ping was
\* under way when it fell silent or not: one interval, one timeout, and the grain of the
\* receive timeout in which the two are looked at.
SilenceBounded ==
  stage = "receive" => quiet < PingInterval + PongTimeout + 2 * ReceiveTimeout

\* However a connection is lost, the supervisor connects and subscribes anew
\* ("heartbeat/reconnect/resubscribe") or ends; and it ends only because the worker stops
\* or by an error it does not survive.  The errors of the second kind are not rare:
\* ConnectionClosed of the library, which a receive raises when the server has closed, is
\* one of them.
Resubscribes ==
  stage = "close" ~> \/ stage = "receive" /\ subscribed
                     \/ stage = "ended" /\ (stop \/ fatal)

\* However the supervisor and the Gamma loop stand when stop_event is set, they end.
StopEnds == stop ~> stage = "ended" /\ gamma.stage = "ended"

\* However many polls failed in a row, the next one is not further away than an interval
\* and the largest back-off.
GammaPace ==
  gamma.stage \in {"sleep", "backoff"} =>
    gamma.idle + gamma.left <= Max(PollInterval) + Max({FirstBackoff, BackoffMax})

=============================================================================
