# TLA+ models and proofs for the alarm system

The alarm system watches Polymarket, evaluates alert rules on what happens there
and notifies users, over Telegram today. Its Python sources are in
`src/src/alarm_system`. This directory holds TLA+ modules that model it, the TLC
configurations that check them on small instances, and proofs that TLAPS checks
for every instance.

## 1. Inventory

A **worker** process (`service_runtime.py`) owns an event loop on which the
ingestion supervisor, the Gamma polling loop and the rule reload listener run as
tasks. An **API** process serves HTTP and the Telegram webhook. They share
**Postgres** (rules, alerts, bindings) and **Redis** (everything with a TTL).
Several workers may share one Redis, and a dry-run worker shares it with a live
one.

| Component | State | Operations | Correct when |
|---|---|---|---|
| Ingestion supervisor | connection, heartbeat, bounded FIFO set of seen event ids | connect, subscribe, ping, receive, drop duplicates, hand a batch to the event handler, reconnect | no event is handed over twice while its id is remembered; a silent connection is given up; an error leads to a new subscription or to the end of the supervisor |
| Gamma loop | back-off | poll, hand events over, back off, stop | fetch errors back off within a bound, handler errors end the task |
| Event handler | pipeline lock, counters, alert map, bindings | evaluate each event, dispatch each decision | one batch at a time, under one configuration |
| Signals and filters | none | compute signals, compare, evaluate an expression, apply filters | an alert's filters only narrow its rule |
| Prefilter | index of the bindings | build, lookup | no binding that could match is left out |
| Rule runtime | none of its own; trigger keys, suppression windows and deferred watches in Redis | evaluate an event | one decision per rule, market and bucket; an open window that nothing ended early holds events back; a firing that is written stays |
| Dispatcher | audit records, cooldown keys, delivery keys, attempts in Redis; backpressure in memory | dispatch a decision | no delivery key twice in its TTL; cooldowns respected; every delivery has an outcome; slots conserved |
| Backpressure | queued, level, stable samples | reserve, release | the level follows the utilization |
| Telegram provider | none | send | an answer is classified as sent, retryable or permanent |
| Alert store and cache | versioned rows in Postgres, a two-key snapshot in Redis | read, versioned write, delete, snapshot, invalidate | no lost update; staleness bounded by the TTL |
| Rule store, reload | active rule set, NOTIFY channel, loaded bindings | activate, notify, reload | a batch sees one configuration; a change is loaded, or its notification is known to be lost |
| Telegram commands, wizard | one session per user in Redis, mute keys | commands, buttons, text input | a preview says what Create creates; one draft becomes one alert; a button acts on what it shows; a text goes to the form that asked |

Components interact through function calls within a process (supervisor to
handler to rule runtime to dispatcher to provider), through Redis keys between
workers, through Postgres rows and a NOTIFY channel between API and workers, and
through webhook deliveries between Telegram and the API.

What is hard here: Redis commands of several workers interleave, and most of the
stores read in one command and write in another; keys expire on the wall clock while
buckets, windows and watches are computed from event timestamps, which may be late or
ahead of that clock; events are delivered at least once and out of order; a process
may die, and a Redis command fail, between any two steps; the answer of a provider may
be lost; caches and notifications can be stale. `PROJECT.json` lists these hazards at
the lines where they bite.

## 2. Modules

| Module | Models | Checked or proved in |
|---|---|---|
| `Backpressure` | `backpressure.py`, as a value and operators on it | `MCDelivery`, `DeliveryProofs` |
| `Delivery` | `DeliveryDispatcher.dispatch` and the Redis stores it uses | `MCDelivery`, `DeliveryProofs`, `DeliveryOutcomeProofs` |
| `Signals` | `compute/features.py`, `rules/comparison.py`, `rules/evaluator.py`: pure operators | through `RuleRuntime` |
| `Matching` | `compute/prefilter.py`, `alert_filters.py`, the filters of `rules/runtime.py`: pure operators, extends `Signals` | through `RuleRuntime` |
| `RuleRuntime` | `RuleRuntime.evaluate_event` with the Redis trigger, suppression and watch stores, extends `Matching` | `MCRuleRuntime`, `RuleRuntimeProofs` |
| `SnapshotService` | what a worker may rely on when it loads the configuration: abstract | `MCAlertConfig`, `AlertConfigProofs`, as an instance of `AlertConfig` |
| `AlertConfig` | `PostgresAlertStore`, `RedisAlertCache`, `CachedAlertStore` | `MCAlertConfig`, `AlertConfigProofs` |
| `Worker` | `service_runtime.py`: tasks, pipeline lock, reload listener, shutdown | `MCWorker`, `WorkerProofs` |
| `Ingestion` | `ingestion/polymarket/supervisor.py`, `gamma_periodic.py`, and what the mapper makes of a message | `MCIngestion`, `IngestionProofs` |
| `TelegramWizard` | the draft of the create wizard and its steps: pure operators | through `TelegramUi` |
| `TelegramUi` | the webhook, the wizard's handlers, lists and cards, texts, the session, the commands on alerts | `MCTelegramUi`, `TelegramUiProofs` |
| `Induction` | no code: facts about least counterexamples and sums that the proofs of `Delivery` and `RuleRuntime` use | proved there |

**Delivery.** A `Dispatch` is one running call of `dispatch()`. `call[d].stage`
is the point it stands at: `audit`, `index` (between the two commands of
`save_once`), `prepare` (before a channel), `slot`, `claim`, `sending` (awaiting
the provider), `answered`. One action is one Redis command or one await; the
coroutines of one worker switch only at awaits (`LoopFree`). Keys with a TTL are
kept as the time they expire. `DispatchRaises` is an exception in any of these
places, with what the `finally` clause releases and what it leaves behind; the five
commands that save an attempt are one step, of which a failure may leave the record
(`DispatchRaises` at `answered`), and its TTL of seven days is longer than any run.
`Crash` ends a worker. A provider's answer and whether the message arrived are
independent, except that "sent" implies arrival. `claims`, `abandoned`,
`received` and `leaked` are history the properties speak of.

**Signals and Matching.** A payload is a record of the fields the code looks at.
`Features` computes its signals, `Truth` the value of an expression over them, with
the conversions of `normalize_observed_for_threshold` and Python's equality of numbers
and Booleans; `Compare` counts an error as false, as the evaluator does. An expression
is the sequence of its nodes, children before their group (`IsExpression`), and
`NodeTruth` is one node given those before it. `Accepts` is the three filters a
candidate passes, `Lookup` what the prefilter yields: `FiledObjects`, `FiledFields`
and `FiledTags` say under which keys a binding is in the index. `Target` and
`WatchTTL` are what an alert may change of its rule's watch. Abstracted: texts are
stripped and in lower case, quotients are rounded down, the imbalance is in percent,
only numbers are ordered, a threshold that is a text is not read as a number,
`contains` is a relation between texts (`PartOf`), and a payload has at least one
scalar field. The index of tag ids is left out: it is filled from
`filters_json["tag_ids"]`, which the validated filters do not have.

**RuleRuntime.** A worker takes an event and goes through the candidates of its
bindings in any order (`lookup` collects them over a set of field names). The
tables `Candidates`, `Accepting`, `Satisfying` and `Activating` apply the
operators of `Matching` to the payloads and rules of a configuration, once.
`SetBindings` is a reload: a worker goes on with another of the tables in
`Catalog`, in which rules may have another version, other windows or other
filters; other workers may still use the old one. A watch stores the target it
was armed with. Windows, watches and buckets are computed from the event's
timestamp, expiries run on `clock`; `KeyExpiries` has both outcomes of `int()`
dropping a fraction of a second. `MaxDelay` is the longest time from an event's
timestamp to the end of its evaluation, `MaxAhead` the most a timestamp is ahead of
the clock (the mapper takes it from the payload unchecked). A liquidity that is a text
ends the evaluation where it meets the target of a live watch (`FailCrossing`).
`armings`, `windows` and `decisions` are history, and so are `since` and `saw` of an
evaluation: how many windows had been opened when it took its event, and how many
decisions made when it read the watch it fires. Each window opened has a `fate`: it is
`kept`, or its key was removed or replaced before its end by an event timestamped at or
after that end (`overtaken`) or by one that had read the key before (`raced`);
`CutShort` says when.

**AlertConfig.** A request of the API reads a row, writes it on the strength of
what it read (`Create`, `Update` with the version check, `Delete` without one),
commits, and drops the two keys of the cached snapshot one after the other. A
worker's load reads the two keys, or fills them from two queries; every command
is an action. A snapshot is represented by the number of commits its table had
seen. `RequestFails` and `LoadFails` are a refused command or a death between
any two steps. `commits`, `lost`, `life` and `fresh` are history.

`SnapshotService` is the abstract specification: tables that are written at
once, and answers, each a value per table that is the latest or was superseded
less than `Staleness` ago and that does not change in the worker's hands. It
knows no cache, no invalidation and no failure. `AlertConfig` instantiates it
with `clock` for `now`, the snapshots in the hands of finished loads for
`answer`, and `TTL + 2 * MaxDelay` for `Staleness`: a key may be filled by a
load that read just before the commit and stored `MaxDelay` later, live for
`TTL`, and be returned by a load that takes `MaxDelay` again. Cached values of
the two keys may be of different times, which is why `SnapshotService` bounds
each table by itself and promises no common state.

**Worker.** `task` has the tasks that hand batches to the event handler, `queue` the
pipeline lock with its holder first, `reload` the listener and `loaded` what
`set_bindings`, `alert_by_id` and `channel_bindings` hold. Rules are known by the
number of commits to their tables, alerts by a value. A notification sent while no
connection listens, or dropped with one, goes to `lost`, which is history, as is
`seen`. Synchronous queries of a reload stop the event loop (`LoopFree`). `phase` goes
through the `finally` clause of `run()`: Gamma loop, listener, supervisor. `LoadRules`
is one step for the several queries of `get_active_snapshot`, so rules that are half
of one commit and half of the next are left out. The worker is taken to have Gamma
tags, a poll interval and both database stores configured; `Delivery` and
`RuleRuntime` say what happens to an event, `AlertConfig` how old the alerts read may
be.

**Ingestion.** `stage` is where the supervisor stands, `seen` its memory of event
ids, `given` (history) what it handed to `on_events`. Time is kept in counters
(`left`, `sincePing`, `quiet`), each cut off where nothing reads it any more.
An event stands for its whole payload, since its id is a hash of it: a replay
with any byte changed is a new event. `Outcome` says what recv_json, the
supervisor and the mapper make of a message: an event, nothing, a survived error
or one that ends the supervisor. `ConnectionFails` and `HandlerFails` raise either
class, because what the libraries raise is either (`ConnectionClosed` is not
caught); `CloseFails` is an error of closing, which ends the supervisor whatever the
first error was. `ServerFallsSilent` is a half-open connection. `gamma` is the loop that
polls beside it; its back-off is slept before an interval, and the first one is
not capped by `gamma_poll_backoff_max_seconds`, which is why `GammaPace` names
the larger of the two. `Worker` has what `on_events` does with a batch.

**TelegramWizard and TelegramUi.** One user's dialog. A handler runs from the
load of the session to its save without giving the event loop away, so it is one
action; the answer that follows may be lost (`AnswerLost`, a 502, after which
Telegram delivers the update again: the same button or text once more). Session:
`draft`, `index` (tokens of the last list or card) and `pending` (who waits for a
text). `catalog` may be published anew between any two requests; `SessionExpires`
is the ten-minute TTL. A press is on the latest wizard message or on an older one:
older keyboards of every step are taken to be in the chat, which is more than any
one chat has. `strayed`, `asked`, `cards`, `made` and `lost` are history that the
properties use to say what the user can know. Alerts carry only what a button
changes; the order of a list is any. A catalog that cannot be loaded (no active rule
set, HTTP 500) fails the request before anything is saved or shown, which is a step
not taken. `Rendering` and `CanFinalise` say when the code
shows a step, answers with a toast, or fails hard (a KeyError, HTTP 500).
The mute commands are `SetMute` and `ClearMute` of `Delivery`, and the delivery
binding that `/start` writes is a write of `AlertConfig`.

## 3. Runs

| Run | Question | Bounds |
|---|---|---|
| `delivery_shared` | Do reservations, cooldowns and audit records hold between two workers, one of them dry run? | two dispatches, two triggers of one scope, two alerts with different cooldowns, one failure or crash |
| `delivery_loop` | Are slots, saturation level, retries and outcomes right on one event loop, and does every call return? | two coroutines, two slots, two channels, one of them unbound in one of the binding lists, two attempts, one failure |
| `delivery_duplicate` | Does the recipient get a message once, as `DeliveryProvider.send` asks? No. | one dispatch |
| `rules_shared` | Does a trigger key give one decision, with two workers, late events and a crash? Does a firing that is written stay? Is every match among the candidates, and does no filter widen its rule? | two interchangeable workers on two tables of four alerts (three rule types, shared rules, filters of every kind that overlap), five payloads, three events, bucket 2, margin 1, delay 1, one crash |
| `rules_watch` | Does an open window hold between two workers, across versions of a rule and with timestamps ahead of the clock? Does the margin cover such timestamps? | two interchangeable workers, one change of bindings, one alert with two windows of different length opened by different payloads, three events, bucket 1, margin 2, timestamps up to 2 ahead |
| `rules_replay` | Is a one-shot alert fired once per market, as the DSL document says? No. | one worker, one watch |
| `config` | Is no update lost between requests, is staleness bounded, does every invalidation reach the cache, does it all implement `SnapshotService`? | two requests, one worker, one alert and one binding, TTL 1, loads of at most 1, three commits, one failure |
| `worker` | Does a batch see one configuration, does the listener forget no change, does a reload get the lock, does the shutdown end? | two changes of the rules, two rule sets and two alert configurations of which one pair does not fit, batches of at most two events |
| `worker_alerts` | Does a running worker come to use the alerts in Postgres, as the architecture deck says? No. | no change of the rules |
| `ingestion` | Is the memory of ids exactly its window, is silence noticed, does the supervisor subscribe anew or end after an error, do the polls keep pace, does everything stop? | two events, a memory of one id, three batches, one fault, intervals of 1 and 2, back-off up to 3 |
| `telegram_ui` | Is a draft sound, does a preview say what is created, does one draft make one alert, does a text go where it was asked for? | one alert and one card, two rules of different types, two catalogs, one set of filters that fits one rule, one session that Redis fails to clear |
| `telegram_cards` | Does a card's button act on the alert it shows, as the comment says? No. | two alerts |

The bounds are enough for the cases the properties are about: two actors are the
fewest that race, a second channel the fewest whose slot can leak, two attempts the
fewest with a retry, a memory of one id the smallest a replay gets past, two catalogs
the fewest that can change under a draft, and the clock passes every TTL at least
once. Events, dispatches, commits, failures, reloads and the clock are the only
counters that are capped (`MaxEvents`, `MaxDispatches`, `MaxWrites`, `MaxChanges`,
`MaxFaults`, `MaxCrashes`, `MaxReloads`, `MaxGiven`, `MaxLost`, `MaxTime`); `Worker`
has no bound on batches and failures, `TelegramUi` none on requests. In `config` the
constraint `FewBindingWrites` leaves out what follows a second binding write: binding
writes are unconditional and alike, and one of them is enough to set the two keys
apart. Where a bound is used up the system stops, which is why deadlock is checked
only in `worker`, where the world outside goes on for ever.

Every property has a mutant: an operator, next to the definition it replaces,
that changes it the way a bug would, and under which TLC finds the property
violated.

**Fairness.** `DispatchReturns` assumes weak fairness of
the steps of a running call only: the event loop runs every ready coroutine, a
Redis command returns or raises, and the provider's socket has a timeout. Time,
new work, failures and the user are not fair. `ReloadApplies` and
`ShutdownCompletes` assume the same of the worker's tasks, its listener and
`run()`; they rest on `asyncio.Lock` serving its waiters in order, which is
modelled (`Acquire`), not assumed as fairness. `Resubscribes` and `StopEnds` assume
that the supervisor's and the Gamma loop's own steps are taken and that time
passes; faults are not fair but bounded (`MaxFaults`), so `Resubscribes` says that
each of a finite number of errors is recovered from or ends the supervisor, not that
it is survived. `TelegramUi` has no liveness: nothing makes a user press a button.

`MaxDelay` of `RuleRuntime` and `AlertConfig` is an assumption on the
environment: how long an evaluation, or a load of the configuration, may take.
`MaxAhead` is one on the sources of events: nothing in the code bounds it, and no
theorem needs it to be small but `OneWorkerKeepsWindows`.

**Divergences.** Four runs show a statement of the repository that the code does
not keep: the provider is not idempotent under retry (`delivery.py:60`); a
replayed `market_created` re-arms a fired watch (`rules-dsl-v1.md:97`); a
running worker does not look at the alerts again unless the rules change
(`architecture-deck.md:251`); and a card's buttons act on another alert once
another list or card was shown (`alerts.py:106`).

Others were met while modelling and are excluded by name in the properties they
concern, or left without one:

- An alert's `require_event_tag` replaces its rule's in the filters
  (`rules-dsl-v1.md:144`), but the prefilter files the binding under the rule's tag
  only, so such an alert is never tried for an event that has only its own tag.
  The same holds for category tags of nothing but blanks, for explicit
  `field_paths` that leave out a signal of the expression, and for an expression
  that is true without any signal (a `NOT` over a missing one): all four are named
  in `Due`, the definition behind `EveryMatchIsTried`.
- A version check does not reach across the deletion and re-creation of an alert,
  which restarts at version 1 (`ADR-SET-v1.md:27`); `NoLostUpdate` speaks of one
  life of a row.
- "Stale or invalid wizard session state must degrade gracefully"
  (`mvp-scope-and-delivery-plan.md:32`): after a button of an older message the
  draft may be in a step whose fields it lacks, and the next request fails with a
  KeyError. `DraftSound` holds for a user who answers the latest message only.
- `/create` answered with a 502 after the insert is delivered again and makes a
  second alert, under another id.
- The Redis keys of windows are known by the position of an entry in
  `suppress_if`, so a new version of a rule may inherit the window of another entry;
  `WindowsHold` speaks of keys, as the code does.
- `metadata_refresh` "is **not** indexed for any `rule_type`" (`rules-dsl-v1.md:50`;
  also `mvp-scope-and-delivery-plan.md:9`, `ADR-SET-v1.md:78`, `railway-deploy.md:72`),
  but the lookup takes such an event for one of the market (`prefilter.py:42`), and
  bindings filed under markets become candidates. `ObjectOf` does what the code does;
  `Due`, and with it `EveryMatchIsTried`, asks nothing of these events.
- A watch is promised to fire once (`rules-dsl-v1.md:97` and `:219`,
  `agent-runbook.md:41`). Besides the replay of `rules_replay`, two workers break it:
  both read the watch unfired before either marks it, for events of different buckets,
  whose trigger keys differ. With two workers TLC finds `FireOncePerArming` violated;
  `FiredStaysFired` allows this race and no other second firing.
- An event timestamped ahead of the clock ends a window early for those that follow
  (`suppression.py:97` deletes what is over at the event's time), and another worker's
  read from before does. `WindowsHold` exempts windows with these fates. With one worker
  and timestamps at most a second ahead no window is ended early (`WindowsKept`, proved);
  with two workers, or two seconds, TLC finds it violated.
- "heartbeat/reconnect/resubscribe" (`mvp-scope-and-delivery-plan.md:8`, also `:67-69`
  and `agent-runbook.md:66`): a drop that the WebSocket library reports as
  `ConnectionClosed`, the usual one, is none of the classes that `supervisor.py:54`
  survives, and ends the supervisor; the tests raise `ConnectionError` only. In
  `Ingestion` this is `ConnectionFails` with `fatal`, and `Resubscribes` accepts an end
  with the error.
- "Other value" on a cooldown keyboard further up in the chat asks for seconds while
  the wizard waits for filters, and the text that answers goes to the filters
  (`wizard.py:381`, `:541`), against the same promise of graceful degradation.
  `TextGoesWhereAsked` asks for this pair that only the latest message was answered;
  without that TLC finds it violated.

## 4. Proofs

The theorems are of `Spec` of `Delivery`, `RuleRuntime`, `AlertConfig`, `Worker`,
`Ingestion` and `TelegramUi`, for every value of the constants that satisfies the
named assumptions of the module: any number of workers, dispatches, alerts,
clients, loaders, rule changes, any rules and payloads, any catalogs and presets,
any capacities, TTLs and bounds. Every invariant and action property of a passing
run is stated by one of them.

The assumptions are `BackpressureAssumption` and `DeliveryAssumption` (the
dispatches are finitely many, so that what they hold has a sum), `RuleAssumption`
(`WellFormed` is what the validated rule and filters keep to, among it that the
groups of an expression refer to nodes that come before them; payload fields that
are numbers are integers in this model), `ConfigAssumption`, `WorkerAssumption`,
`IngestionAssumption` (positive sizes and timeouts, and a longest poll interval),
and `WizardAssumption` and `UiAssumption` (catalogs are not empty, `NoFilters` fits
every rule, and the value that stands for "not set" is none of the values set).

`Induction`: the theorems of the library that take an operator cannot be used, so
an induction is made over a set: `Least` and `Smallest` give the least number, or
the smallest subset of a finite set, that a claim fails for, from the
well-foundedness of the two orders. The lemmas on `Sums` show in this way that
the recursive function behind `MapThenSumSet` has its equation, and what changing
one value does to the sum.

`Delivery`:

- `TypeCorrect` proves `TypeOK` from the inductive `TypeInv`, which adds what
  `TypeOK` alone does not keep: the position of a call stays within the alert's
  channels where one is read, a sending call has items, an item carries a claim.
- `ClaimsAreSpaced`: by `ClaimInv`, the idempotency key of a delivery expires no
  earlier than TTL after every claim on it, so SET NX refuses the next one.
- `DeliveriesAreAudited`: by `AuditInv`, a call past stage `audit` has its
  trigger in `audit`, which nothing shrinks.
- `SaturationTracks`: every operation of the controller re-establishes `Tracks`
  whatever the queue is, so a leaked slot cannot break it.
- `CooldownsSpaceDeliveries`: by `PassInv`, the cooldown key outlives every pass
  by that pass's cooldown, and a pass in progress is unique among claims and
  calls at its time.
- `SendsAreOnRecord`, `NothingDroppedSilently` and `OutcomesAreFinal`: by
  `OutcomeInv`. An item in flight is claimed and has no terminal attempt on
  record, the attempts before the one under way are on record as retries, no claim
  has a number above the count of its key's claims (`ClaimsNumbered`), and no two
  items of any calls are the same claim (`ItemsDistinct`). By the last two a new
  claim is nobody else's item, and an attempt written by one call settles no item
  of another; an item leaves its call settled or abandoned.
- `SlotsAreConserved` (`SlotAccounting`): a controller's queue is the sum of what
  the calls of its worker hold and what has leaked. It is inductive once the sum
  is known to change with the one call that steps (`SumsChange`), and a crash
  brings both to zero.

`AlertConfig`:

- `TypeCorrect`, and `TypeInv`, which adds that a load past a query holds the
  query's answer.
- `UpdatesAreChecked` (`NoLostUpdate`): within one life of a row versions grow
  with every write, so by `VersionInv` two images of a row in the same life and
  with the same version are the same image; the update's WHERE then compares
  more than it says. Across lives this fails.
- `InvalidationsReach` (`InvalidationReaches`), inductive as it stands once a
  key's value is known to be a number of commits the table has seen.
- `SnapshotsAreFresh` (`StalenessBounded`): by `AgeInv`, what a running load
  holds was current when the load, or the load that filled the key, began, and a
  key's expiry is within TTL of the end of the load that stored it.
- `StoreImplementsService` (`ImplementsService`): the refinement. `StoreStep` maps
  every step under `TypeInv` and `AgeInv` to a step of `SnapshotService` or a
  stutter: a commit to `Write`, the last step of a load to `Answer` (with
  `SnapshotsAreFresh`'s bound on each half), the end of a load's use to `Take`, a
  tick to `Pass`; reads, fills, invalidations and failures leave all three of its
  variables alone (`HandTaken`, `HandFilled` say what the mapped `answer` becomes).

`Worker`:

- `TypeCorrect`, by `TypeInv`: the queue of the lock holds exactly those that ask
  for it, each once, which needs to know that the listener and the Gamma loop
  start after the bootstrap (`BootInv`). `Joins`, `Leaves` and `Withdraws` say
  what the three operations on the queue do.
- `BatchesAreConsistent` (`OneConfigPerBatch`): by `HolderInv` a batch that has
  begun holds the lock until it ends, and a swap needs the lock.
- `NoChangeForgotten` (`ChangesAccounted`): with `AgeInv`, the rules being loaded
  are at least as recent as those in use and as the notification being served.

`RuleRuntime`:

- `TypeCorrect`, by `TypeInv`: the candidate and entry of an evaluation are ones
  the loaded bindings have, until the next `SetBindings`, which waits for the
  evaluation to end.
- `TriggersAreSpaced`: by `SpacingInv`, the trigger key outlives every reservation
  by `DedupTTL`, those of decisions and those still in progress, so SET NX refuses
  the next. A key whose holder crashed is covered like any other.
- `TriggersDecideOnce`: with `TimelyInv`, a reservation lies at most `MaxDelay`
  after a timestamp of its bucket; two of one bucket are then closer than the TTL
  when `MaxDelay` is within the margin, which is the hypothesis of the property.
- `FiltersNarrow`: an evaluation past its filters fits them (`FilterInv`), and each
  merge of an alert's filter with its rule's is at least as strict.
- `MatchesAreTried` (`EveryMatchIsTried`): an expression reads payloads through the
  signals it names only, so where the event carries none of them it is as true as
  of no values at all (`TruthWithoutSignals`, an induction over its nodes); `Due`
  excludes expressions that are true of nothing, hence the event carries a signal,
  and each signal is filed under the fields it is computed from (`DueIsFiled`). The
  tag that the filters require is one the binding is filed under (`DueIsTagged`).
- `FiringsStay` (`FiredStaysFired`), for any number of workers: by `FireInv`, an arming
  that has a decision is fired in Redis unless another arming has taken its place
  (`FiredInv`), so whoever is between the two commands of a mark read the watch before
  any decision of that arming was made (`MarkInv`).
- `OneWorkerFiresOnce`: for a single worker the read and the write of a mark have nothing
  between them, and an armed watch fires at most once (`FireOncePerArming`).
- `WindowsAreHeld` (`WindowsHold`), for any number of workers and any interleaving: by
  `HoldInv`, a window whose fate is `kept` is in Redis until it has ended, under its own
  end or a later one (`StoredInv`), and each entry that an evaluation has gone past found
  the windows opened before its event over or ended early (`PassedInv`). Nothing is
  assumed of timestamps.
- `OneWorkerKeepsWindows` (`WindowsKept`): for a single worker, with `MaxAhead <= 1`, no
  window is ended early. Both conditions are needed, as TLC shows.

`Ingestion`:

- `TypeCorrect`, which includes that the memory keeps to its size and has no id
  twice.
- `WindowIsExact`: by `WindowInv`, the memory is the end of what was handed over,
  so an id is in it exactly if it is among the last `MaxSeen`.
- `PaceIsKept`: by `PaceInv`, a back-off keeps to the larger of the first one and
  the cap, and only an interval is slept after it.
- `SilenceIsBounded`: by `SilenceInv`, silence is at most what the ping timer
  shows, or what it showed at the ping and the wait since.

`TelegramUi`:

- `DialogTypeCorrect`, `DraftsAreSound`, `PreviewsAreHonest` and `TextsGoWhereAsked`:
  by `DialogInv`, whose parts need one another. `InOrder`: as long as only the latest
  message is answered, the draft has what the steps before its own put in
  (`Consistent`), the latest message is of the draft's step, and a typed cooldown is
  waited for in the step of cooldowns only; without it a button of the latest message
  might belong to another step. `ShowsDraft`: a preview that is the latest message
  shows the draft as it is now, however it came about, even after older messages were
  used. `AskedInOrder`: the form that asked last is the one whose slot in the session
  is set, or none is, but for seconds asked for by an older message. `CooldownKnown`:
  the preview is reached with a cooldown only. `Save` is where all handlers end;
  `Sound` says what a save must put into the session to keep the invariant, and each
  handler's lemma shows that it does.
- `DraftsBecomeOneAlert`: by `Counted`, every alert made from the draft in the
  session, but the one that ended it, is one whose clearing Redis refused.

Only model-checked: liveness (`DispatchReturns`, `ReloadApplies`, `ShutdownCompletes`,
`Resubscribes`, `StopEnds`), since fairness and ENABLED are out of the prover's reach.
The runs that expect a violation state what the code does not keep, and there is
nothing to prove.

## 5. Plan

Done, in this order: `Delivery`, `RuleRuntime`, `AlertConfig`, `Worker`, each with
its proofs; `Ingestion` and its proofs; `TelegramWizard` and
`TelegramUi`; `SnapshotService` and the refinement; `Signals` and `Matching`, and
`RuleRuntime` on top of them in place of constants; the proofs of the outcomes and
slots of `Delivery`, of `TelegramUi`, of `EveryMatchIsTried`, and of watches and
windows for any number of workers.

Left, in this order:

1. An abstract specification of a delivery (claimed, tried, settled once) that
   `Delivery` implements, as `SnapshotService` is for `AlertConfig`.
2. The activation of a rule set in `PostgresRuleStore`, beside `AlertConfig`.
3. Several API processes on one session; larger instances of `config` and
   `telegram_ui`.

## 6. Not modelled

Message texts, metrics and logs; the HTTP exchanges with Telegram and Polymarket
and the API's request parsing; the extraction of fields and the hash of a payload,
whose results are inputs of the models; the explanations of a decision; how rows of
the rule tables become rules, and the activation of a rule set beyond its commit;
several API processes that serve one user at once (a session is then read and
written by two handlers in turn); read-only commands; in-memory stores, which serve
tests; migrations, the load harness and the drills, which run outside the event
pipeline; the web frontend.
