----------------------------- MODULE RuleRuntime -----------------------------
(***************************************************************************)
(* RuleRuntime.evaluate_event (rules/runtime.py) run by several workers    *)
(* against one Redis.                                                      *)
(*                                                                         *)
(* A worker takes an event and goes through the candidate bindings that    *)
(* Matching's prefilter yields, in an order that differs from process to   *)
(* process (lookup runs over a set of names).  A candidate that passes its *)
(* filters, its deferred watch and its expression is held back by an       *)
(* active suppression window, then reserves the trigger key of its rule,   *)
(* market and time bucket, then, if it is a one-shot rule, marks its watch *)
(* as fired; only then is there a decision.  Each Redis command is one     *)
(* step; several of the stores read in one command and write in the next.  *)
(*                                                                         *)
(* Two clocks meet: windows, watches and buckets are computed from the     *)
(* timestamp of the event, the TTL of every key runs on the wall clock;    *)
(* nothing keeps a timestamp from being ahead of that clock.               *)
(* A worker may change its bindings between two events (set_bindings);     *)
(* another worker may still have the old ones.                             *)
(***************************************************************************)
EXTENDS Matching, FiniteSetsExt

CONSTANTS
  Worker, Market, Alert, Rule,
  Content,         \* what an event says, by name
  Payload,         \* [Content -> payload]
  Catalog,         \* sequence of binding tables, [a set of alerts -> binding]
  Bucket,          \* dedup_bucket_seconds
  Margin,          \* dedup_safety_margin_seconds
  MaxDelay,        \* from the timestamp of an event to the end of its evaluation
  MaxAhead,        \* how far ahead of the wall clock a timestamp may be
  MaxTime,         \* bound on the wall clock
  MaxEvents,       \* bound on the number of events
  MaxReloads,      \* bound on the number of changes of the bindings
  MaxCrashes       \* bound on the number of worker crashes

Versions == DOMAIN Catalog

\* A binding as it comes out of the validated rule and filters.
WellFormed(b) ==
  /\ b = [rule |-> b.rule, filters |-> b.filters]
  /\ b.rule.id \in Rule /\ b.rule.version \in Nat
  /\ b.rule.ttl \in Nat /\ b.filters.ttl \subseteq Nat /\ Target(b) \subseteq Int
  /\ IsExpression(b.rule.expression)
  /\ Len(b.rule.suppressIf) \in Nat
  /\ DOMAIN b.rule.suppressIf = 1 .. Len(b.rule.suppressIf)
  /\ \A k \in DOMAIN b.rule.suppressIf : b.rule.suppressIf[k].seconds \in Nat
  /\ \A minimum \in {b.rule.minSmart, b.rule.minAge, b.filters.minSmart, b.filters.minAge} :
       minimum \subseteq Int /\ \A n, k \in minimum : n = k

ASSUME RuleAssumption ==
  /\ Len(Catalog) \in Nat \ {0}
  /\ \A i \in Versions : DOMAIN Catalog[i] \subseteq Alert
  /\ \A i \in Versions : \A a \in DOMAIN Catalog[i] : WellFormed(Catalog[i][a])
  /\ \A c \in Content : \A f \in DOMAIN Payload[c].fields :
       ToFloat(Payload[c].fields[f]) \subseteq Int
  /\ Market # {} /\ Content # {} /\ Alert # {}
  /\ Bucket \in Nat \ {0} /\ Margin \in Nat
  /\ MaxDelay \in Nat /\ MaxAhead \in Nat /\ MaxTime \in Nat /\ MaxEvents \in Nat
  /\ MaxReloads \in Nat /\ MaxCrashes \in Nat

\* What each binding makes of each content.
Values == [c \in Content |-> Features(Payload[c])]
Candidates == [i \in Versions |-> [c \in Content |-> Lookup(Catalog[i], Payload[c])]]
Accepting ==
  [i \in Versions |-> [a \in DOMAIN Catalog[i] |->
     {c \in Content : Accepts(Catalog[i][a], Payload[c])}]]
Satisfying ==
  [i \in Versions |-> [a \in DOMAIN Catalog[i] |->
     {c \in Content : Truth(Catalog[i][a].rule.expression, Values[c])}]]
Activating ==
  [i \in Versions |-> [a \in DOMAIN Catalog[i] |->
     LET entries == Catalog[i][a].rule.suppressIf
     IN [k \in DOMAIN entries |-> {c \in Content : Activates(entries[k], Values[c])}]]]

VARIABLES
  clock,      \* the wall clock
  loaded,     \* [Worker -> the table its bindings are from]
  dedup,      \* trigger keys reserved, with the expiry of the key
  window,     \* [Alert \X Market \X index of suppress_if -> window]
  watch,      \* [Alert \X Market -> deferred watch]
  eval,       \* [Worker -> evaluation in progress]
  received,   \* events taken so far
  reloads,    \* changes of bindings so far
  crashes,    \* crashes so far
  armings,    \* history: watches armed so far
  windows,    \* history: suppression windows opened, in order, and what became of them
  decisions   \* history: trigger decisions made

keys == <<dedup, window, watch>>
history == <<armings, windows, decisions>>
vars == <<clock, loaded, keys, eval, received, reloads, crashes, history>>

-----------------------------------------------------------------------------

Later(a, b) == IF a > b THEN a ELSE b

\* Mutant: min for max, every key lives one second.
KeyExpiriesMin(at) == {clock + 1}

\* ex = max(1, int(at - now)): a key lives a second at least, and int drops the
\* fraction of a second that the clock of the model does not show.
KeyExpiries(at) == {Later(at - 1, clock + 1), Later(at, clock + 1)}

\* Mutant: the alert takes the place of its rule in the hash.
TriggerOfAlert(b, a, e) ==
  [rule |-> a, version |-> b.rule.version, market |-> e.market, bucket |-> e.ts \div Bucket]

\* hash(tenant, rule, version, market, bucket of the event timestamp); the alert is
\* not part of it.
TriggerOf(b, a, e) ==
  [rule |-> b.rule.id, version |-> b.rule.version, market |-> e.market,
   bucket |-> e.ts \div Bucket]

\* Mutant: the reservation ends with the bucket's length.
DedupTTLWithoutMargin == Bucket
DedupTTL == Bucket + Margin

TriggerKey == [rule : Rule, version : Nat, market : Market, bucket : Nat]

Event == [market : Market, content : Content, ts : Nat]

Window == [until : Nat, expiry : Nat]
NoWindow == [until |-> 0, expiry |-> 0]

\* `arming' numbers the saves that armed a watch; the code stores armed_at.
Watch == [arming : Nat, target : Int, expiresAt : Nat, fired : BOOLEAN, expiry : Nat]
NoWatch == [arming |-> 0, target |-> 0, expiresAt |-> 0, fired |-> FALSE, expiry |-> 0]

\* A window is kept until its end, or another event ends it early: one timestamped at or
\* after its end (overtaken), or one that read the key before the window was there (raced).
Fate == {"kept", "overtaken", "raced"}

Stage == {"idle", "candidate", "arm", "window", "clear", "open", "reserve", "fire", "mark"}

\* `since' and `saw' are history: the windows opened when the event was taken, and the
\* decisions made when mark_fired read the watch.
Evaluation == [stage : Stage, event : Event, todo : SUBSET Alert, alert : Alert,
               idx : Nat \ {0}, seen : Watch, reservedAt : Nat, since : Nat, saw : Nat]

Idle == [stage |-> "idle",
         event |-> [market |-> CHOOSE m \in Market : TRUE,
                    content |-> CHOOSE c \in Content : TRUE, ts |-> 0],
         todo |-> {}, alert |-> CHOOSE a \in Alert : TRUE,
         idx |-> 1, seen |-> NoWatch, reservedAt |-> 0, since |-> 0, saw |-> 0]

Entries == UNION {UNION {DOMAIN Catalog[i][a].rule.suppressIf : a \in DOMAIN Catalog[i]} :
                    i \in Versions}

Init ==
  /\ clock = 0
  /\ loaded \in [Worker -> Versions]
  /\ dedup = {}
  /\ window = [p \in Alert \X Market \X Entries |-> NoWindow]
  /\ watch = [am \in Alert \X Market |-> NoWatch]
  /\ eval = [w \in Worker |-> Idle]
  /\ received = 0 /\ reloads = 0 /\ crashes = 0 /\ armings = 0
  /\ windows = <<>> /\ decisions = {}

-----------------------------------------------------------------------------
(* The candidate a worker stands at. *)

At(w, stage) == eval[w].stage = stage
Candidate(w) == eval[w].alert
Place(w) == <<Candidate(w), eval[w].event.market>>
Bound(w, a) == Catalog[loaded[w]][a]
Binding(w) == Bound(w, Candidate(w))
ContentOf(w) == eval[w].event.content
TypeOf(w) == Payload[ContentOf(w)].type
Time(w) == eval[w].event.ts
Trigger(w) == TriggerOf(Binding(w), Candidate(w), eval[w].event)

Goto(w, stage) == eval' = [eval EXCEPT ![w].stage = stage]
NextCandidate(w) ==
  eval' = [eval EXCEPT ![w] = [Idle EXCEPT !.stage = "candidate", !.event = eval[w].event,
                                           !.todo = eval[w].todo, !.since = eval[w].since]]

\* Takes candidate a, and leaves it or goes to a stage with it.
Drops(w, a) == eval' = [eval EXCEPT ![w].todo = @ \ {a}]
Takes(w, a, stage) ==
  eval' = [eval EXCEPT ![w].todo = @ \ {a}, ![w].alert = a, ![w].stage = stage]

Present(key) == clock < key.expiry

\* A watch that can still fire at event time t.
Live(wt, t) == Present(wt) /\ ~wt.fired /\ t < wt.expiresAt

\* A new rule set, between two events.
SetBindings(w) ==
  /\ At(w, "idle") /\ reloads < MaxReloads
  /\ reloads' = reloads + 1
  /\ \E i \in Versions \ {loaded[w]} : loaded' = [loaded EXCEPT ![w] = i]
  /\ UNCHANGED <<clock, keys, eval, received, crashes, history>>

\* An event reaches the worker, at most MaxDelay after its timestamp and at most MaxAhead
\* before it, and is looked up.
Receive(w, m, c, ts) ==
  /\ At(w, "idle") /\ received < MaxEvents
  /\ ts <= clock + MaxAhead /\ clock <= ts + MaxDelay
  /\ received' = received + 1
  /\ eval' = [eval EXCEPT ![w] = [Idle EXCEPT !.stage = "candidate",
                !.event = [market |-> m, content |-> c, ts |-> ts],
                !.todo = Candidates[loaded[w]][c], !.since = Len(windows)]]
  /\ UNCHANGED <<clock, loaded, keys, reloads, crashes, history>>

\* No other candidate: the evaluation returns its decisions.
Finish(w) ==
  /\ At(w, "candidate") /\ eval[w].todo = {}
  /\ eval' = [eval EXCEPT ![w] = Idle]
  /\ UNCHANGED <<clock, loaded, keys, received, reloads, crashes, history>>

IsNext(w, a) == At(w, "candidate") /\ a \in eval[w].todo
Fits(w, a) == ContentOf(w) \in Accepting[loaded[w]][a]
IsTrue(w, a) == ContentOf(w) \in Satisfying[loaded[w]][a]

\* What the event says of liquidity: a number, unless the payload has something under that
\* name that is none.
Liquidity(w) ==
  LET values == Values[ContentOf(w)]
  IN IF "liquidity_usd" \in DOMAIN values THEN {values["liquidity_usd"]} ELSE {}

\* Filters fail, the event says nothing to a one-shot rule, its rule keeps no watch, or
\* the expression of a rule without a watch is false.
SkipCandidate(w, a) ==
  LET b == Bound(w, a)
  IN /\ IsNext(w, a)
     /\ \/ ~Fits(w, a)
        \/ IsOneShot(b) /\ TypeOf(w) \notin {"market_created", "liquidity_update"}
        \/ IsOneShot(b) /\ TypeOf(w) = "market_created" /\ ~Watches(b)
        \/ IsOneShot(b) /\ TypeOf(w) = "liquidity_update" /\ Liquidity(w) = {}
        \/ ~IsOneShot(b) /\ ~IsTrue(w, a)
     /\ Drops(w, a)
     /\ UNCHANGED <<clock, loaded, keys, received, reloads, crashes, history>>

Evaluate(w, a) ==
  /\ IsNext(w, a) /\ Fits(w, a)
  /\ ~IsOneShot(Bound(w, a)) /\ IsTrue(w, a)
  /\ Takes(w, a, "window")
  /\ UNCHANGED <<clock, loaded, keys, received, reloads, crashes, history>>

-----------------------------------------------------------------------------
(* The deferred watch of a one-shot rule: arm, is_crossed. *)

\* arm: GET.  A watch that is neither fired nor expired is left alone.
LoadForArm(w, a) ==
  /\ IsNext(w, a) /\ Fits(w, a)
  /\ IsOneShot(Bound(w, a)) /\ Watches(Bound(w, a)) /\ TypeOf(w) = "market_created"
  /\ IF Live(watch[<<a, eval[w].event.market>>], Time(w))
     THEN Drops(w, a) ELSE Takes(w, a, "arm")
  /\ UNCHANGED <<clock, loaded, keys, received, reloads, crashes, history>>

\* arm: SET of a new, unfired watch; a market_created never triggers.
SaveArm(w) ==
  LET until == Time(w) + WatchTTL(Binding(w))
  IN /\ At(w, "arm")
     /\ armings' = armings + 1
     /\ \E ex \in KeyExpiries(until), target \in Target(Binding(w)) :
          watch' = [watch EXCEPT ![Place(w)] =
                      [arming |-> armings + 1, target |-> target, expiresAt |-> until,
                       fired |-> FALSE, expiry |-> ex]]
     /\ NextCandidate(w)
     /\ UNCHANGED <<clock, loaded, dedup, window, received, reloads, crashes,
                    windows, decisions>>

\* is_crossed: GET and the target the watch was armed with, then the expression.
CheckCrossing(w, a) ==
  LET wt == watch[<<a, eval[w].event.market>>]
  IN /\ IsNext(w, a) /\ Fits(w, a)
     /\ IsOneShot(Bound(w, a)) /\ TypeOf(w) = "liquidity_update"
     /\ \E liquidity \in Liquidity(w) :
          /\ Live(wt, Time(w)) => IsNumeric(liquidity)
          /\ IF Live(wt, Time(w)) /\ liquidity.is >= wt.target /\ IsTrue(w, a)
             THEN Takes(w, a, "window") ELSE Drops(w, a)
     /\ UNCHANGED <<clock, loaded, keys, received, reloads, crashes, history>>

\* is_crossed compares a text with the target of a live watch: the error ends the
\* evaluation, and the decisions it has made are not returned.
FailCrossing(w, a) ==
  /\ IsNext(w, a) /\ Fits(w, a)
  /\ IsOneShot(Bound(w, a)) /\ TypeOf(w) = "liquidity_update"
  /\ Live(watch[<<a, eval[w].event.market>>], Time(w))
  /\ \E liquidity \in Liquidity(w) : ~IsNumeric(liquidity)
  /\ eval' = [eval EXCEPT ![w] = Idle]
  /\ UNCHANGED <<clock, loaded, keys, received, reloads, crashes, history>>

-----------------------------------------------------------------------------
(* should_suppress: the windows of suppress_if, in order. *)

Suppressions(w) == Binding(w).rule.suppressIf
HasWindow(w) == eval[w].idx <= Len(Suppressions(w))
WindowKey(w) == <<Candidate(w), eval[w].event.market, eval[w].idx>>
Opens(w) == ContentOf(w) \in Activating[loaded[w]][Candidate(w)][eval[w].idx]

\* Past entry idx, which is not active: it opens now, or the next one is checked.
PastWindow(w) ==
  IF Opens(w) THEN Goto(w, "open")
  ELSE eval' = [eval EXCEPT ![w].stage = "window", ![w].idx = @ + 1]

\* GET of the window.
CheckWindow(w) ==
  /\ At(w, "window") /\ HasWindow(w)
  /\ IF ~Present(window[WindowKey(w)]) THEN PastWindow(w)
     ELSE IF Time(w) < window[WindowKey(w)].until THEN NextCandidate(w)
     ELSE Goto(w, "clear")
  /\ UNCHANGED <<clock, loaded, keys, received, reloads, crashes, history>>

\* The windows opened so far, when the key of the candidate's window comes to end at
\* `until' (0 if it is deleted): what is cut short while it is still open has its fate.
CutShort(w, until) ==
  [n \in DOMAIN windows |->
     IF /\ windows[n].key = WindowKey(w) /\ windows[n].fate = "kept"
        /\ until < windows[n].until /\ clock < windows[n].until - 1
     THEN [windows[n] EXCEPT !.fate = IF Time(w) < windows[n].until THEN "raced" ELSE "overtaken"]
     ELSE windows[n]]

\* DEL of a window that was over when it was read.
ClearWindow(w) ==
  /\ At(w, "clear")
  /\ window' = [window EXCEPT ![WindowKey(w)] = NoWindow]
  /\ windows' = CutShort(w, 0)
  /\ PastWindow(w)
  /\ UNCHANGED <<clock, loaded, dedup, watch, received, reloads, crashes,
                 armings, decisions>>

\* SET of the window; the event that opens it is suppressed too.
OpenWindow(w) ==
  LET until == Time(w) + Suppressions(w)[eval[w].idx].seconds
  IN /\ At(w, "open")
     /\ \E ex \in KeyExpiries(until) :
          window' = [window EXCEPT ![WindowKey(w)] = [until |-> until, expiry |-> ex]]
     /\ windows' = Append(CutShort(w, until),
                          [key |-> WindowKey(w), until |-> until, fate |-> "kept"])
     /\ NextCandidate(w)
     /\ UNCHANGED <<clock, loaded, dedup, watch, received, reloads, crashes,
                    armings, decisions>>

\* No entry of suppress_if holds the candidate back.
PassWindows(w) ==
  /\ At(w, "window") /\ ~HasWindow(w)
  /\ eval' = [eval EXCEPT ![w].stage = "reserve"]
  /\ UNCHANGED <<clock, loaded, keys, received, reloads, crashes, history>>

-----------------------------------------------------------------------------
(* The trigger key, mark_fired, the decision. *)

\* Mutant: SET without NX.
ReservableAlways(key) == TRUE

Reservable(key) == \A r \in dedup : r.key = key => clock >= r.expiry

Decide(w, arming, reservedAt, saw) ==
  decisions' = decisions \cup
    {[n |-> Cardinality(decisions) + 1, place |-> Place(w), trigger |-> Trigger(w),
      arming |-> arming, reservedAt |-> reservedAt, saw |-> saw]}

SkipReserved(w) ==
  /\ At(w, "reserve") /\ ~Reservable(Trigger(w))
  /\ NextCandidate(w)
  /\ UNCHANGED <<clock, loaded, keys, received, reloads, crashes, history>>

\* SET NX EX of the trigger key.
Reserve(w) ==
  /\ At(w, "reserve") /\ Reservable(Trigger(w))
  /\ dedup' = {r \in dedup : r.key # Trigger(w)} \cup
                {[key |-> Trigger(w), expiry |-> clock + DedupTTL]}
  /\ IF IsOneShot(Binding(w))
     THEN /\ eval' = [eval EXCEPT ![w].stage = "fire", ![w].reservedAt = clock]
          /\ UNCHANGED decisions
     ELSE Decide(w, 0, clock, 0) /\ NextCandidate(w)
  /\ UNCHANGED <<clock, loaded, window, watch, received, reloads, crashes, armings, windows>>

\* mark_fired: GET.  Without a live watch the candidate gets no decision, and the
\* trigger key stays reserved.
LoadForFire(w) ==
  /\ At(w, "fire")
  /\ IF Live(watch[Place(w)], Time(w))
     THEN eval' = [eval EXCEPT ![w].stage = "mark", ![w].seen = watch[Place(w)],
                               ![w].saw = Cardinality(decisions)]
     ELSE NextCandidate(w)
  /\ UNCHANGED <<clock, loaded, keys, received, reloads, crashes, history>>

\* Mutant: the watch is not written back.
FireWithoutMark(w) ==
  /\ At(w, "mark")
  /\ Decide(w, eval[w].seen.arming, eval[w].reservedAt, eval[w].saw)
  /\ NextCandidate(w)
  /\ UNCHANGED <<clock, loaded, keys, received, reloads, crashes, armings, windows>>

\* mark_fired: SET of what was read, now fired; then the decision.
SaveFired(w) ==
  /\ At(w, "mark")
  /\ \E ex \in KeyExpiries(eval[w].seen.expiresAt) :
       watch' = [watch EXCEPT ![Place(w)] = [eval[w].seen EXCEPT !.fired = TRUE,
                                                                 !.expiry = ex]]
  /\ Decide(w, eval[w].seen.arming, eval[w].reservedAt, eval[w].saw)
  /\ NextCandidate(w)
  /\ UNCHANGED <<clock, loaded, dedup, window, received, reloads, crashes, armings, windows>>

-----------------------------------------------------------------------------

\* The worker process dies: its evaluation is gone, with the decisions it would have
\* returned; what is in Redis stays.
Crash(w) ==
  /\ ~At(w, "idle") /\ crashes < MaxCrashes
  /\ crashes' = crashes + 1
  /\ eval' = [eval EXCEPT ![w] = Idle]
  /\ UNCHANGED <<clock, loaded, keys, received, reloads, history>>

\* Time passes, but no evaluation takes longer than MaxDelay from its event.
Tick ==
  /\ clock < MaxTime
  /\ \A w \in Worker : At(w, "idle") \/ clock < Time(w) + MaxDelay
  /\ clock' = clock + 1
  /\ UNCHANGED <<loaded, keys, eval, received, reloads, crashes, history>>

Step(w) ==
  \/ Finish(w)
  \/ \E a \in Alert : SkipCandidate(w, a) \/ Evaluate(w, a)
                      \/ LoadForArm(w, a) \/ CheckCrossing(w, a) \/ FailCrossing(w, a)
  \/ SaveArm(w)
  \/ CheckWindow(w) \/ ClearWindow(w) \/ OpenWindow(w) \/ PassWindows(w)
  \/ SkipReserved(w) \/ Reserve(w) \/ LoadForFire(w) \/ SaveFired(w)

Next ==
  \/ \E w \in Worker :
       \/ SetBindings(w)
       \/ \E m \in Market, c \in Content, ts \in 0 .. clock + MaxAhead : Receive(w, m, c, ts)
       \/ Step(w)
       \/ Crash(w)
  \/ Tick

Spec == Init /\ [][Next]_vars

-----------------------------------------------------------------------------
(* Properties. *)

\* Every variable has its type.
TypeOK ==
  /\ clock \in 0 .. MaxTime
  /\ dedup \subseteq [key : TriggerKey, expiry : Nat]
  /\ loaded \in [Worker -> Versions]
  /\ window \in [Alert \X Market \X Entries -> Window]
  /\ watch \in [Alert \X Market -> Watch]
  /\ eval \in [Worker -> Evaluation]
  /\ received \in 0 .. MaxEvents /\ reloads \in 0 .. MaxReloads
  /\ crashes \in 0 .. MaxCrashes /\ armings \in Nat
  /\ windows \in Seq([key : Alert \X Market \X Entries, until : Nat, fate : Fate])
  /\ decisions \subseteq [n : Nat, place : Alert \X Market, trigger : TriggerKey,
                          arming : Nat, reservedAt : Nat, saw : Nat]

\* Two decisions of one trigger key were reserved at least the TTL of the key apart.
TriggerSpacing ==
  \A d1, d2 \in decisions :
    d1.trigger = d2.trigger /\ d1 # d2
      => \/ d2.reservedAt >= d1.reservedAt + DedupTTL
         \/ d1.reservedAt >= d2.reservedAt + DedupTTL

\* A version of a rule decides at most once per market and time bucket, whichever workers see
\* which events of the bucket in which order: the TTL (bucket and safety margin)
\* outlives every event of the bucket as long as the margin covers what an event may come
\* late and what its timestamp may be ahead of the wall clock.
OneDecisionPerTrigger ==
  MaxDelay + MaxAhead <= Margin =>
    \A d1, d2 \in decisions : d1.trigger = d2.trigger => d1 = d2

\* Whoever reads a watch after its firing is written does not fire it again, in whatever
\* order events, replays, arming and other workers come: of two decisions of one arming,
\* the later was made by a worker that had read the watch before the earlier was made.
\* (Two workers may both read it unfired: mark_fired is a GET, then a SET.)
FiredStaysFired ==
  \A d1, d2 \in decisions :
    /\ d1.place = d2.place /\ d1.arming = d2.arming /\ d1.arming > 0
    /\ d1.n < d2.n
    => d2.saw < d1.n

\* An armed watch fires at most once.
FireOncePerArming ==
  \A d1, d2 \in decisions :
    d1.place = d2.place /\ d1.arming = d2.arming /\ d1.arming > 0 => d1 = d2

\* An event that a worker takes while a suppression window is open takes no trigger key and
\* fires no watch under it, if it is timestamped before the end of the window and the
\* wall clock has not got there (up to the second that int() drops): whatever windows came
\* before it, whichever version of the rule opened it and whatever other workers do.
\* Not held: a window another event has ended early, and one that an evaluation finds
\* opened when it has begun.
WindowsHold ==
  \A w \in Worker : \A n \in 1 .. eval[w].since :
    /\ eval[w].stage \in {"reserve", "fire", "mark"}
    /\ \E k \in DOMAIN Suppressions(w) :
         windows[n].key = <<Candidate(w), eval[w].event.market, k>>
    /\ Time(w) < windows[n].until
    => clock >= windows[n].until - 1 \/ windows[n].fate # "kept"

\* No window is ended early.
WindowsKept == \A n \in DOMAIN windows : windows[n].fate = "kept"

\* The alert wants another tag than the one its rule is filed under.
ReplacesTag(b) ==
  /\ b.rule.requireTag # {} /\ b.filters.requireTag # {}
  /\ b.filters.requireTag # b.rule.requireTag

\* The alerts that content c is for: their filters pass, and their expression is true of
\* it or it arms their watch.  A metadata_refresh is for none, by the documents; the
\* prefilter takes it for an event of the market and finds candidates all the same.
Due ==
  [i \in Versions |-> [c \in Content |->
     {a \in DOMAIN Catalog[i] :
        LET b == Catalog[i][a]
        IN /\ Payload[c].type # "metadata_refresh"
           /\ ObjectOf(Payload[c].type) \in FiledObjects(b)
           /\ c \in Accepting[i][a]
           /\ \/ c \in Satisfying[i][a]
              \/ IsOneShot(b) /\ Payload[c].type = "market_created" /\ Watches(b)
           /\ ~(ReplacesTag(b) /\ b.rule.categoryTags = {})
           /\ b.rule.categoryTags # {""}
           /\ SignalsOf(b.rule.expression) \subseteq FieldPaths(b.rule)
           /\ ~Truth(b.rule.expression, <<>>)}]]

\* The prefilter loses nothing: an alert whose filters pass and whose expression is true
\* of an event of its rule's objects, or whose watch the event would arm, is a candidate,
\* although the index knows neither filters nor thresholds.  Not promised where the index
\* is coarser than the evaluation: an alert that replaces the tag its rule is filed under,
\* category tags that are nothing but blanks, paths that leave out signals of the
\* expression, and an expression that is true without any signal.
EveryMatchIsTried ==
  \A w \in Worker : ~At(w, "idle") =>
    Due[loaded[w]][ContentOf(w)] \subseteq Candidates[loaded[w]][ContentOf(w)]

\* What the rule alone accepts.
AcceptingBare ==
  [i \in Versions |-> [a \in DOMAIN Catalog[i] |->
     {c \in Content : Accepts([Catalog[i][a] EXCEPT !.filters = NoFilters], Payload[c])}]]

\* The filters of an alert only narrow its rule: what gets past them would get past the
\* rule's own, except where the alert replaces the required tag.
FiltersOnlyNarrow ==
  \A w \in Worker : eval[w].stage \notin {"idle", "candidate"} =>
    \/ ReplacesTag(Binding(w))
    \/ ContentOf(w) \in AcceptingBare[loaded[w]][Candidate(w)]

\* "Single-fire behavior per (alert_id, market_id)": a one-shot alert decides at most
\* once for a market.
SingleFire ==
  \A d1, d2 \in decisions : d1.arming > 0 /\ d2.arming > 0 /\ d1.place = d2.place => d1 = d2

=============================================================================
