------------------------------- MODULE Matching -------------------------------
(***************************************************************************)
(* Which alerts an event is for: the index that yields the candidates      *)
(* (compute/prefilter.py), the filters of rule and alert that a candidate  *)
(* must pass (rules/runtime.py, alert_filters.py), and what an alert may   *)
(* change of its rule's deferred watch.                                    *)
(*                                                                         *)
(* A binding is a record [rule, filters].  A rule has                      *)
(*   id, version, type, objects, paths, expression, suppressIf,            *)
(*   categoryTags, requireTag, minSmart, minAge, watching, target, ttl     *)
(* and the filters of an alert                                             *)
(*   categoryTags, requireTag, minSmart, minAge, numeric, target, ttl.     *)
(* An optional value is a set of at most one; `numeric' maps the numeric   *)
(* filters that are set to their thresholds.                               *)
(***************************************************************************)
EXTENDS Signals

RuleType == {"trader_position_update", "volume_spike_5m", "new_market_liquidity"}

EventType ==
  {"trade", "orderbook_delta", "market_snapshot", "market_created", "market_resolved",
   "liquidity_update", "position_update", "wallet_activity", "metadata_refresh"}

NoFilters ==
  [categoryTags |-> {}, requireTag |-> {}, minSmart |-> {}, minAge |-> {},
   numeric |-> <<>>, target |-> {}, ttl |-> {}]

-----------------------------------------------------------------------------
(* Filters. *)

\* "" is a tag of nothing but blanks.
RuleTags(rule) == rule.categoryTags \ {""}

\* A rule with category tags wants one of them on the event.
TagsMatch(rule, p) == RuleTags(rule) = {} \/ RuleTags(rule) \cap EventTags(p) # {}

\* The alert's tag takes the place of the rule's.
RequiredTag(b) ==
  IF b.filters.requireTag # {} THEN b.filters.requireTag ELSE b.rule.requireTag

\* Mutant: the alert's own minimum, if it has one, whatever the rule's floor.
StrictestOfAlert(floor, own) == IF own # {} THEN own ELSE floor

\* The server's floor, or the alert's if that is higher.
Strictest(floor, own) ==
  {n \in floor \cup own : \A k \in floor \cup own : k <= n}

AtLeast(values, signal, minimum) ==
  \A n \in minimum : \E x \in FloatAt(values, signal) : x >= n

PassesRuleFilters(b, p) ==
  /\ RequiredTag(b) \subseteq EventTags(p)
  /\ AtLeast(Features(p), "smart_score", Strictest(b.rule.minSmart, b.filters.minSmart))
  /\ AtLeast(Features(p), "account_age_days", Strictest(b.rule.minAge, b.filters.minAge))

NumericCheck ==
  [return_1m_pct_min |-> "price_return_1m_pct", return_5m_pct_min |-> "price_return_5m_pct",
   spread_bps_max |-> "spread_bps", imbalance_abs_min |-> "book_imbalance_topN",
   liquidity_usd_min |-> "liquidity_usd"]

PassesNumeric(key, x, threshold) ==
  CASE key = "spread_bps_max" -> x <= threshold
    [] key = "imbalance_abs_min" -> x >= threshold \/ -x >= threshold
    [] OTHER -> x >= threshold

\* One of the alert's categories, and every numeric filter; a missing number fails.
PassesAlertFilters(b, p) ==
  LET tags == b.filters.categoryTags \ {""}
  IN /\ tags = {} \/ tags \cap EventTags(p) # {}
     /\ \A key \in DOMAIN b.filters.numeric :
          \E x \in FloatAt(Features(p), NumericCheck[key]) :
            PassesNumeric(key, x, b.filters.numeric[key])

Accepts(b, p) ==
  TagsMatch(b.rule, p) /\ PassesRuleFilters(b, p) /\ PassesAlertFilters(b, p)

-----------------------------------------------------------------------------
(* The deferred watch of a rule, which its alerts may adjust. *)

IsOneShot(b) == b.rule.type = "new_market_liquidity"
Target(b) == IF b.filters.target # {} THEN b.filters.target ELSE b.rule.target
Watches(b) == b.rule.watching /\ Target(b) # {}
WatchTTL(b) == CHOOSE n \in IF b.filters.ttl # {} THEN b.filters.ttl ELSE {b.rule.ttl} : TRUE

-----------------------------------------------------------------------------
(* The prefilter. *)

EventsOf(type) ==
  CASE type = "trader_position_update" -> {"position_update"}
    [] type = "volume_spike_5m" ->
         {"trade", "orderbook_delta", "market_snapshot", "liquidity_update"}
    [] type = "new_market_liquidity" -> {"market_created", "liquidity_update"}

ObjectOf(eventType) ==
  CASE eventType = "trade" -> "trade"
    [] eventType = "orderbook_delta" -> "orderbook"
    [] eventType = "position_update" -> "position"
    [] eventType = "wallet_activity" -> "wallet"
    [] OTHER -> "market"

\* Under which objects, fields and tags a binding is filed; "*" is for any object or
\* field, and a binding without tags is found with any.
FiledObjects(b) ==
  IF b.rule.objects # {} THEN b.rule.objects ELSE {ObjectOf(e) : e \in EventsOf(b.rule.type)}

FieldPaths(rule) == IF rule.paths # {} THEN rule.paths ELSE SignalsOf(rule.expression)

\* Mutant: a one-shot rule is filed under its fields only.
FiledFieldsOnly(b) == IF FieldPaths(b.rule) = {} THEN {"*"} ELSE FieldPaths(b.rule)

\* A one-shot rule is found by a market_created that carries none of its signals.
FiledFields(b) ==
  IF FieldPaths(b.rule) = {} THEN {"*"}
  ELSE FieldPaths(b.rule) \cup IF IsOneShot(b) THEN {"*"} ELSE {}

FiledTags(b) ==
  IF b.rule.categoryTags # {} THEN b.rule.categoryTags ELSE b.rule.requireTag

\* The candidates for an event among the bindings: filed under its object, under one of
\* its signals, and under one of its tags unless it has none.
Lookup(bindings, p) ==
  {a \in DOMAIN bindings :
     LET b == bindings[a]
     IN /\ FiledObjects(b) \cap {ObjectOf(p.type), "*"} # {}
        /\ FiledFields(b) \cap (DOMAIN Features(p) \cup {"*"}) # {}
        /\ \/ FiledTags(b) = {}
           \/ EventTags(p) = {} /\ ~p.ids
           \/ FiledTags(b) \cap EventTags(p) # {}}

=============================================================================
