---------------------------- MODULE MCRuleRuntime ----------------------------
(* Values of RuleRuntime's constants for TLC: events, rules and binding tables. *)
EXTENDS RuleRuntime

CONSTANTS w1, w2, m1, a1, a2, a3, a4, r1, r2, r3

Texts == {<<"flip", "flip">>, <<"flip", "flip and hold">>}

-----------------------------------------------------------------------------
(* Events. *)

Plain ==
  [type |-> "trade", fields |-> <<>>, book |-> {}, tags |-> {}, ids |-> FALSE,
   category |-> {}, categoryTags |-> {}]

Book(bid, ask) == {[bids |-> <<<<bid, 3>>, <<bid - 1, 1>>>>, asks |-> <<<<ask, 1>>>>]}

Payloads ==
  [created  |-> [Plain EXCEPT !.type = "market_created", !.tags = {"politics"},
                              !.fields = [question |-> Text("who wins")]],
   deep     |-> [Plain EXCEPT !.type = "liquidity_update", !.category = {"politics"},
                              !.fields = [liquidityNum |-> Digits(10)]],
   garbled  |-> [Plain EXCEPT !.type = "liquidity_update", !.category = {"politics"},
                              !.fields = [liquidity_usd |-> Text("n/a")]],
   move     |-> [Plain EXCEPT !.tags = {"politics"}, !.book = Book(99, 101),
                              !.fields = [delta_1m_pct |-> Digits(3)]],
   rush     |-> [Plain EXCEPT !.tags = {"politics"}, !.book = Book(99, 101),
                              !.fields = [delta |-> Number(5)]],
   flipped  |-> [Plain EXCEPT !.type = "position_update", !.tags = {"crypto"},
                              !.fields = [action |-> Text("flip and hold"),
                                          smart_score |-> Digits(40),
                                          verified |-> Text("yes")]]]

-----------------------------------------------------------------------------
(* Rules. *)

If(signal, op, threshold) == [op |-> op, signal |-> signal, threshold |-> threshold]
Group(op, of) == [op |-> op, of |-> of]

PlainRule ==
  [id |-> r1, version |-> 1, type |-> "volume_spike_5m", objects |-> {}, paths |-> {},
   expression |-> <<If("liquidity_usd", "gte", Number(2))>>, suppressIf |-> <<>>,
   categoryTags |-> {}, requireTag |-> {}, minSmart |-> {}, minAge |-> {},
   watching |-> FALSE, target |-> {}, ttl |-> 3]

Storm(seconds) ==
  [signal |-> "price_return_1m_pct", op |-> "gte", threshold |-> 100, seconds |-> seconds]
Gust(seconds) ==
  [signal |-> "volume_5m", op |-> "gt", threshold |-> 8, seconds |-> seconds]

\* A new market that becomes liquid.
Listing == [PlainRule EXCEPT !.type = "new_market_liquidity", !.watching = TRUE, !.target = {5}]

\* A price that moves while the spread stays narrow.
Spike ==
  [PlainRule EXCEPT !.id = r2, !.requireTag = {"politics"},
     !.expression = <<If("price_return_1m_pct", "gte", Number(2)),
                      If("spread_bps", "gt", Number(300)), Group("NOT", {2}),
                      Group("AND", {1, 3})>>]

\* A smart trader who opens a position or flips one.
Trader ==
  [PlainRule EXCEPT !.id = r3, !.type = "trader_position_update", !.minSmart = {50},
     !.categoryTags = {"crypto", ""},
     !.expression = <<If("PositionOpened", "eq", Number(1)),
                      If("action", "contains", Text("flip")), If("verified", "eq", Flag(TRUE)),
                      Group("AND", {2, 3}), Group("OR", {1, 4})>>]

\* A rule that is filed where its expression does not look, and one that is true of
\* anything but what it excludes.
Elsewhere == [Spike EXCEPT !.id = r3, !.paths = {"spread_bps"}, !.categoryTags = {""}]
Unless ==
  [PlainRule EXCEPT !.id = r2,
     !.expression = <<If("venue", "in", OneOf({Text("x"), Text("y")})), Group("NOT", {1})>>]

-----------------------------------------------------------------------------
(* Bindings. *)

On(rule, filters) == [rule |-> rule, filters |-> filters]
Bare(rule) == On(rule, NoFilters)

\* a1 waits for liquidity; a2 and a4 share the price rule and a3 follows a trader, each
\* with a filter; in the second table the rules have other versions, the trader's a lower
\* floor.
Shared ==
  <<a1 :> Bare(Listing)
      @@ a2 :> On(Spike, [NoFilters EXCEPT !.numeric = [spread_bps_max |-> 250]])
      @@ a3 :> On(Trader, [NoFilters EXCEPT !.minSmart = {20}])
      @@ a4 :> On(Spike, [NoFilters EXCEPT !.requireTag = {"sports"}]),
    a1 :> On([Listing EXCEPT !.version = 2], [NoFilters EXCEPT !.target = {8}, !.ttl = {2}])
      @@ a2 :> Bare(Unless)
      @@ a3 :> On([Trader EXCEPT !.version = 2, !.minSmart = {30}],
                  [NoFilters EXCEPT !.minSmart = {35}])
      @@ a4 :> Bare(Elsewhere)>>

\* The price rule with two windows; its second version has lost the first, so that the
\* other takes its place.
Windowed ==
  <<a2 :> Bare([Spike EXCEPT !.suppressIf = <<Gust(1), Storm(3)>>]),
    a2 :> Bare([Spike EXCEPT !.version = 2, !.suppressIf = <<Storm(3)>>])>>

OnlyListing == <<a1 :> Bare(Listing)>>

\* Workers differ in nothing but their name.
Workers == Permutations({w1, w2})
=============================================================================
