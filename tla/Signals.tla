------------------------------- MODULE Signals -------------------------------
(***************************************************************************)
(* What a rule sees of an event: the signals computed from its payload     *)
(* (compute/features.py), the comparison of a signal with a threshold      *)
(* (rules/comparison.py) and the truth of a rule's expression              *)
(* (rules/evaluator.py).                                                   *)
(*                                                                         *)
(* A payload is a record                                                   *)
(*   type           its event type                                         *)
(*   fields         its scalar fields, by name                             *)
(*   book           its bids and asks, best first, each <<price, quantity>>*)
(*                  (a set: empty if one of the two is missing)            *)
(*   tags, category, categoryTags   where it may carry tags                *)
(*   ids            whether its tags have ids                              *)
(* Texts and tags are stripped and in lower case; the quotients computed   *)
(* from a book are rounded down.                                           *)
(***************************************************************************)
EXTENDS Integers, SequencesExt

CONSTANT PartOf   \* pairs of texts, the first occurs in the second

-----------------------------------------------------------------------------
(* Scalars.  A text is of kind "digits" if it reads as a number. *)

Number(n) == [kind |-> "number", is |-> n]
Flag(b)   == [kind |-> "flag", is |-> IF b THEN 1 ELSE 0]
Digits(n) == [kind |-> "digits", is |-> n]
Text(s)   == [kind |-> "text", is |-> s]
OneOf(S)  == [kind |-> "list", is |-> S]

\* A number from a number or a text, none (the empty set) from a Boolean.
ToFloat(x) == IF x.kind \in {"number", "digits"} THEN {x.is} ELSE {}

FloatAt(values, signal) ==
  IF signal \in DOMAIN values THEN ToFloat(values[signal]) ELSE {}

-----------------------------------------------------------------------------
(* Features. *)

\* Where a direct numeric feature may be found, best first.
Aliases ==
  [price_return_1m_pct |-> <<"price_return_1m_pct", "delta_1m_pct">>,
   price_return_5m_pct |-> <<"price_return_5m_pct", "delta_5m_pct">>,
   liquidity_usd       |-> <<"liquidity_usd", "liquidity", "liquidityNum">>,
   volume_5m           |-> <<"volume_5m">>,
   smart_score         |-> <<"smart_score", "smartScore">>,
   account_age_days    |-> <<"account_age_days", "accountAgeDays">>]

Direct(p, feature) ==
  LET reads == {i \in DOMAIN Aliases[feature] : FloatAt(p.fields, Aliases[feature][i]) # {}}
  IN UNION {FloatAt(p.fields, Aliases[feature][i]) :
              i \in {i \in reads : \A j \in reads : i <= j}}

PriceReturn(p) ==
  LET direct == Direct(p, "price_return_1m_pct")
  IN IF direct # {} THEN direct ELSE {100 * delta : delta \in FloatAt(p.fields, "delta")}

SpreadBps(p) ==
  {(20000 * (b.asks[1][1] - b.bids[1][1])) \div (b.asks[1][1] + b.bids[1][1]) :
     b \in {b \in p.book : /\ b.bids # <<>> /\ b.asks # <<>>
                           /\ b.asks[1][1] + b.bids[1][1] > 0}}

\* The quantity on offer in the best three levels.
Depth(levels) ==
  FoldSeq(LAMBDA level, sum : sum + level[2], 0,
          SubSeq(levels, 1, IF Len(levels) < 3 THEN Len(levels) ELSE 3))

\* In percent, where the code has a fraction of one.
BookImbalance(p) ==
  {(100 * (Depth(b.bids) - Depth(b.asks))) \div (Depth(b.bids) + Depth(b.asks)) :
     b \in {b \in p.book : Depth(b.bids) + Depth(b.asks) > 0}}

PositionSignal ==
  [PositionOpened |-> "open", PositionClosed |-> "close",
   PositionIncreased |-> "increase", PositionDecreased |-> "decrease"]

Position(p, signal) ==
  IF "action" \in DOMAIN p.fields /\ p.fields["action"] = Text(PositionSignal[signal])
  THEN {1} ELSE {}

\* The number of a computed feature, if the payload yields one.
Computed(p, feature) ==
  CASE feature = "price_return_1m_pct" -> PriceReturn(p)
    [] feature = "spread_bps" -> SpreadBps(p)
    [] feature = "book_imbalance_topN" -> BookImbalance(p)
    [] feature \in DOMAIN PositionSignal -> Position(p, feature)
    [] OTHER -> Direct(p, feature)

Feature ==
  DOMAIN Aliases \cup DOMAIN PositionSignal \cup {"spread_bps", "book_imbalance_topN"}

\* The computed features, and beside them every scalar field of the payload.
Features(p) ==
  LET computed == {f \in Feature : Computed(p, f) # {}}
  IN [f \in computed \cup DOMAIN p.fields |->
        IF f \in computed THEN Number(CHOOSE n \in Computed(p, f) : TRUE) ELSE p.fields[f]]

\* The tags, else the category, else the category tags.
EventTags(p) ==
  IF p.tags # {} THEN p.tags ELSE IF p.category # {} THEN p.category ELSE p.categoryTags

-----------------------------------------------------------------------------
(* Comparison of an observed scalar with a threshold. *)

AsFlag(x) ==
  CASE x.kind = "digits" /\ x.is \in {0, 1} -> Flag(x.is = 1)
    [] x.kind = "text" /\ x.is \in {"true", "yes", "on"} -> Flag(TRUE)
    [] x.kind = "text" /\ x.is \in {"false", "no", "off"} -> Flag(FALSE)
    [] OTHER -> x

AsText(x) ==
  CASE x.kind = "number" -> Digits(x.is)
    [] x.kind = "flag" -> Text(IF x.is = 1 THEN "True" ELSE "False")
    [] OTHER -> x

\* A number is read from a text, a Boolean from a word, if the threshold is one.
Normalized(x, threshold) ==
  CASE threshold.kind = "flag" -> AsFlag(x)
    [] threshold.kind = "number" /\ x.kind = "digits" -> Number(x.is)
    [] threshold.kind \in {"digits", "text"} -> AsText(x)
    [] OTHER -> x

IsNumeric(x) == x.kind \in {"number", "flag"}

\* Equality of Python: True is 1, a text is never a number.
Same(x, y) ==
  /\ (IsNumeric(x) /\ IsNumeric(y)) \/ x.kind = y.kind
  /\ x.is = y.is

\* A comparison of values that have no order, or of a list where none belongs, is an
\* error and counts as false, for not_in too.
Compare(op, x, threshold) ==
  LET ordered == IsNumeric(x) /\ IsNumeric(threshold)
      listed == \E y \in threshold.is : Same(x, y)
  IN CASE op = "gt"  -> ordered /\ x.is > threshold.is
       [] op = "gte" -> ordered /\ x.is >= threshold.is
       [] op = "lt"  -> ordered /\ x.is < threshold.is
       [] op = "lte" -> ordered /\ x.is <= threshold.is
       [] op = "eq"  -> Same(x, threshold)
       [] op = "ne"  -> ~Same(x, threshold)
       [] op = "in"  -> threshold.kind = "list" /\ listed
       [] op = "not_in" -> threshold.kind = "list" /\ ~listed
       [] op = "contains" -> /\ x.kind = "text" /\ threshold.kind = "text"
                             /\ <<threshold.is, x.is>> \in PartOf

-----------------------------------------------------------------------------
(* Expressions.  An expression is a sequence of nodes: a condition [op, signal,       *)
(* threshold] or a group [op, of] of earlier nodes; the last node is the root.        *)

IsGroup(node) == node.op \in {"AND", "OR", "NOT"}

\* A condition on a signal that is missing is false.
Holds(node, values) ==
  /\ node.signal \in DOMAIN values
  /\ Compare(node.op, Normalized(values[node.signal], node.threshold), node.threshold)

IsExpression(expression) ==
  /\ Len(expression) \in Nat \ {0} /\ DOMAIN expression = 1 .. Len(expression)
  /\ \A i \in DOMAIN expression :
       IsGroup(expression[i]) => expression[i].of \subseteq 1 .. i - 1

\* A node, given the truth of those before it.  An empty group is false; a NOT group has
\* one child.
NodeTruth(node, true, values) ==
  CASE node.op = "AND" -> node.of # {} /\ \A j \in node.of : true[j]
    [] node.op = "OR"  -> \E j \in node.of : true[j]
    [] node.op = "NOT" -> \A j \in node.of : ~true[j]
    [] OTHER -> Holds(node, values)

Truths(expression, values) ==
  LET true[i \in DOMAIN expression] == NodeTruth(expression[i], true, values) IN true

Truth(expression, values) == Truths(expression, values)[Len(expression)]

SignalsOf(expression) ==
  {expression[i].signal : i \in {i \in DOMAIN expression : ~IsGroup(expression[i])}}

\* An entry of suppress_if compares numbers only.
Activates(entry, values) ==
  \E x \in FloatAt(values, entry.signal) :
    Compare(entry.op, Number(x), Number(entry.threshold))

=============================================================================
