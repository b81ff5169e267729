\* Two workers on one Redis, with two versions of the rules: races for trigger keys and
\* watches, late events, and what the prefilter and the filters let through.
SPECIFICATION Spec
CONSTANTS
  w1 = w1
  w2 = w2
  m1 = m1
  a1 = a1
  a2 = a2
  a3 = a3
  a4 = a4
  r1 = r1
  r2 = r2
  r3 = r3
  PartOf <- Texts
  Payload <- Payloads
  Market = {m1}
  Rule = {r1, r2, r3}
  Worker = {w1, w2}
  Alert = {a1, a2, a3, a4}
  Content = {"created", "deep", "garbled", "move", "flipped"}
  Catalog <- Shared
  Bucket = 2
  Margin = 1
  MaxDelay = 1
  MaxAhead = 0
  MaxTime = 3
  MaxEvents = 3
  MaxReloads = 0
  MaxCrashes = 1
SYMMETRY Workers
INVARIANTS
  TypeOK
  TriggerSpacing
  OneDecisionPerTrigger
  FiredStaysFired
  EveryMatchIsTried
  FiltersOnlyNarrow
CHECK_DEADLOCK FALSE
