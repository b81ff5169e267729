\* Two workers whose bindings change: suppression windows, and events that are timestamped
\* ahead of the wall clock.
SPECIFICATION Spec
CONSTANTS
  w1 = w1
  w2 = w2
  m1 = m1
  a1 = a1
  a2 = a2
  a3 = a3
  a4 = a4
  r1 = r1
  r2 = r2
  r3 = r3
  PartOf <- Texts
  Payload <- Payloads
  Market = {m1}
  Rule = {r1, r2, r3}
  Worker = {w1, w2}
  Alert = {a2}
  Content = {"move", "rush"}
  Catalog <- Windowed
  Bucket = 1
  Margin = 2
  MaxDelay = 0
  MaxAhead = 2
  MaxTime = 2
  MaxEvents = 3
  MaxReloads = 1
  MaxCrashes = 0
SYMMETRY Workers
INVARIANTS
  WindowsHold
  OneDecisionPerTrigger
CHECK_DEADLOCK FALSE
