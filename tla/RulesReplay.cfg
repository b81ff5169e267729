\* A market_created delivered again after the watch fired.
SPECIFICATION Spec
CONSTANTS
  w1 = w1
  w2 = w2
  m1 = m1
  a1 = a1
  a2 = a2
  a3 = a3
  a4 = a4
  r1 = r1
  r2 = r2
  r3 = r3
  PartOf <- Texts
  Payload <- Payloads
  Market = {m1}
  Rule = {r1, r2, r3}
  Worker = {w1}
  Alert = {a1}
  Content = {"created", "deep"}
  Catalog <- OnlyListing
  Bucket = 1
  Margin = 0
  MaxDelay = 0
  MaxAhead = 0
  MaxTime = 3
  MaxEvents = 4
  MaxReloads = 0
  MaxCrashes = 0
INVARIANT SingleFire
CHECK_DEADLOCK FALSE
