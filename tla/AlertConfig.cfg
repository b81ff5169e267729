\* Two requests and one worker around one alert and one binding.
SPECIFICATION Spec
CONSTANTS
  c1 = c1
  c2 = c2
  l1 = l1
  l2 = l2
  a1 = a1
  Client = {c1, c2}
  Loader = {l1}
  Alert = {a1}
  TTL = 1
  MaxDelay = 1
  MaxTime = 3
  MaxWrites = 3
  MaxFaults = 1
CONSTRAINT FewBindingWrites
SYMMETRY Interchangeable
INVARIANTS
  TypeOK
  StalenessBounded
  InvalidationReaches
PROPERTIES
  NoLostUpdate
  ImplementsService
CHECK_DEADLOCK FALSE
