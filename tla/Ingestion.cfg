\* Three events through a window of one id, which a replay gets past; two faults of the
\* stream; a Gamma back-off that reaches its cap.
SPECIFICATION Spec
CONSTANTS
  e1 = e1
  e2 = e2
  Event = {e1, e2}
  MaxSeen = 1
  PingInterval = 1
  PongTimeout = 2
  ReceiveTimeout = 1
  Reconnect = 1
  PollInterval = {1, 2}
  FirstBackoff = 1
  BackoffMax = 3
  MaxGiven = 3
  MaxFaults = 1
INVARIANTS
  TypeOK
  SilenceBounded
  GammaPace
PROPERTIES
  WindowExact
  Resubscribes
  StopEnds
CHECK_DEADLOCK FALSE
