\* One worker retrying a message of which the provider could not say it was accepted.
SPECIFICATION Spec
CONSTANTS
  d1 = d1
  d2 = d2
  w1 = w1
  w2 = w2
  k1 = k1
  k2 = k2
  s1 = s1
  u1 = u1
  a1 = a1
  a2 = a2
  telegram = telegram
  email = email
  chat = chat
  inbox = inbox
  NoDestination = NoDestination
  Worker = {w1}
  Dispatch = {d1}
  WorkerOf <- OneWorker
  ExecuteSends <- OneLive
  TriggerKey = {k1}
  Scope = {s1}
  ScopeOf <- SameScope
  User = {u1}
  Alert = {a1, a2}
  UserOf <- OneUser
  Channel = {telegram}
  ChannelsOf <- TelegramOnly
  CooldownOf <- NoCooldown
  Registered = {telegram}
  Destination = {chat, inbox}
  Bindings <- FullBindings
  MaxAttempts = 2
  IdempotencyTTL = 1
  MuteSeconds = {1}
  Capacity = 2
  WarningPct = 50
  CriticalPct = 90
  RecoveryWindow = 2
  MaxTime = 0
  MaxDispatches = 1
  MaxFaults = 0
INVARIANT NoDuplicateMessage
CHECK_DEADLOCK FALSE
