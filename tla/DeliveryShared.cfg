\* A live and a dry-run worker on one Redis: replays, key expiry, crashes.
SPECIFICATION Spec
CONSTANTS
  d1 = d1
  d2 = d2
  w1 = w1
  w2 = w2
  k1 = k1
  k2 = k2
  s1 = s1
  u1 = u1
  a1 = a1
  a2 = a2
  telegram = telegram
  email = email
  chat = chat
  inbox = inbox
  NoDestination = NoDestination
  Worker = {w1, w2}
  Dispatch = {d1, d2}
  WorkerOf <- OnePerWorker
  ExecuteSends <- LiveAndDry
  TriggerKey = {k1, k2}
  Scope = {s1}
  ScopeOf <- SameScope
  User = {u1}
  Alert = {a1, a2}
  UserOf <- OneUser
  Channel = {telegram}
  ChannelsOf <- TelegramOnly
  CooldownOf <- Cooldowns
  Registered = {telegram}
  Destination = {chat}
  Bindings <- FullBindings
  MaxAttempts = 1
  IdempotencyTTL = 2
  MuteSeconds = {}
  Capacity = 1
  WarningPct = 50
  CriticalPct = 90
  RecoveryWindow = 2
  MaxTime = 2
  MaxDispatches = 3
  MaxFaults = 1
INVARIANTS
  TypeOK
  ClaimSpacing
  CooldownSpacing
  AuditPrecedesDelivery
CHECK_DEADLOCK FALSE
