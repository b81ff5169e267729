\* One worker through two changes of the rules.
SPECIFICATION Spec
CONSTANTS
  old = old
  new = new
  before = before
  after = after
  NoRules = NoRules
  RuleSet = {old, new}
  Alerts = {before, after}
  Knows <- KnownAlerts
  FirstRules = old
  FirstAlerts = before
  MaxChanges = 2
  MaxEvents = 2
INVARIANTS
  TypeOK
  OneConfigPerBatch
  ChangesAccounted
PROPERTIES
  ReloadApplies
  ShutdownCompletes
