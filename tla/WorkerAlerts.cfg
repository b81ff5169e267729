\* One worker while the rules do not change.
SPECIFICATION Spec
CONSTANTS
  old = old
  new = new
  before = before
  after = after
  NoRules = NoRules
  RuleSet = {old, new}
  Alerts = {before, after}
  Knows <- KnownAlerts
  FirstRules = old
  FirstAlerts = before
  MaxChanges = 0
  MaxEvents = 1
PROPERTIES AlertsApplied
