\* One alert, two catalogs, filters that fit one of two rules.
SPECIFICATION Spec
CONSTANTS
  a1 = a1
  a2 = a2
  r1 = r1
  r2 = r2
  balanced = balanced
  none = none
  filters = filters
  Absent = Absent
  Alert = {a1}
  Rule = {r1, r2}
  Preset = {balanced}
  Filters = {none, filters}
  NoFilters = none
  Cooldown = {60}
  CustomCooldown = 180
  PageSize = 1
  MaxLost = 1
  Catalogs <- MCCatalogs
  PresetCooldown <- MCPresetCooldown
  Fits <- MCFits
INVARIANTS
  TypeOK
  DraftSound
  PreviewHonest
  OneAlertPerDraft
PROPERTIES
  TextGoesWhereAsked
CHECK_DEADLOCK FALSE
