\* Two alerts on pages of two, and their cards.
SPECIFICATION Spec
CONSTANTS
  a1 = a1
  a2 = a2
  r1 = r1
  r2 = r2
  balanced = balanced
  none = none
  filters = filters
  Absent = Absent
  Alert = {a1, a2}
  Rule = {r1, r2}
  Preset = {balanced}
  Filters = {none, filters}
  NoFilters = none
  Cooldown = {60}
  CustomCooldown = 180
  PageSize = 2
  MaxLost = 1
  Catalogs <- MCCatalogs
  PresetCooldown <- MCPresetCooldown
  Fits <- MCFits
PROPERTY
  CardActsOnShown
CHECK_DEADLOCK FALSE
