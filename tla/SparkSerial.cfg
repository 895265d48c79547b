CONSTANTS
  Sparks = {s1, s2}
  NoRow = NoRow
  MaxSuggestions = 1
  Workers = {w1}
  Serialised = TRUE
  Spoken = {"override"}
  MinDaysBeforeReturn = 1
  SnoozeCooldown = 2
  MaxDay = 3
SYMMETRY Symmetry
SPECIFICATION Spec
INVARIANTS LivedIffMoment
PROPERTIES KeepsItsPromise
CHECK_DEADLOCK FALSE
