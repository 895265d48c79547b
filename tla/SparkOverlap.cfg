CONSTANTS
  Sparks = {s1, s2}
  NoRow = NoRow
  MaxSuggestions = 1
  Workers = {w1, w2}
  Serialised = FALSE
  Spoken = {}
  MinDaysBeforeReturn = 1
  SnoozeCooldown = 1
  MaxDay = 2
SYMMETRY Symmetry
SPECIFICATION Spec
INVARIANTS QuietBeforeReturning AnswersFollowOffers
PROPERTIES ErasureTakesTheMoment
CHECK_DEADLOCK FALSE
