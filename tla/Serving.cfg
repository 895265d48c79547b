SPECIFICATION ServingSpec
CONSTANTS
  Requests = {r1, r2, r3}
  Imports = {r3}
  Seals = {q}
  Sparks = {1, 2, 3}
  Traits <- MCTraits
  Dates = {1450, 1465, 1600, 1846, 1855, 2300}
  MaxSuggestions = 1
  Threshold = 8100
  Horizon = 180
  MinDaysBeforeReturn = 7
  SnoozeCooldown = 30
  MaxLooks = 3
  People = {m1, m2, f}
  Founder = f
  Tokens = {t1, t2}
  Callers = {c1, c2}
  InviteDays = 1
  Year = 3
  AskDays = 1
  LeapBorn = FALSE
  Wishes = {a, b}
  LastDay = 7
  MaxSeals = 2
  MaxMessages = 3
  Askers = {a1, a2}
  SparkWords = {{1}, {1, 2}}
  Meanings <- MCMeanings
  English <- MCEnglish
  MaxTerms = 2
  MinEvidence = 2
  MaxWeight = 5
  MaxCorrections = 4
  Routes <- MCRoutes
  MaxRequests <- MCMaxRequests
  WindowSeconds = 2
  LastTick = 7
INVARIANTS
  ServingTypeOK
  NothingLeftOpen
  AloneIsAtomic
  LostOnlyToOthers
  PromisesInMemory
  LimitsAreFair
  WordsAreTheirs
PROPERTY ReadyIsOffered
CHECK_DEADLOCK FALSE
