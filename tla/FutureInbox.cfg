SPECIFICATION Spec
CONSTANTS
  Families = {f1, f2}
  Numbers = {1}
  Texts = {a, b}
  Nothing = Nothing
  Saves = {s1, s2}
  Erasures = {e1}
  Others = {o1}
  MaxFailures = 2
  MaxCrashes = 2
INVARIANTS
  AcknowledgedLetterStays
  StoreIsSound
PROPERTIES
  StartsClean
SYMMETRY Symmetry
CHECK_DEADLOCK FALSE
