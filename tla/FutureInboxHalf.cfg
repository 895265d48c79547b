SPECIFICATION Spec
CONSTANTS
  Families = {f1, f2}
  Numbers = {1}
  Texts = {a, b}
  Nothing = Nothing
  Saves = {s1, s2}
  Erasures = {}
  Others = {}
  MaxFailures = 1
  MaxCrashes = 0
INVARIANT NoHalfSeal
SYMMETRY Symmetry
CHECK_DEADLOCK FALSE
