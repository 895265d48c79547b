SPECIFICATION Spec
CONSTANTS
  Families = {f1}
  Films = {x}
  Submits = {s1}
  Workers = {w1, w2}
  MaxQueued = 1
  Rounds = 2
  MaxCrashes = 2
PROPERTIES
  JobsSettle
CHECK_DEADLOCK FALSE
