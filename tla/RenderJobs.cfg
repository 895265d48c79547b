SPECIFICATION Spec
CONSTANTS
  Families = {f1}
  Films = {x, y}
  Submits = {s1, s2}
  Workers = {w1, w2}
  MaxQueued = 1
  Rounds = 3
  MaxCrashes = 1
INVARIANTS
  QueueIsSound
  FilmsFollowJobs
PROPERTIES
  EndIsFinal
SYMMETRY Symmetry
CHECK_DEADLOCK FALSE
