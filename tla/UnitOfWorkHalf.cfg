CONSTANTS
  Requests = {r1, r2}
  Imports = {}
  Seals = {}
SPECIFICATION Spec
INVARIANTS NeverHalfWritten
CHECK_DEADLOCK FALSE
