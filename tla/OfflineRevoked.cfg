CONSTANTS
  Captures = {reel}
  Files = {}
  Voice = {}
  Unacceptable = {}
  Drains = {d1}
  Requests = {r1, r2}
  Absent = Absent
  Nobody = Nobody
  Revocable = TRUE
  VaultMayFail = FALSE
  MaxFaults = 1
SYMMETRY Symmetry
SPECIFICATION Spec
INVARIANTS TheQueueStays
