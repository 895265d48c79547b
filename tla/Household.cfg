SPECIFICATION HouseSpec
CONSTANTS
  Requests = {r1, r2}
  Families = {f1, f2}
  Devices = {d1, d2, d3}
  Codes = {c1}
  Media = {m1, m2}
  ContentOf <- MCContentOf
  None = None
  MaxAttempts = 1
  CodeTtl = 1
  MaxNow = 2
  MaxRequests = 4
  MaxFaults = 1
INVARIANTS
  HouseTypeOK
  RevokedStaysOut
  DoorsCloseBehind
  CorrectionStands
  NothingOutlivesTheFamily
SYMMETRY Symmetry
CHECK_DEADLOCK FALSE
