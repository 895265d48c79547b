CONSTANTS
  Captures = {reel, voice, photo}
  Files = {voice, photo}
  Voice = {voice}
  Unacceptable = {photo}
  Drains = {d1, d2}
  Requests = {r1, r2}
  Absent = Absent
  Nobody = Nobody
  Revocable = TRUE
  VaultMayFail = TRUE
  MaxFaults = 1
SYMMETRY Symmetry
SPECIFICATION Spec
INVARIANTS NothingLost PhoneIsSound OnceUnlessRaced
