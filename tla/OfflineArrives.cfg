CONSTANTS
  Captures = {reel, voice, photo}
  Files = {voice, photo}
  Voice = {voice}
  Unacceptable = {photo}
  Drains = {d1}
  Requests = {r1, r2}
  Absent = Absent
  Nobody = Nobody
  Revocable = FALSE
  VaultMayFail = FALSE
  MaxFaults = 2
SPECIFICATION Spec
PROPERTIES CapturesArrive
