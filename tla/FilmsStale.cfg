SPECIFICATION Spec
CONSTANTS
  Moments = {}
  Things = {2}
  Promised = {}
  Pictured = {}
  About = {1, 2}
  DayOf <- MCDayOf
  Since = 1
  Until = 2
  Length <- MCLength
  LeadIn = 7
  TailOut = 11
  SilentHold = 90
  OpeningHold = 60
  ClosingHold = 80
  MaxChanges = 0
  MaxJolts = 0
  Workers = {w1}
  Editions = {e1, e2}
  Scenes = {opening, kept}
  Looks <- MCLooks
  Sounds <- MCSounds
  Blank = Blank
  MaxRenders = 2
INVARIANT
  PicturesAreCurrent
CHECK_DEADLOCK FALSE
