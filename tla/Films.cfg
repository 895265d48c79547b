SPECIFICATION Spec
CONSTANTS
  Moments = {1}
  Things = {2}
  Promised = {1}
  Pictured = {1}
  About = {1, 2}
  DayOf <- MCDayOf
  Since = 1
  Until = 2
  Length <- MCLength
  LeadIn = 7
  TailOut = 11
  SilentHold = 90
  OpeningHold = 60
  ClosingHold = 80
  MaxChanges = 1
  MaxJolts = 1
  Workers = {w1, w2}
  Editions = {e1, e2}
  Scenes = {opening, kept}
  Looks <- MCLooks
  Sounds <- MCSounds
  Blank = Blank
  MaxRenders = 3
INVARIANTS
  NothingUnfounded
  VoicesAreHeard
  FolderIsSound
  FilmShowsItsOwn
SYMMETRY Symmetry
CHECK_DEADLOCK FALSE
