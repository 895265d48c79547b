SPECIFICATION UpkeepSpec
CONSTANTS
  First = a
  Second = e2
  Media = {a, b}
  Writers = {s1, s2}
  Old = Old
  New = New
  MaxWrites = 2
  MaxMishaps = 1
  Runners = {s1, s2}
  Latest = 3
  MaxKills = 2
  MaxBacks = 1
  Ledgers = {l1}
  Films = {x}
  Paths = {s1, s2}
  Versions = {1, 2}
  MaxKeys = 3
  MaxStops = 1
  Messages = {l1}
  Words = {a, b}
  Child = Child
  Parent = Parent
  Born <- MCBorn
  Days <- MCDays
  Stories = {a, b}
  Exports = {e1, e2}
  TellWired = FALSE
  MaxChanges = 3
INVARIANTS
  UpkeepTypeOK
  BytesBehindRows
  RestoredIsWhole
  SchemaIsWhole
  ReceiptsStayProvable
  LettersOpenAsPromised
  ExportHoldsTogether
SYMMETRY Symmetry
CHECK_DEADLOCK FALSE
