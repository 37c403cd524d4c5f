SPECIFICATION HistorySpec
CONSTANTS
  Employees = {ana, mia}
  Types = {meal}
  Currencies = {usd}
  Ids = {c1, c2, c3}
  Days <- MCDays
  Open = Open
  None = None
  Workers = {w1}
SYMMETRY Alike
INVARIANTS
  HistoryInv
  Unambiguous
  ConflictsComeFromCorrections
PROPERTY OnlyCorrectionsReplace
CHECK_DEADLOCK FALSE
