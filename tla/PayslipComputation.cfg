SPECIFICATION Spec
CONSTANTS
  Days <- MCDays
  PeriodStart = 1
  PeriodEnd = 2
  RunCurrency = "usd"
  Possible <- MCPossible
  Configured <- MCConfigured
  Creatable <- MCCreatable
  Open = Open
  None = None
  MaxChanges = 1
  MaxSlips = 2
INVARIANT OneValueADay
PROPERTIES
  PaysWhatIsOwed
  Reproducible
CHECK_DEADLOCK FALSE
