SPECIFICATION ConcurrentSpec
CONSTANTS
  ana = ana
  mia = mia
  Nobody = Nobody
  NoRow = NoRow
  Employees = {ana, mia}
  Manager <- MCManager
  RequestIds = {r1, r2}
  BalanceIds = {b1}
  Days <- MCDays
  YearOf <- MCTwoYears
  ClientStatuses = {"cancelled"}
  MaxAllocation = 1
  Workers = {w1}
  Operations <- AllOperations
PROPERTY LedgerSpec
CHECK_DEADLOCK FALSE
