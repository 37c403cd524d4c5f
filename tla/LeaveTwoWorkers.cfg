SPECIFICATION FairSpec
CONSTANTS
  ana = ana
  mia = mia
  Nobody = Nobody
  NoRow = NoRow
  Employees = {ana, mia}
  Manager <- MCManager
  RequestIds = {r1}
  BalanceIds = {b1}
  Days <- MCDays
  YearOf <- MCOneYear
  ClientStatuses = {}
  MaxAllocation = 1
  Workers = {w1, w2}
  Operations <- AllOperations
INVARIANT ConcurrentInv
PROPERTIES
  EveryCallEnds
  OnlyMovedDatesHarm
