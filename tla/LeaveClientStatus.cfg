SPECIFICATION Spec
CONSTANTS
  ana = ana
  mia = mia
  Nobody = Nobody
  NoRow = NoRow
  Employees = {ana, mia}
  Manager <- MCManager
  RequestIds = {r1, r2}
  BalanceIds = {b1, b2}
  Days <- MCDays
  YearOf <- MCYearOf
  ClientStatuses = {"approved"}
  MaxAllocation = 2
INVARIANT OnlyApprovalServiceApproves
