SPECIFICATION Spec
CONSTANTS
  ana = ana
  mia = mia
  Nobody = Nobody
  NoRow = NoRow
  Employees = {ana, mia}
  Manager <- MCManager
  RequestIds = {r1, r2}
  BalanceIds = {b1, b2}
  Days <- MCDays
  YearOf <- MCYearOf
  ClientStatuses = {"cancelled"}
  MaxAllocation = 2
SYMMETRY Alike
INVARIANTS
  LedgerInv
  NoDoubleBooking
  OnlyApprovalServiceApproves
PROPERTIES
  DecisionsAreFinal
  ApprovalsAreCharged
CHECK_DEADLOCK FALSE
