SPECIFICATION FairSpec
CONSTANTS
  NoRow = NoRow
  Employees = {e1, e2}
  RunIds = {r1}
  PayslipIds = {p1, p2, p3}
  DeductionIds = {d1}
  Workers = {w1}
  Operations <- AllOperations
  MaxPosted = 1
  MaxCrashes = 1
  MaxChanges = 1
INVARIANTS
  BatchInv
PROPERTIES
  KeepsPromise
  WholeResults
  RerunRecovers
