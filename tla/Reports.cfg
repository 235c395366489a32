SPECIFICATION Spec
CONSTANTS
  Handler = {h1, h2}
  Cat = {food}
  Category <- MCAccount
  MaxMonth = 2
  MonthsPerYear = 12
  Amount = {4}
  Tx = {t1, t2}
  MaxLog = 2
  FaultKinds = {"crash", "channel"}
  MaxFaults = 1
  IntMax = 8
  Income = Income
  Absent = Absent
  Message <- MCMessage
CHECK_DEADLOCK FALSE
INVARIANTS NeverUnderreported ReportsExact 
PROPERTIES LateOnlyWhenReordered CommitsSerialize
SYMMETRY ReportSymmetry
