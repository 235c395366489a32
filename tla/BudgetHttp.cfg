SPECIFICATION Spec
CONSTANTS
  Handler = {h1}
  Category = {food}
  MaxMonth = 2
  Amount = {8}
  Limit = {8, 10}
  Tx = {t1, t2}
  MaxLog = 2
  FaultKinds = {"crash"}
  MaxFaults = 1
  MaxOps = 2
  MaxGen = 2
  IntMax = 1000
  Income = Income
  Absent = Absent
  Message <- MCMessage
CHECK_DEADLOCK FALSE
INVARIANTS  FlaggedAlertWasSent
