SPECIFICATION Spec
CONSTANTS
  Handler = {h1, h2}
  Category = {food}
  MaxMonth = 1
  Amount = {8}
  Limit = {8, 10}
  Tx = {t1, t2}
  MaxLog = 3
  FaultKinds = {"crash", "channel", "throw"}
  MaxFaults = 1
  MaxOps = 0
  MaxGen = 1
  IntMax = 20
  Income = Income
  Absent = Absent
  Message <- MCMessage
CHECK_DEADLOCK FALSE
SYMMETRY HandlerSymmetry
INVARIANT NoCrossingMissed
PROPERTY ImplementsLedger
