SPECIFICATION FairSpec
CONSTANTS
  Handler = {h1}
  Category = {food, rent}
  MaxMonth = 1
  Amount = {8}
  Limit = {8}
  Tx = {t1, t2}
  MaxLog = 3
  FaultKinds = {"crash", "channel"}
  MaxFaults = 1
  MaxOps = 0
  MaxGen = 1
  IntMax = 1000
  Income = Income
  Absent = Absent
  Message <- MCMessage
CHECK_DEADLOCK FALSE
  
PROPERTIES  ImplementsOrderedLedger
