SPECIFICATION Spec
CONSTANTS
  anna = anna
  ben = ben
  User = {anna, ben}
  None = none
  Handler = {h1, h2}
  Message <- MCMessage
  MaxLog = 2
  FaultKinds = {"crash", "channel", "throw"}
  MaxFaults = 1
SYMMETRY MCSymmetry
CHECK_DEADLOCK FALSE
INVARIANTS ToldOncePerDelivery ErasedForGood
