SPECIFICATION FairSpec
CONSTANTS
  anna = anna
  home = home
  Handler = {h1, h2}
  User = {anna}
  Household = {home}
  None = None
  Pool = 2
  Exporter = anna
  Home = home
  Export = {x1}
  Message <- MCMessage
  MaxLog = 2
  FaultKinds = {"crash", "channel", "throw"}
  MaxFaults = 2
CHECK_DEADLOCK FALSE
INVARIANTS LoggedOnce ErasureHolds DeliveredIsTraceable
PROPERTY EventuallyLogged
