SPECIFICATION GatewayFairSpec
CONSTANTS
  anna = anna
  ben = ben
  n1 = n1
  n2 = n2
  User = {anna, ben}
  Tab = {t1, t2}
  Owner <- MCOwner
  Notification = {n1, n2}
  Addressee <- MCAddressee
  None = none
  MaxRestarts = 1
CHECK_DEADLOCK FALSE
INVARIANT RegisteredAndOpen
 
