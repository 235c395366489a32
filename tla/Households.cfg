SPECIFICATION Spec
CONSTANTS
  anna = anna
  ben = ben
  User = {anna, ben}
  Founder = anna
  Guest = ben
  Home = home
  None = none
  Request = {r1, r2, r3}
  Wanted <- MCWanted
  MaxInFlight = 3
SYMMETRY MCSymmetry
CHECK_DEADLOCK FALSE
INVARIANTS MembersWereInvited OneMembership RemovedStaysOut ClosedForGood AdminRemains
