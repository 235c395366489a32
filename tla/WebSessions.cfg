SPECIFICATION FairSpec
CONSTANTS
  laptop = laptop
  phone = phone
  shell = shell
  other = other
  q1 = q1
  q2 = q2
  q3 = q3
  Call <- MCCall
  Browser <- MCBrowser
  Bundle <- MCBundle
  Home <- HomeApart
  Req <- MCReq
  BundleOf <- MCOwner
  LogoutReq <- MCLogout
  NoToken = NoToken
  MaxToken = 6
  Deleting <- MCDeleting
  MaxLogins = 1
  MaxExpiries = 1
  MaxFaults = 1
  FaultKinds = {"crash", "lost", "expiry"}
CHECK_DEADLOCK FALSE
INVARIANTS DeletedUserHasNoToken SessionKept LogoutEndsSession
PROPERTY QueuedRequestsServed
