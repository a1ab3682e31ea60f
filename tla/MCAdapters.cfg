SPECIFICATION FairSpec
CONSTANTS
  Clients <- MCClients
  Ttl = 2
  MaxWait = 1
INVARIANT ServedFresh
PROPERTY ReadsRecover
CHECK_DEADLOCK FALSE
