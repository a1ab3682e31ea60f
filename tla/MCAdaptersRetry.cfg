SPECIFICATION FairSpec
CONSTANTS
  Clients <- MCClients
  Ttl = 1
  MaxWait = 1
PROPERTY RetryReaches
CHECK_DEADLOCK FALSE
