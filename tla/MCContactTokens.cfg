SPECIFICATION FairSpec
CONSTANTS
  r1 = r1
  r2 = r2
  Requests <- MCRequests
  Callers = {"contact", "other"}
  ReissueAfter = 4
  RetryDelay = 2
  WriteTimeout = 1
  Backoff = 1
  MaxAttempts = 2
  MaxFaults = 3
PROPERTIES NeverReplacedInFlight HeldTokensBind ContactIsBound
