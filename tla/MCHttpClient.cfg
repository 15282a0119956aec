SPECIFICATION Spec
CONSTANTS
  Requests = {"get", "download"}
  Streams = {"download"}
  Hosts = {"host"}
  HostOf <- MCHostOf
  Cost = 2
  Second = 3
  MaxAttempts = 2
  MaxWait = 4
  RetryAfters = {0, 2, 5}
  None = None
INVARIANTS
  RateBound
  
  RetryAfterHonored
PROPERTY RequestsEnd
