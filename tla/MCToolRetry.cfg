CONSTANTS
  s1 = s1
  s2 = s2
  a1 = a1
  Calls <- MCCalls
  Sync <- MCSync
  Deadline <- MCDeadline
  Timeout = 1
  Retries = 1
  Backoff = 1
  MaxTools = 1
  MaxTime = 10
SPECIFICATION FairSpec
INVARIANTS
  ElapsedBounded
PROPERTIES
  StartsWhileAwaited
  CallsEnd
CHECK_DEADLOCK FALSE
