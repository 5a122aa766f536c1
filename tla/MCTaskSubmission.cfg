CONSTANTS
  c1 = c1
  c2 = c2
  Calls <- MCCalls
  TaskIds <- MCCalls
  TaskId <- MCTaskId
  Children = {c2}
  NoCall = NoCall
  Occurring = {"completed", "error_retryable", "error_final", "stopped", "connection", "connection_final", "outage", "other_error", "cancelled"}
  Failures = 1
  Recovery = 1
  MaxTime = 2
SPECIFICATION SdkSpec
INVARIANTS
  AttemptsHaveRunners
  CleanupReachesRunners
PROPERTIES
  CancellationIsNeutral
  SubmissionsSettle
  ImplementsPromise
CHECK_DEADLOCK FALSE
