CONSTANTS
  batch = batch
  create = create
  wait = wait
  heartbeat = heartbeat
  Batch = batch
  Calls <- MCCalls
  Polls <- MCPolls
  Posts <- MCPosts
  Closer = Closer
  NoCaller = NoCaller
  Groups <- MCGroups
  Sizes <- MCSizes
  Limit = 2
  MaxPuts = 2
SPECIFICATION FairSpec
INVARIANTS
  SessionsAccounted
  HandsOutConnected
  ErrorsTranslated
  ReportsDocuments
  WholeAndOnce
  QuietWhenOver
PROPERTIES
  CallsEnd
CHECK_DEADLOCK FALSE
