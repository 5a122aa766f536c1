CONSTANTS
  c1 = c1
  c2 = c2
  model = model
  child = child
  metrics = metrics
  cached = cached
  stop = stop
  Start = 0
  Last = 4
  MaxAttempts = 3
  MaxInFlight = 1
  Deltas = {1, 3}
  Resets = {2}
  Consumers <- MCConsumers
  ModelCallers <- MCModelCallers
  NextCallers <- MCNextCallers
  MetricsCallers <- MCMetricsCallers
  StopCallers <- MCStopCallers
  UserGroups <- MCUserGroups
SPECIFICATION FairSpecResponse
INVARIANTS
  ExactlyOnceInOrder
  ConsumersSeeAll
  CancelledTakesOne
  MetricsReported
PROPERTIES
  NoRepublishAfterAccept
  ImplementsDelivery
  EverybodySettles
CHECK_DEADLOCK FALSE
