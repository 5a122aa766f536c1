CONSTANTS
  a = a
  b = b
  admin = admin
  Clock = Clock
  Closer = Closer
  ActorGroups <- MCActorGroups
  NoUser = NoUser
  Users <- MCUsers
  Admins <- MCAdmins
  Ttls <- MCTtls
  Second = 2
  JitterPercent = 50
  MaxClock = 5
  MaxJobs = 1
  MaxRetries = 1
SPECIFICATION FairSpec
INVARIANTS
  FreshHits
  RunsOnceWhileFresh
  ResultKept
  NothingLeftBehind
PROPERTIES
  CallsAndCleanupEnd
CHECK_DEADLOCK FALSE
