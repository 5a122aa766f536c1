CONSTANTS
  first = first
  second = second
  later = later
  idA = idA
  idB = idB
  a = a
  b = b
  c = c
  Uses <- TwoUses
  Registered <- OneUse
  Ids = {idA, idB}
  CallId <- IdsOfTurn
  Turn <- MCTurn
  Deadline <- MCDeadline
  Tools <- MCTools
  Runner = Runner
  NoUse = NoUse
  NoEntry = NoEntry
  MaxTools = 1
  Margin = 1
  MaxSkew = 0
  Graceful = TRUE
  MaxTime = 2
  MaxRecord = 2
SPECIFICATION FairSpec
PROPERTIES
  ToolTasksEnd
CHECK_DEADLOCK FALSE
