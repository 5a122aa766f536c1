CONSTANTS
  first = first
  second = second
  later = later
  idA = idA
  idB = idB
  a = a
  b = b
  c = c
  Uses <- AllUses
  Registered <- AllUses
  Ids = {idA, idB}
  CallId <- IdsOfTurn
  Turn <- MCTurn
  Deadline <- MCDeadline
  Tools <- MCTools
  Runner = Runner
  NoUse = NoUse
  NoEntry = NoEntry
  MaxTools = 1
  Margin = 2
  MaxSkew = 1
  Graceful = FALSE
  MaxTime = 2
  MaxRecord = 2
SPECIFICATION Spec
SYMMETRY ToolSymmetry
INVARIANTS
  RunsOnce
  AnswersOwn
  CleanupLeavesNothing
CHECK_DEADLOCK FALSE
