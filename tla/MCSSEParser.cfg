CONSTANTS
  MaxBytes = 3
  MaxBlock = 5
  MaxAhead = 2
  Lines <- MCLines
  Cursors = {"7:1"}
SPECIFICATION Spec
INVARIANTS
  DecodesBlocks
CHECK_DEADLOCK FALSE
