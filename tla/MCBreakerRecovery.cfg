CONSTANTS
  c1 = c1
  c2 = c2
  c3 = c3
  c4 = c4
  Calls <- MCCalls
  Failures = 3
  Recovery = 3
SPECIFICATION RecoverySpec
PROPERTIES
  Recovers
