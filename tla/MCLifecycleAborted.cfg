CONSTANTS
  Starters = {explicit}
  AutoStart = auto
  Server = explicit
  NoOne = NoOne
  NoManifest = NoManifest
  MaxManifest = 0
  MaxAuth = 2
  MaxFailures = 3
  Failures = {"other"}
  MaxBeats = 3
SPECIFICATION Spec
INVARIANTS
  CloseCompletes
CHECK_DEADLOCK FALSE
