CONSTANTS
  Starters = {auto, explicit}
  AutoStart = auto
  Server = explicit
  NoOne = NoOne
  NoManifest = NoManifest
  MaxManifest = 1
  MaxAuth = 2
  MaxFailures = 3
  Failures = {"auth", "other"}
  MaxBeats = 4
SPECIFICATION FairSpec
INVARIANTS
  BeatsReferenceKnown
  GivesUpOnStreak
  RegistrationRemembered
  ClosedIsQuiet
  StartsOnce
PROPERTIES
  CloseSettles
CHECK_DEADLOCK FALSE
