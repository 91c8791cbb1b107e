SPECIFICATION Spec
CONSTANTS
  Launchers = {launcher}
  Launcher = launcher
  RecoveryThreshold = 3
  MaxAttempt = 24
  LastStep = 2
  MaxRevision = 5
  Absent = Absent
  Corrupt = Corrupt
  NotWriting = NotWriting
  SeedProfiles = 2
  MaxFaults = 4
  MaxExits = 1
INVARIANTS
  RecoveryAfterThreshold
  WizardIsNeverStale
PROPERTIES
  DamageDoesNotSpread
  AlwaysUsableAgain
CHECK_DEADLOCK FALSE
