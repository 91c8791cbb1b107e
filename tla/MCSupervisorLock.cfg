SPECIFICATION LockSpec
CONSTANTS
  Launchers = {1, 2, 3}
  RecoveryThreshold = 2
  MaxAttempt = 5
INVARIANTS
  EvidenceIsExact
  OneSupervisorUntilReclaimed
PROPERTIES
  OnlyTheNewestClears
CHECK_DEADLOCK FALSE
