SPECIFICATION Spec
CONSTANTS
  Keys = {"level", "score"}
  Values = {1}
  Loadable = 1
  Damaged = Damaged
  SoundLimit = 1
  Tick = 2
  MaxSteps = 2
  FullHold = 2
  MaxSessions = 2
  MaxTime = 8
  MaxEmitted = 2
INVARIANTS
  EventsTellTheSession
  TicksKeepTime
  StorageSurvives
PROPERTY
  ResetIsDeliberate
CHECK_DEADLOCK FALSE
