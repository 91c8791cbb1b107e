SPECIFICATION Spec
CONSTANTS
  Profiles = {c1}
  Allowances = {1, 3}
  Warnings = {1, 2}
  RecoveryCap = 2
  CheckpointEvery = 2
  MaxUtc = 4
  MaxMono = 3
  DayLength = 4
  Zones <- MCZones
  Dates <- MCDates
  Calendar <- MCCalendar
  NoPlay = NoPlay
INVARIANTS
  WarnedAtMostOnce
PROPERTIES
  DaysAreNotReplayed
  PlayIsAccountedFor
  NeverOvercharged
  ImplementsBudget
CHECK_DEADLOCK FALSE
