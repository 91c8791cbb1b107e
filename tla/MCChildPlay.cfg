SPECIFICATION PlaySpec
CONSTANTS
  Profiles = {c1}
  Parent = parent
  NoGame = NoGame
  NoPlay = NoPlay
  Allowances = {2}
  DefaultAllowance = 2
  Warnings = {}
  RecoveryCap = 1
  CheckpointEvery = 1
  MaxUtc = 2
  MaxMono = 1
  DayLength = 2
  Zones = {0}
  Dates <- MCDates
  Calendar <- MCCalendar
INVARIANTS
  ChildrenAreMetered
  ActivityIsSettled
  OneChildPlays
PROPERTIES
  CutOffSessionBlocksPlay
  ReturnIsCharged
CHECK_DEADLOCK FALSE
