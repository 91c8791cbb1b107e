SPECIFICATION Spec
CONSTANTS
  MinSide = 2
  MaxSide = 4
  Canvas = 4
  MaxSounds = 1
  MaxSoundBytes = 1
  MaxMips = 2
  MaxFrameTicks = 2
  MaxDuration = 3
  MaxTile = 2
  Unit = 3
  Limits <- MCLimits
  Packages <- MCPackages
  MaximumDrawCommands = 4
  MinText = 2
  MaxInt = 7
  Places <- MCPlaces
  Shapes <- MCShapes
  Origins <- MCOrigins
  Radii = {0, 1}
  Scales = {2}
  Phases = {0, 1, 3}
  TileRows <- MCRows
  Columns = {0, 2}
  Skips <- MCSkips
  MaxColumns = 3
  MaxTick = 1
INVARIANTS
  NothingOutside
  TilesFillTheirMap
PROPERTY
  FramesAreFaithful
CHECK_DEADLOCK FALSE
