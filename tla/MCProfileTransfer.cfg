SPECIFICATION Spec
CONSTANTS
  Settings = {"last_accessed", "accent_rgb"}
  MaxRevision <- MCMaxRevision
  MaxExports = 1
  MaxCuts = 1
  Staged <- MCStaged
  SideLimit = 4
  CropSteps = 1
  ZoomLimit = 5
  Card <- MCCard
INVARIANTS
  ProfilesAreComplete
  OneChangeUnblocks
  ExportsCanBeRepeated
  CropReadsThePicture
PROPERTIES
  FailedRestoreChangesNothing
