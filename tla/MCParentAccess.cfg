SPECIFICATION Spec
CONSTANTS
  Profiles = {parent, child}
  Parents = {parent}
  NoProfile = NoProfile
  Pins = {pin1, pin2}
  NoPin = NoPin
  NoGrant = NoGrant
  MaxUtc = 5
  DateOf <- MCDateOf
SYMMETRY PinSymmetry
INVARIANTS
  ParentActsOnlyWithGrant
  ExitIsAuthorized
PROPERTIES
  GrantsOnlyAge
