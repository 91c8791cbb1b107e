SPECIFICATION Spec
CONSTANTS
  StartupApps = {0, 1, 2, 3}
INVARIANTS
  HandoffRunsOnce
PROPERTIES
  StockNeedsAuthority
  HandoffIsDelivered
  IdleRouterOpensSprout
