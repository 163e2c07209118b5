SPECIFICATION Spec
CONSTANTS
  Requests = {r1, r2}
  TicksPerSecond = 2
  AccessSeconds = 2
  RefreshSeconds = 3
  MaxTick = 10
INVARIANTS TypeOK
PROPERTIES LogoutHolds RefreshWindowExact KeyReachesExp
CHECK_DEADLOCK FALSE
