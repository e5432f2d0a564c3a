CONSTANTS
  c1 = c1
  c2 = c2
  c3 = c3
  None = None
  Call <- Calls2
  Engines <- AllEngines
SPECIFICATION Spec
SYMMETRY Symmetry
INVARIANTS
  TypeOK
  IdleSessionsAreClean
  AllOrNothing
  ReadsLeaveNoTrace
  PoolsAreReachable
CHECK_DEADLOCK FALSE
