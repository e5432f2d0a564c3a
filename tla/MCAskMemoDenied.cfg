SPECIFICATION Spec
CONSTANTS
  Session = {s1, s2}
  Branch = {"a", "main"}
  Protected = {"main"}
  Push = {"push"}
  Ref = {"a", "main", "refs/heads/main"}
  Named <- MCNamed
  Target <- MCTarget
  PendingTTL = 1
  Idle = 2
  MaxAge = 3
  Sweep = 3
  MaxClock = 3
  MaxCalls = 4
  None = None
SYMMETRY Sessions
INVARIANT
  GrantIsForApprovedScope
\* Once the bounds on time and calls are reached nothing is left to do.
CHECK_DEADLOCK FALSE
