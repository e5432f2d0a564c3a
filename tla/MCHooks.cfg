SPECIFICATION MCSpec
CONSTANTS
  Session = {s1, s2}
  Branch = {"a", "main"}
  Protected = {"main"}
  Push = {"push", "push full"}
  Ref = {"a", "main", "refs/heads/main"}
  Named <- MCNamed
  Target <- MCTarget
  PendingTTL = 1
  Idle = 2
  MaxAge = 3
  Sweep = 3
  MaxClock = 3
  MaxCalls = 4
  None = None
  Plugin = {p1, p2}
  Hook = {h1, h2}
  MaxVersion = 2
  Nothing = Nothing
SYMMETRY Sessions
INVARIANTS
  
  FirstAskHappens
  ProtectedIsAsked
  BootstrapTypeOK
  ServedStaysServed
  BrokenIsRetried
\* Once the bounds on time and calls are reached, or where no start finds
\* anything to do, nothing happens any more.
CHECK_DEADLOCK FALSE
