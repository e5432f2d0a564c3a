SPECIFICATION FairSpec
CONSTANTS
  Steps = 1
  Concurrency = 1
  None = None
PROPERTY
  HungChildIsKilled
\* When every step is answered and every child has died nothing is left to do.
CHECK_DEADLOCK FALSE
