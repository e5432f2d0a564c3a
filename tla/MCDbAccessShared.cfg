SPECIFICATION Spec
CONSTANTS
  Call = {c1, c2, c3}
  Server = {"a b", "a_b", "c"}
  File = {"a_b.json", "c.json"}
  GrantFile <- MCGrantFile
  Inputs <- MCInputs
  Elsewhere <- MCElsewhere
  None = None
SYMMETRY Calls
INVARIANT
  GrantsAreNotShared
\* Once every call has returned, only the grants go on changing.
CHECK_DEADLOCK FALSE
