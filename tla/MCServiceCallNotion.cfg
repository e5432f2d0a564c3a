SPECIFICATION MCSpec
CONSTANTS
  Aspect = {"delete"}
  FloorAspect = {"delete"}
  Unset = Unset
  Null = Null
  Invalid = Invalid
  NoFile = NoFile
  Malformed = Malformed
  NoConfig = NoConfig
  None = None
  Actions <- MCActions
  FloorOf <- MCFloorOf
  MaxAttempts = 3
  MaxItems = 7
  Limits = {1, 2, 3, 4, 5, 6}
  PageCap = 3
  Requests = {r1, r2}
  Limit = 2
  Window = 3
  MaxTries = 4
  Patience = 2
  Delay = {0, 1}
INVARIANT
  OnlyPermittedEffects
\* Where a call has returned and nothing of it is on its way, or a listing has
\* returned, nothing happens any more.
CHECK_DEADLOCK FALSE
