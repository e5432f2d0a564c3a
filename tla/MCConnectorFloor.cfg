SPECIFICATION Spec
CONSTANTS
  Call = {c1, c2}
  Action <- MCAction
  Unknown = Unknown
  ActionClass <- MCActionClass
  DefaultRules <- MCDefaultRules
  UserFiles <- MCUserFiles
  RepoFiles <- MCRepoFiles
  Aspect = {"delete", "bulk"}
  FloorAspect = {"delete"}
  Unset = Unset
  Null = Null
  Invalid = Invalid
  NoFile = NoFile
  Malformed = Malformed
  NoConfig = NoConfig
  None = None
INVARIANT
  FloorAspectNeverRuns
CHECK_DEADLOCK FALSE
