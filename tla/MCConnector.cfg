SPECIFICATION FairSpec
CONSTANTS
  Call = {c1, c2}
  Action <- MCAction
  Unknown = Unknown
  ActionClass <- MCActionClass
  DefaultRules <- MCDefaultRules
  UserFiles <- MCUserFiles
  RepoFiles <- MCRepoFiles
  Aspect = {"delete", "bulk"}
  FloorAspect = {"delete"}
  Unset = Unset
  Null = Null
  Invalid = Invalid
  NoFile = NoFile
  Malformed = Malformed
  NoConfig = NoConfig
  None = None
INVARIANTS
  HandlerIsPermitted
  AdminNeverRuns
  NoSecretBeforeApproval
  AuditTellsOutcome
  LoadersRunOnce
PROPERTIES
  FailedLoadIsFinal
  EveryCallIsAnswered
\* Once every call has been answered and reported on, nothing is left to do.
CHECK_DEADLOCK FALSE
