SPECIFICATION GatherSpec
CONSTANTS
  Steps = 3
  Concurrency = 2
  Enabled = 2
  Answers <- AnswersOfThree
  None = None
INVARIANTS
  ParentExitSparesNone
  EnvelopeIsWhole
  ResultsAreTheirSteps
PROPERTIES
  ImplementsStepResults
  EveryCallReturns
\* When every step is answered and every child has died nothing is left to do.
CHECK_DEADLOCK FALSE
