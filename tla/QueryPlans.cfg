CONSTANTS
  N = 2
  MaxRuns = 2
  NULL = NULL
  End = End
  Plans <- TestPlans
SPECIFICATION Spec
INVARIANTS
  IndexMapsProjections
  JoinAnswers
CHECK_DEADLOCK FALSE
