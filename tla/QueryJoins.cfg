CONSTANTS
  N = 2
  MaxRuns = 1
  NULL = NULL
  End = End
  Plans <- OneJoin
SPECIFICATION Spec
INVARIANT
  JoinAnswersEveryPair
CHECK_DEADLOCK FALSE
