SPECIFICATION Spec
CHECK_DEADLOCK FALSE
CONSTANTS
  NConns = 2
  Ids = {1, 2}
  NQuestions = 2
INVARIANT RetriesAreAnswered
