SPECIFICATION HandlersSpec
\* Everything stops once the rows are deleted.
CHECK_DEADLOCK FALSE
CONSTANTS
  w1 = w1
  c1 = c1
  c2 = c2
  x1 = x1
  None = None
  Tasks = {x1}
  Calls = {c1, c2}
  VectorCalls = {c1}
  Workers = {w1}
  Ids = {1, 2, 3, 4, 5}
  MaxRetries = 1
  Batch = 2
  MaxEntries = 1
  MaxFaults = 2
  VectorFaults = 3
  Keys = {1, 2}
  Jobs = {1, 2, 3, 4, 5}
  NParts = 1
  AppCrashes = FALSE
INVARIANTS
  RunningIsOwed
  ResumesHold
  CompletedHasReport
  FinishedIsNotRedone
PROPERTIES
  HandlersSettle
