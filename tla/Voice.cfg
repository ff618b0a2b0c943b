SPECIFICATION VoiceSpec
CHECK_DEADLOCK FALSE
CONSTANTS
  c1 = c1
  c2 = c2
  Calls = {c1, c2}
  Cleanup = cleanup
  None = None
  MaxFaults = 1
  NConns = 2
  Ids = {1, 2}
  NQuestions = 1
INVARIANTS
  EndsInterview
  SubmittedTextIsSent
  TurnRecordedOnce
PROPERTIES
  SessionsEnd
  SubmitsAreServed
