SPECIFICATION FairSpec
CONSTANTS
  s1 = s1
  s2 = s2
  c1 = c1
  c2 = c2
  r1 = r1
  r2 = r2
  a1 = a1
  a2 = a2
  None = None
  Scheduler = scheduler
  Sessions = {s1}
  Calls = {c1,c2}
  Requests = {r1}
  Answers = {a1}
  NMains = 1
  MaxFollowUps = 0
  MaxFaults = 1
  CallKinds = {"submit", "complete"}
PROPERTY EvaluationsGetQueued
