SPECIFICATION Spec
CONSTANTS
  s1 = s1
  s2 = s2
  c1 = c1
  c2 = c2
  r1 = r1
  r2 = r2
  a1 = a1
  a2 = a2
  None = None
  Scheduler = scheduler
  Sessions = {s1}
  Calls = {c1}
  Requests = {r1,r2}
  Answers = {a1}
  NMains = 2
  MaxFollowUps = 1
  MaxFaults = 2
  CallKinds = {"submit", "complete", "delete"}
SYMMETRY Symmetry
INVARIANTS
  OpenTurnIsCurrent
  CachedTurnsAreDecided
PROPERTIES
  WalksThePath
