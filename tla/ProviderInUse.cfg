SPECIFICATION Spec
CHECK_DEADLOCK FALSE
CONSTANTS
  Aliases = {p1, p2}
  Builtin = p1
  Calls = {c1, c2}
  None = None
INVARIANTS
  TasksKeepTheirProvider
