SPECIFICATION ServicesSpec
CHECK_DEADLOCK FALSE
CONSTANTS
  t1 = t1
  t2 = t2
  w1 = w1
  c1 = c1
  c2 = c2
  None = None
  Tasks = {t1, t2}
  Calls = {c1}
  Workers = {w1}
  Ids = {1, 2, 3, 4}
  MaxRetries = 1
  Batch = 1
  MaxEntries = 1
  JobEntries = 1
  MaxFaults = 2
  Clients = {c1, c2}
  MaxCount = 4
  Labels = {1, 2}
  NoLabel = 0
  MaxCategories = 2
  RequestIds = {1}
  NoRequest = 0
  MaxInterviews = 2
  Aliases = {1, 2}
  Builtin = 1
  Sessions = {1, 2}
  Tokens = {1}
  MaxPasswords = 1
  Streams = {1, 2}
  Bases = {1}
  MaxHistory = 2
  MaxRequests = 4
  Users = {1, 2}
  Global = 0
  Limit <- LimitOfUsers
  Interval = 3
  MaxDelay = 1
  MaxTime = 7
  Schedules = {1, 2}
  MaxHours = 3
  Processes = {1, 2, 3}
  Consumers = {1, 2}
  ReadBatch = 2
  Threads = 1
  MaxCalls = 3
  MaxFailures = 1
INVARIANTS
  PlanIsFull
  RepliesAgree
  ReferencesHold
  ChatsHold
  LimitsHold
  SchedulesHold
  ProcessHolds
PROPERTIES
  SessionsStayEnded
  RunsOneTask
  ServicesSettle
