SPECIFICATION MCSpec
\* Everything stops once the knowledge bases are deleted.
CHECK_DEADLOCK FALSE
CONSTANTS
  k1 = k1
  w1 = w1
  w2 = w2
  c1 = c1
  None = None
  Tasks = {k1}
  Calls = {c1}
  Workers = {w1, w2}
  Ids = {1, 2, 3, 4}
  Jobs = {1, 2, 3}
  NParts = 2
  AppCrashes = TRUE
  MaxRetries = 0
  Batch = 1
  MaxEntries = 1
  MaxFaults = 2
  Names = {1}
  QuestionTexts <- OneText
  MaxQuestions = 3
  MaxTasks = 2
  MaxAnswer = 2
  Bases = {1, 2}
  StoredVectors = {1, 2}
  TopK = 1
  Probe = 2
  MaxReply = 3
  MaxRuns = 3
  MaxAppends = 1
  Askers = {1, 2}
  Urls = {1}
  ApiKeys = {1, 2}
  Versioned = {}
  MaxVersion = 2
  MaxListed = 1
  Limit = 1
  Providers = {1, 2}
  Builtin = 1
  Edits = {1, 2}
  Elsewhere = {"split", "speech", "structured", "report", "proxy", "parse", "skills"}
  MaxContent = 5
  ChunkSize = 3
  MinChunkSize = 0
  MinLength = 1
  MaxChunks = 2
  BatchSize = 2
  MaxText = 3
  Permits = 2
  NConns = 2
  MaxAttempts = 2
  NMains = 2
  MaxFollowUps = 1
  Scores = {50, 81}
  NLabels = 2
  MaxGroups = 2
  MaxTurns = 1
  MaxPoints = 3
  MaxKept = 1
  Requests = {1, 2}
  MaxCount = 2
  MaxSets = 1
  MaxMessages = 1
  MaxDates = 2
  MaxTotal = 5
  MaxCategories = 3
  Header = 2
  Marker = 1
  MaxSection = 11
  MaxSingle = 4
SYMMETRY Symmetry
INVARIANTS
  CompletedIsSearchable
  BankHolds
  AnswersHold
  RecognitionHolds
  ExchangesHold
  KeysHold
  TextsHold
PROPERTIES
  ReplacedAtOnce
