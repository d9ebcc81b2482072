SPECIFICATION Spec
CONSTANTS
  Requests = {r1, r2}
  Sessions = {s1, s2}
  ResetLinks = {p1, p2}
  RenewAfter = 1
  IdleTtl = 2
  AbsoluteTtl = 3
  ResetTtl = 1
  BatchSize = 1
  MaxBatches = 2
  MaxNow = 3
  None = None
  Visitors = {r1, r2}
  VerifyLinks = {v1, v2, v3}
  VerifyTtl = 1
  LastDay = 2
  Callers = {r1, r2}
  Codes = {c1, c2, c3}
  Parents = {mum, dad, other}
  Strangers = {other}
  NoOne = NoOne
  Attempts = {r1, r2}
  Replicas = {i1, i2}
  Limit = 1
  Window = 1
  LastTick = 1
  MaxCount = 2
  Never = Never
  Turns = {r1, r2, t3}
  DailyLimit = 1
  Known = {"k", "l"}
  Other = {"x"}
  MaxId = 2
  MaxPieces = 3
  Texts <- PieceTexts
  Deliveries = {r1, r2}
  DaysPerWeek = 1
  Horizon = 1
  MaxPractice = 2
  MaxRuns = 2
  MaxEvicted = 1
  Nil = Nil
  Clients = {r1, r2}
  BufferSize = 2
  MaxObserved = 4
  HoursPerDay = 4
  StepsPerHour = 2
  MaxSearchHours = 8
  Concepts = {p, q, r}
  Chapters = {1, 2, 3}
  Chunks = {1, 2, 3}
  Passages = {"a", "b"}
  RRF_K = 60
  CandidateLimit = 2
  Scale = 3782
  TopN = 2
  Thresholds = {0, 123}
  Importers = {r1, r2}
  Questions = {1, 2, 3}
  ShareTop = 1
  ShareOf = 3
  MinForReserve = 2
  MaxImports = 3
  MaxSittings = 2
  Workers = {r1, r2}
  MetricWindow = 2
  StaleAfter = 2
  Cooldown = 2
  MaxEvents = 1
  LastMinute = 2
  Lookups = {r1, r2}
  Guardians = {mum, other}
  Outsiders = {other}
  Topics = {1, 2}
  Mixups = {11}
  Scores = {5, 7}
  Flagged = {2, 11}
  ImprovementPoints = 1
  StrugglingScore = 6
  MaxEarlier = 1
  MaxWeek = 2
  MaxDuring = 1
SYMMETRY Symmetry
INVARIANTS AccountsInv VerificationInv FamilyInv LimiterInv TutorInv FilterInv
           ShutdownInv DigestInv ServerInv QuietInv GraphInv RetrievalInv
           CorpusInv AlertInv AccessInv ReportInv
PROPERTIES ResetsSpendTheirLinks CodesAndConsentLast
CHECK_DEADLOCK FALSE
