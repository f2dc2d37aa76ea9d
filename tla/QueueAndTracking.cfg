CONSTANTS
  a = a
  b = b
  t1 = t1
  t2 = t2
  s = s
  Job = {a, b}
  NoJob = NoJob
  Worker = {t1, t2}
  Lane = {"ai", "source", "kpi_ingest"}
  GatedLane = "kpi_ingest"
  Source = {s}
  NoSource = NoSource
  Free = Free
  OnDemand = OnDemand
  LaneOf <- OneLane
  MaxAttempts <- Budgets21
  Followup <- Pair
  SourceOf <- NoSources
  OnDemandSource = {}
  ManualSource = {}
  Recorded = {a}
  Attention = {a, b}
  KeptFinished = {1}
  MaxRuns = 2
  MaxFaults = 2
  MaxPanics = 1
  MaxCrashes = 1

  Awaiter = {"w1", "w2"}
  MaxWork = 2
  MaxLapses = 2
  Adapter = {"feed", "registry"}
  Registry = {"registry"}
  Default <- Intervals
  Jitter <- Jitters
  Polls = {0, 1, 4}
  Day = 3
  MaxGap = 2
  MaxTickFaults = 2
  MaxMissed = 2
  McpPort = {8317, 8318}
  PoolSize = 2
  StalledCap = 3
  MaxTokens = 3
  MaxOutages = 2
  Figure = {1, 2, 4}
  MaxFacts = 2
  MaxCuts = 1

SPECIFICATION PartSpec
INVARIANTS
  PartTypeOK
  OwnershipIsSound
  RetryBudget
  EntriesAreExact
  ViewIsFaithful
  DueTimesAreKept
  ServerMatchesSettings
  SlotIsSound
PROPERTIES
  ImplementsContract
  ManualIsKept
SYMMETRY Threads
CHECK_DEADLOCK FALSE
