CONSTANTS
  a = a
  b = b
  d = d
  t1 = t1
  t2 = t2
  s = s
  Job = {a, b, d}
  NoJob = NoJob
  Worker = {t1, t2}
  Lane = {"ai", "source", "kpi_ingest"}
  GatedLane = "kpi_ingest"
  Source = {s}
  NoSource = NoSource
  Free = Free
  OnDemand = OnDemand
  LaneOf <- OneLane
  MaxAttempts <- Budgets12
  Followup = {}
  SourceOf <- PairOnSource
  OnDemandSource = {s}
  ManualSource = {}
  Recorded = {d}
  Attention = {a, b}
  KeptFinished = {1, 4}
  MaxRuns = 3
  MaxFaults = 3
  MaxPanics = 2
  MaxCrashes = 2

SPECIFICATION PartsSpec
INVARIANTS
  SourceLockIsSound
  FailureEventsAreExact
  LedgerIsTrue
  HandlerIsBounded
PROPERTIES OutcomeIsFinal
SYMMETRY Threads
CHECK_DEADLOCK FALSE
