CONSTANTS
  a = a
  b = b
  t1 = t1
  t2 = t2
  s = s
  Job = {a, b}
  NoJob = NoJob
  Worker = {t1}
  Lane = {"ai", "source", "kpi_ingest"}
  GatedLane = "kpi_ingest"
  Source = {s}
  NoSource = NoSource
  Free = Free
  OnDemand = OnDemand
  LaneOf <- OneLane
  MaxAttempts <- Budgets21
  Followup = {}
  SourceOf <- NoSources
  OnDemandSource = {}
  ManualSource = {}
  Recorded = {}
  Attention = {a}
  KeptFinished = {1}
  MaxRuns = 1
  MaxFaults = 0
  MaxPanics = 0
  MaxCrashes = 1

SPECIFICATION Spec
INVARIANTS TerminalFailureIsVisible
