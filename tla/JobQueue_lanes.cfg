CONSTANTS
  a = a
  b = b
  t1 = t1
  t2 = t2
  s = s
  c = c
  d = d
  t3 = t3
  Job = {a, b, c, d}
  NoJob = NoJob
  Worker = {t1, t2, t3}
  Lane = {"ai", "source", "kpi_ingest"}
  GatedLane = "kpi_ingest"
  Source = {s}
  NoSource = NoSource
  Free = Free
  OnDemand = OnDemand
  LaneOf <- ThreeLanes
  MaxAttempts <- LaneBudgets
  Followup = {}
  SourceOf <- LanePairOnSource
  OnDemandSource = {}
  ManualSource = {s}
  Recorded = {a, b}
  Attention = {c}
  KeptFinished = {1}
  MaxRuns = 2
  MaxFaults = 1
  MaxPanics = 1
  MaxCrashes = 1

SPECIFICATION LanesSpec
PROPERTIES EveryJobSettles
CHECK_DEADLOCK FALSE
