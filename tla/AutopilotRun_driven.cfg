CONSTANTS
  Actor = {"t1", "t2"}
  Trigger = {"c1"}
  Fact = {"f1", "f2"}
  Middle = {}
  StageTries = 1
  MaxSlips = 1

SPECIFICATION FocusSpec
INVARIANTS
  AutoTypeOK
  PipelineIsSound
PROPERTIES RunEnds
CHECK_DEADLOCK FALSE
