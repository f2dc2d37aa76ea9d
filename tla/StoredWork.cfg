CONSTANTS
  Hash = {"h1"}
  NoHash = "none"
  MaxRev = 2
  MaxTries = 2
  MaxTroubles = 2
  MaxThaws = 1
  MaxItems = 2
  Runner = {"r1", "r2"}
  MaxBlunders = 2
  Piece = {"w1", "w2"}
  MaxCopies = 3
  MaxMishaps = 4
  Caller = {"c1", "c2"}
  Ext = {"pdf"}
  Bytes = {"b1", "b2"}

SPECIFICATION PartSpec
INVARIANTS
  PartTypeOK
  LateJobsDoNoHarm
  GenerationIsCovered
  BatchesAreSound
  RestoreIsSafe
  CaptureIsSound
PROPERTIES
  GenerationEnds
  EndedRecordStays
  BatchEnds
  RecoveryEnds
  VerifiedIsKept
  AnswersAreTrue
CHECK_DEADLOCK FALSE
