CONSTANTS
  Piece = {"w1", "w2"}
  MaxCopies = 3
  MaxMishaps = 4

SPECIFICATION RestoreSpec
INVARIANTS RollbackIsResumed
