\* Losses that leave at least one chunk of every message, and a repair timeout
\* longer than any delay: repair brings every frame through.
SPECIFICATION FairSpec
CONSTANTS
  ChunkSize = 1
  MaxChunks = 4
  MaxInFlight = 3
  MaxAttempts = 2
  Frames <- WideFrames
  MaxFrames = 2
  MaxLost = 2
  MaxDup = 0
  KeepsOne = TRUE
  Patient = TRUE
  MayClose = FALSE
CHECK_DEADLOCK FALSE
INVARIANT BudgetSuffices
PROPERTY EventuallyDelivered
