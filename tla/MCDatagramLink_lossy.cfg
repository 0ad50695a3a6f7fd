\* Loss, repetition and reordering, a frame that is too large, a window smaller
\* than the number of frames, and a sender that may close at any time.
SPECIFICATION Spec
CONSTANTS
  ChunkSize = 2
  MaxChunks = 2
  MaxInFlight = 2
  MaxAttempts = 1
  Frames <- MixedFrames
  MaxFrames = 3
  MaxLost = 1
  MaxDup = 1
  KeepsOne = FALSE
  Patient = FALSE
  MayClose = TRUE
CHECK_DEADLOCK FALSE
INVARIANTS FramesInOrder RetiredIsWhole
