SPECIFICATION Spec
CONSTANTS
  MaxChunk = 1
  MaxAudio = 3
  MaxPts = 3
  Tol = 1
  Unset = {0, 1, 2}
INVARIANTS
  FrameWaitsForAudio
