SPECIFICATION FairSpec
CONSTANTS
  MaxChunk = 2
  MaxAudio = 4
  MaxPts = 4
  Tol = 1
  Unset = {0, 1, 2}
INVARIANTS
  TypeOK
  EveryByteCounted
  ClockLagsOneChunk
  FrameHasItsAudio
PROPERTIES
  CoveredFrameIsShown
  QuitEndsDecoding
  ImplementsFrameClock
