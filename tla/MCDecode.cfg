SPECIFICATION MCSpec
CONSTANTS
  MaxPacketUnits = 3
  MaxDelay = 2
  MaxDrainingErrors = 1
  MaxFed = 4
  EmptyPackets = TRUE
INVARIANTS
  TypeOK
  ReceiveEagainMeansRoom
  EofMeansDrained
  UnitsAccounted
  FramesInOrder
  NothingLeftBehind
  OnlySplitRefuses
PROPERTIES
  ImplementsFrameQueue
  EofIsFinal
  RefusedForGood
  PacketsEnd
  DrainEnds
CHECK_DEADLOCK FALSE
