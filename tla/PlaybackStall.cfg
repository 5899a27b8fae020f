SPECIFICATION FairSpec
CONSTANTS
  MaxQueue = 2
  Tol = 1
  MaxPackets = 3
  MaxPts = 2
  MaxSound = 2
PROPERTY FullQueueDrains
