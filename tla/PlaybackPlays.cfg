SPECIFICATION FairSpec
CONSTANTS
  MaxQueue = 2
  Tol = 1
  MaxPackets = 4
  MaxPts = 3
  MaxSound = 4
INVARIANTS TypeOK EndsOnlyIfInterleaved EndDropsOnlyTail
PROPERTIES PlaysThrough StallsOtherwise
