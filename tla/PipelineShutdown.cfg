SPECIFICATION FairSpec
CONSTANTS
  MaxQueue = 1
  MaxPackets = 2
PROPERTIES
  ShutdownCompletes
