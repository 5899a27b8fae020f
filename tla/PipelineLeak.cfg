SPECIFICATION Spec
CONSTANTS
  MaxQueue = 2
  MaxPackets = 2
INVARIANTS
  AllPacketsFreed
