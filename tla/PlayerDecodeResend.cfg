SPECIFICATION PlayerSpec
CONSTANTS
  MaxPacketUnits = 2
  MaxDelay = 1
  MaxDrainingErrors = 1
  MaxFed = 4
  EmptyPackets = FALSE
INVARIANTS
  RefusedIsResent
CHECK_DEADLOCK FALSE
