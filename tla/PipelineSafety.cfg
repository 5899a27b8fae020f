SPECIFICATION Spec
CONSTANTS
  MaxQueue = 2
  MaxPackets = 3
INVARIANTS
  TypeOK
  QueueBound
  NeverTakesFromEmpty
  SleeperHasNoWork
  OwnedOnce
  InFileOrder
  CleanupIsAlone
PROPERTIES
  FlowSpec
