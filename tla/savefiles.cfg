SPECIFICATION FairSpec
CONSTANTS
  Options <- SomeOptions
  Sizes = {1, 2}
  MaxPackets = 3
  MaxTime = 4
  MaxSignals = 1
INVARIANTS SavedInOrder
PROPERTIES SignalsServed
CHECK_DEADLOCK FALSE
