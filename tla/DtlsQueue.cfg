SPECIFICATION Spec
CONSTANTS
  Capacity = 2
  StartResults <- BothResults
  Faults <- PeerFaults
  Traffic <- PeerTraffic
PROPERTY
  NothingQueuedAfterEnd
CHECK_DEADLOCK FALSE
