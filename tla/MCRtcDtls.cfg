SPECIFICATION FairSpec
CONSTANTS
  Capacity = 2
  StartResults <- BothResults
  Faults <- PeerFaults
  Traffic <- PeerTraffic
INVARIANTS
  QueueDrained
  PeerUpMeansKeys
PROPERTIES
  SessionSteps
  NoWriteAfterClose
  HandshakeCompletes
CHECK_DEADLOCK FALSE
