SPECIFICATION FairSpec
CONSTANTS
  Sessions = {s1, s2}
  QueueSize = 2
  MaxBridges = 2
  MaxPackets = 3
  HandoverPackets = 2
INVARIANT TypeOK
INVARIANT HeldOrClosing
INVARIANT InOrder
PROPERTY SlotTakenOnlyAtHandover
PROPERTY ReleasedBridgeEnds
CHECK_DEADLOCK FALSE
