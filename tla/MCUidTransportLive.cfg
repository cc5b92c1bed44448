SPECIFICATION FairSpec
CONSTANTS
  InN = 2
  OutN = 1
  QueueCap = 1
  RecvLimit = 2
  SendLimit = 1
  AckSpan = 2
PROPERTIES ImplementsByteStream TrafficSettles
CHECK_DEADLOCK FALSE
