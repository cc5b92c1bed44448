SPECIFICATION Spec
CONSTANTS
  InN = 3
  OutN = 2
  QueueCap = 1
  RecvLimit = 1
  SendLimit = 0
  AckSpan = 2
INVARIANTS InOrder WindowsKept
CHECK_DEADLOCK FALSE
