SPECIFICATION Spec
CONSTANTS
  Sessions = {s1}
  AudioKinds = {"aac", "pcma"}
  Hints = {"none", "aac"}
  IdleDisconnect = FALSE
  PauseOnClient = FALSE
INVARIANTS CorrectsItself
CHECK_DEADLOCK FALSE
