SPECIFICATION FairSpec
CONSTANTS
  Sessions = {s1}
  AudioKinds = {"aac8", "pcma"}
  Hints = {"none", "aac"}
  IdleDisconnect = TRUE
  PauseOnClient = TRUE
INVARIANTS TypeOK GetsWhatWasOffered
PROPERTIES LateAudioCarried InterestDecides
CHECK_DEADLOCK FALSE
