SPECIFICATION FairSpec
CONSTANTS
  Streams = {s1}
  Watchers = {w1}
  Talkers = {}
  Callers = {}
  Drainers = {d1}
  LowPower = TRUE
  MaxDials = 2
PROPERTY StreamRecovers
PROPERTY LoopsEnd
PROPERTY ImplementsOrderedNotify
CHECK_DEADLOCK FALSE
