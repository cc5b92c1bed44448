SPECIFICATION ClockSpec
CONSTANTS
  Word = 16
  RtpWord = 32
  Second = 4
  VideoRate = 2
  AudioRate = 4
  Trusted = 2
  Fallback = 1
  Jump = 2
  MaxLag = 2
  Samples = 1
  Epoch = 125
  MaxSkew = 1
  MaxSlips = 1
  Hiccups <- HiccupSizes
  Gaps = {4}
  Delays = {0, 3}
  MaxTime = 6
  FirstStamps = {14}
INVARIANTS ClockTypeOK TracksTogether
PROPERTIES TimestampsRise
CHECK_DEADLOCK FALSE
