SPECIFICATION FairSpec
CONSTANTS
  Callers = {c1}
  MaxPingFailures = 3
PROPERTY FirstReasonKept
PROPERTY DeadLinkReleases
PROPERTY CloseEndsAll
