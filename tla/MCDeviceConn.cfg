SPECIFICATION Spec
CONSTANTS
  Streams = {s1}
  Watchers = {}
  Talkers = {t1}
  Callers = {c1}
  Drainers = {d1, d2}
  LowPower = TRUE
  MaxDials = 2
SYMMETRY DrainerSymmetry
INVARIANT TypeOK
INVARIANT NoLeak
INVARIANT StatesInOrder
INVARIANT StateMatchesClient
PROPERTY ResetsOwnFailure
PROPERTY NoReconnectAfterStop
