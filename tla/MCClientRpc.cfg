SPECIFICATION Spec
CONSTANTS
  Callers = {c1, c2, c3}
  Modulus = 3
  MaxLate = 2
  None = None
INVARIANT TypeOK
INVARIANT AnswersOwn
INVARIANT AnswerReachesWaiter
INVARIANT NoStalePending
CHECK_DEADLOCK FALSE
