SPECIFICATION Spec
CONSTANTS
  Listeners = {l1, l2}
  Posts = {p1}
  Types = {person}
  Alarms <- SmallAlarms
  Handlers = {"motion", "doorbell", "connection"}
  Early = {"motion", "doorbell"}
  MaxInputs = 3
INVARIANT TypeOK
INVARIANT EdgesToldOnce
INVARIANT SettlesUnlessRaced
INVARIANT WebhookStateShown
INVARIANT SleepEndsEvents
CHECK_DEADLOCK FALSE
