SPECIFICATION Spec
CONSTANTS
  Bills = {b1}
  Relays = {r1, r2}
  People = {p1}
  Nobody = Nobody
  MaxAttempts = 2
  MaxLosses = 0
  LeasesHold = TRUE
CHECK_DEADLOCK FALSE
PROPERTIES CancelledStays
