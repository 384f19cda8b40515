\* The callback, or anybody while it runs, may start the timer again.
CONSTANTS
  Delays = {0, 1, 2}
  MaxStarts = 2
  LateStarts = {"callback"}
  Deletes = FALSE
SPECIFICATION TimerFairSpec
PROPERTY StartFires
CHECK_DEADLOCK FALSE
