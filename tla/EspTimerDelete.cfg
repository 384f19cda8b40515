\* The timer is deleted at any time outside its own callback.
CONSTANTS
  Delays = {0, 1}
  MaxStarts = 1
  LateStarts = {}
  Deletes = TRUE
SPECIFICATION TimerFairSpec
PROPERTY DeleteReturns
CHECK_DEADLOCK FALSE
