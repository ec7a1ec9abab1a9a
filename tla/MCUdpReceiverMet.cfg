SPECIFICATION Spec
CONSTANTS
  Thresholds = {0, 2}
  Forever = Forever
  Timeouts = {Forever, 0, 2}
  MaxTicks = 4
  MaxArrivals = 2
  MaxCalls = 2
  MaxOpens = 2
INVARIANT MetIsNotIdle
CHECK_DEADLOCK FALSE
