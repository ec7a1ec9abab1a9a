SPECIFICATION Spec
CONSTANTS
  Threads = {t1, t2}
  Daemons = {t2}
  Handles = {1, 2}
  MaxCalls = 2
  Views = 2
INVARIANT OneThreadInTheHandle
CHECK_DEADLOCK FALSE
