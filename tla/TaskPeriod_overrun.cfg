\* Is every expiry signalled to the task taken, reported, held or
\* discarded on purpose, when the timer may run on another core than the
\* task that reads and clears its overrun count?
CONSTANTS
  TW = 3
  TM_NOW = 0
  TPid = 1
  Dates = {0, 2, 5}
  Periods = {0, 1, 3}
  MaxTicks = 8
  MaxCalls = 2
  MaxWaits = 3
SPECIFICATION Spec
INVARIANT OverrunAccounted
CHECK_DEADLOCK FALSE
