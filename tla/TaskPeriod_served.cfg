\* Is a periodic task served: while OS_TSK_SET_PERIODIC is set, is there a
\* live timer that signals the task, and does the first SIGALRM after an
\* OS_OK come at the date asked for?
CONSTANTS
  TW = 3
  TM_NOW = 0
  TPid = 1
  Dates = {0, 2, 5}
  Periods = {0, 1, 3}
  MaxTicks = 10
  MaxCalls = 2
  MaxWaits = 3
SPECIFICATION Spec
INVARIANT PeriodicServed
CHECK_DEADLOCK FALSE
