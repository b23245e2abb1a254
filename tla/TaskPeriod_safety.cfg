\* Can PRT_TaskWaitPeriod tell its task of more periods than have passed,
\* whatever the tick, a reprogramming task on T's or another core, and the
\* read and clear of overrun interleave?  The clock stops after MaxTicks
\* ticks and the waiting task may then block for ever, so the run does not
\* check for deadlock.
CONSTANTS
  TW = 3
  TM_NOW = 0
  TPid = 1
  Dates = {0, 2, 5}
  Periods = {0, 1, 3}
  MaxTicks = 8
  MaxCalls = 2
  MaxWaits = 3
SPECIFICATION Spec
INVARIANT NoPhantomPeriods
CHECK_DEADLOCK FALSE
