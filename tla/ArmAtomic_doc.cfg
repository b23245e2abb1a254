\* Do PRT_AtomicFetchAndAdd*, PRT_AtomicCompareAndStore32 and
\* PRT_AtomicOr/And keep the promise of their doc comments?
CONSTANTS
  W = 2
  Core = {c1, c2}
  Calls <- MCDocCalls
  MaxCalls = 1
  MaxClears = 0
SPECIFICATION Spec
PROPERTY Linearizable
CHECK_DEADLOCK FALSE
