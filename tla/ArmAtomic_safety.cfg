\* Do the ldrex/strex loops make every call one indivisible, correct step,
\* and does every call return?  Two cores, two calls each; the run stops
\* when all calls have returned.
CONSTANTS
  W = 2
  Core = {c1, c2}
  Calls <- MCGoodCalls
  MaxCalls = 2
  MaxClears = 1
SPECIFICATION FairSpec
PROPERTY Linearizable
PROPERTY EveryCallReturns
CHECK_DEADLOCK FALSE
