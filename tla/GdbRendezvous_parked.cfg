\* Two cores: can a core run while the host is being served?
CONSTANTS
  Core <- MCCore2
  FirstCore = 0
  LateCores = {}
  NoCore = NoCore
SPECIFICATION Spec
CHECK_DEADLOCK FALSE
INVARIANT AllParked
