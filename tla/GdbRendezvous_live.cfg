\* Two cores under the fairness of FairSpec: does every entry return?
CONSTANTS
  Core <- MCCore2
  FirstCore = 0
  LateCores = {}
  NoCore = NoCore
SPECIFICATION FairSpec
CHECK_DEADLOCK FALSE
PROPERTY EveryEntryReturns
