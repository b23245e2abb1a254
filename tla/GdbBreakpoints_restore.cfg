\* As the safety run, but OsGdbArchRemoveSwBkpt may fail too.
CONSTANTS
  NSlots = 2
  Addr <- MCAddr
  NoBkptAddr <- MCNoBkpt
  WriteAddr <- MCWrite
  Values <- MCValues
  ArchFails <- MCAllFail
SPECIFICATION Spec
INVARIANT MemFaithful
