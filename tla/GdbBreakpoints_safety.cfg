\* Two slots, three usable addresses, OsGdbArchSetSwBkpt may fail but
\* OsGdbArchRemoveSwBkpt does not.
CONSTANTS
  NSlots = 2
  Addr <- MCAddr
  NoBkptAddr <- MCNoBkpt
  WriteAddr <- MCWrite
  Values <- MCValues
  ArchFails <- MCSetFails
SPECIFICATION Spec
INVARIANTS TypeOK AtMostOneLive MemFaithful
