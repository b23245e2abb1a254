\* One session, three cores initialising in any order, m and Z0 packets at
\* the ends of the regions and H packets: does the host touch only what it
\* may, memory the regions grant and online cores?
CONSTANTS
  Core = {0, 1, 2}
  Primary = 0
  MaxCoreNum = 2
  AW = 4
  OsStart = 2
  OsEnd = 14
  TextStart = 4
  TextEnd = 10
  DataStart = 10
  DataEnd = 12
  InstrSize = 2
  Packets <- MCHostPackets
  MaxSessions = 1
SPECIFICATION Spec
INVARIANT HostAccessSafe
CHECK_DEADLOCK FALSE
