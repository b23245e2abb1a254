\* Three cores (primary 0), MAX_CORE_NUM 2, three sessions, every command.
CONSTANTS
  Core = {0, 1, 2}
  Primary = 0
  MaxCoreNum = 2
  AW = 4
  OsStart = 2
  OsEnd = 14
  TextStart = 4
  TextEnd = 10
  DataStart = 10
  DataEnd = 12
  InstrSize = 2
  Packets <- MCSafetyPackets
  MaxSessions = 3
SPECIFICATION Spec
INVARIANTS TypeOK SelectedCoreKnown
PROPERTIES SsFlgOwnStep
CHECK_DEADLOCK FALSE
