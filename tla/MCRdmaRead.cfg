CONSTANTS
  PayloadLen = 2
  Rooms = {1, 3}
SPECIFICATION FairSpec
INVARIANTS WrongOnlyByRace MemoryOutlivesRead
PROPERTIES ClientEnds
CHECK_DEADLOCK FALSE
