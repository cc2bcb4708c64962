CONSTANTS
  PayloadLen = 2
  Rooms = {1, 3}
SPECIFICATION Spec
INVARIANT ReadsTheMessage
CHECK_DEADLOCK FALSE
