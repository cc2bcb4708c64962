CONSTANTS
  Server = receiver
  Client = sender
  InfoLen = 2
  AfterExchange = "sync"
  NumMsgs = 3
  NumRecvBufs = 2
  Lossy = TRUE
SPECIFICATION ProgramSpec
INVARIANTS BuffersConserved NoSilentLoss NothingTorn
PROPERTIES NothingOverwritten WaitsOnlyForMissed
CHECK_DEADLOCK FALSE
