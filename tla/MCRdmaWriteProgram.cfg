CONSTANTS
  Server = server
  Client = client
  None = none
  QpInfoLen = 3
  MrInfoLen = 3
  SockBuf = 5
  Psns = {11, 22}
  FaultyPeers = {server, client}
  Cells = {c1, c2, c3, c4, c5}
SPECIFICATION ProgramSpec
INVARIANTS BarrierHolds PsnAgreement FramingOK NotifiedAfterData MemoryOutlivesWrite TypeOK
PROPERTIES EveryoneArrives ImplementsParts EndsOrIsLeft
CHECK_DEADLOCK FALSE
