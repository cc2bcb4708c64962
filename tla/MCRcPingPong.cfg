CONSTANTS
  Server = server
  Client = client
  None = none
  NumIters = 2
  Lossy = TRUE
  QpInfoLen = 1
  MrInfoLen = 0
  SockBuf = 2
  Psns = {11}
  FaultyPeers = {server, client}
SPECIFICATION ProgramSpec
INVARIANTS IterationsAreClosed PayloadIntegrity NoPacketBeforeReady SuccessIsMutual
PROPERTIES EchoSpec EndsOrIsLeft
CHECK_DEADLOCK FALSE
