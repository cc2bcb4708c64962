CONSTANTS
  Server = server
  Client = client
  InfoLen = 2
  AfterExchange = "setup"
  FaultyPeers = {}
  SignalInterval = 2
  SqDepth = 8
  PollBatch = 3
  QpCount = 1
  Warmup = 20
  Iterations = 40
  MayBreak = FALSE
SPECIFICATION ProgramSpec
INVARIANT NoOverflow
CHECK_DEADLOCK FALSE
