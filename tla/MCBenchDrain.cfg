CONSTANTS
  Server = server
  Client = client
  InfoLen = 2
  AfterExchange = "setup"
  FaultyPeers = {}
  SignalInterval = 2
  SqDepth = 8
  PollBatch = 3
  QpCount = 1
  Warmup = 0
  Iterations = 16
  MayBreak = FALSE
SPECIFICATION ProgramSpec
INVARIANT DrainWaitsForRemaining
CHECK_DEADLOCK FALSE
